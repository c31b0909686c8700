------------------------- MODULE AbiBoundary_proofs -------------------------
(***************************************************************************)
(* Proofs about AbiBoundary for every set of calls, whatever the core makes *)
(* of them and wherever it panics, and for every largest version number.    *)
(***************************************************************************)
EXTENDS AbiBoundary, SequenceTheorems, WellFoundedInduction, TLAPS

Results == {"ok", "rejected", "panic"}

(* Which stages have run, by where the call is. *)
StagesRun ==
  /\ outcome \in [decode : Results \cup {"not run"}, body : Results \cup {"not run"},
                  encode : {"ok", "panic", "not run"}]
  /\ stage = "decoding" => outcome = NotRun
  /\ stage = "body" =>
       outcome.decode = "ok" /\ outcome.body = "not run" /\ outcome.encode = "not run"
  /\ stage \in {"encoding", "returned"} =>
       /\ outcome.decode \in Results
       /\ outcome.decode = "ok" <=> outcome.body \in Results
       /\ outcome.encode = "not run" <=> stage = "encoding"

(* The inductive invariant. *)
Inv == StagesRun /\ EnvelopeMatchesStages /\ NothingLeaks

-----------------------------------------------------------------------------
(* The three results of a call as a set. *)
LEMMA StagesOfRecord ==
  ASSUME outcome \in [decode : Results \cup {"not run"}, body : Results \cup {"not run"},
                      encode : {"ok", "panic", "not run"}]
  PROVE  Stages = {outcome.decode, outcome.body, outcome.encode}
<1>1. DOMAIN outcome = {"decode", "body", "encode"}
  OBVIOUS
<1>2. QED
  BY <1>1 DEF Stages

(* next_version has one of the three results as well.                         *)
LEMMA NextVersionHasResult ==
  ASSUME NEW texts, NEW bump, NEW build
  PROVE  NextVersion(texts, bump, build).status \in Results
<1>1. CASE \E i \in DOMAIN texts : ~IsVersion(texts[i])
  BY <1>1 DEF NextVersion, Outcome, Results
<1>2. CASE ~(\E i \in DOMAIN texts : ~IsVersion(texts[i])) /\ texts = << >>
  BY <1>2 DEF NextVersion, Outcome, Results
<1>3. CASE ~(\E i \in DOMAIN texts : ~IsVersion(texts[i])) /\ texts # << >>
  BY <1>3 DEF NextVersion, Outcome, Results
<1>4. QED
  BY <1>1, <1>2, <1>3

(* Whatever the body does, it has one of the three results. *)
LEMMA BodyHasResult ==
  ASSUME NEW request, NEW core \in Results, NEW build
  PROVE  BodyResult(request, core, build).status \in Results
BY NextVersionHasResult DEF BodyResult, Outcome, Results

-----------------------------------------------------------------------------
(* The invariant, action by action. *)

(* No stage has run, and nothing is held.                                     *)
LEMMA InvInitially == Init => Inv
<1>1. Init => StagesRun
  <2>1. NotRun \in [decode : Results \cup {"not run"}, body : Results \cup {"not run"},
                   encode : {"ok", "panic", "not run"}]
    BY DEF NotRun
  <2>2. QED
    BY <2>1 DEF Init, StagesRun
<1>2. Init => EnvelopeMatchesStages
  BY DEF Init, EnvelopeMatchesStages
<1>3. Init => NothingLeaks
  BY DEF Init, NothingLeaks
<1>4. QED
  BY <1>1, <1>2, <1>3 DEF Inv

(* The first boundary leaves the later stages not run.                        *)
LEMMA DecodeKeepsInv ==
  ASSUME Inv, NEW panics \in BOOLEAN, Decode(panics)
  PROVE  Inv'
<1>1. PICK result \in Results :
        /\ outcome' = [outcome EXCEPT !.decode = result]
        /\ stage' = IF result = "ok" THEN "body" ELSE "encoding"
  <2>1. CASE panics
    <3>1. outcome' = [outcome EXCEPT !.decode = "panic"] /\ stage' = "encoding"
      BY <2>1 DEF Decode
    <3>2. QED
      BY <3>1 DEF Results
  <2>2. CASE ~panics /\ input = "object"
    BY <2>2 DEF Decode, Results
  <2>3. CASE ~panics /\ input # "object"
    BY <2>3 DEF Decode, Results
  <2>4. QED
    BY <2>1, <2>2, <2>3
<1>2. stage = "decoding" /\ outcome = NotRun /\ UNCHANGED <<buffer, blocks>>
  BY DEF Decode, Inv, StagesRun
<1>3. StagesRun'
  BY <1>1, <1>2 DEF StagesRun, NotRun, Results
<1>4. EnvelopeMatchesStages' /\ NothingLeaks'
  BY <1>1, <1>2 DEF Inv, EnvelopeMatchesStages, NothingLeaks
<1>5. QED
  BY <1>3, <1>4 DEF Inv

(* The second boundary runs the body once, after a decode that was ok.        *)
LEMMA BodyKeepsInv ==
  ASSUME Inv, NEW core \in Results, NEW build, Body(core, build)
  PROVE  Inv'
<1>1. PICK result \in Results : outcome' = [outcome EXCEPT !.body = result]
  BY BodyHasResult DEF Body
<1>2. stage = "body" /\ stage' = "encoding" /\ UNCHANGED <<buffer, blocks>>
  BY DEF Body
<1>3. StagesRun'
  <2>1. /\ outcome.decode = "ok" /\ outcome.encode = "not run"
        /\ outcome \in [decode : Results \cup {"not run"}, body : Results \cup {"not run"},
                       encode : {"ok", "panic", "not run"}]
    BY <1>2 DEF Inv, StagesRun
  <2>2. /\ outcome' \in [decode : Results \cup {"not run"}, body : Results \cup {"not run"},
                        encode : {"ok", "panic", "not run"}]
        /\ outcome'.decode = "ok" /\ outcome'.body \in Results
        /\ outcome'.encode = "not run"
    BY <1>1, <2>1
  <2>3. QED
    BY <1>2, <2>2 DEF StagesRun, Results
<1>4. EnvelopeMatchesStages' /\ NothingLeaks'
  BY <1>2 DEF Inv, EnvelopeMatchesStages, NothingLeaks
<1>5. QED
  BY <1>3, <1>4 DEF Inv

(* The third boundary writes the envelope the stages so far call for.         *)
LEMMA EncodeKeepsInv ==
  ASSUME Inv, NEW panics \in BOOLEAN, Encode(panics)
  PROVE  Inv'
<1>1. /\ stage = "encoding" /\ stage' = "returned"
      /\ outcome' = [outcome EXCEPT !.encode = IF panics THEN "panic" ELSE "ok"]
      /\ blocks' = blocks + 1 /\ UNCHANGED buffer
  BY DEF Encode
<1>2. StagesRun'
  BY <1>1 DEF Inv, StagesRun, NotRun, Results
<1>3. NothingLeaks'
  BY <1>1 DEF Inv, NothingLeaks
<1>4. Stages' = {outcome'.decode, outcome'.body, outcome'.encode}
  BY <1>2, StagesOfRecord DEF StagesRun, Stages
<1>5. /\ outcome'.decode = outcome.decode /\ outcome'.body = outcome.body
      /\ outcome'.encode = IF panics THEN "panic" ELSE "ok"
  BY <1>1 DEF Inv, StagesRun
<1>6. ASSUME panics
      PROVE  EnvelopeMatchesStages'
  <2>1. envelope'.kind = "panic" /\ envelope'.ok = FALSE
    BY <1>6 DEF Encode, NoEnvelope
  <2>2. QED
    BY <1>4, <1>5, <1>6, <2>1 DEF EnvelopeMatchesStages
<1>7. ASSUME ~panics
      PROVE  EnvelopeMatchesStages'
  <2>1. envelope'.kind = Kind(outcome) /\ envelope'.ok = (Kind(outcome) = "none")
    BY <1>7 DEF Encode
  <2>2. Stages' = {outcome.decode, outcome.body, "ok"}
    BY <1>4, <1>5, <1>7
  <2>3. /\ outcome.decode \in Results
        /\ outcome.decode = "ok" => outcome.body \in Results
        /\ outcome.decode # "ok" => outcome.body = "not run"
    BY <1>1 DEF Inv, StagesRun
  <2>4. CASE outcome.decode = "rejected"
    BY <1>5, <2>1, <2>2, <2>3, <2>4 DEF EnvelopeMatchesStages, Kind
  <2>5. CASE outcome.decode = "panic"
    BY <1>5, <2>1, <2>2, <2>3, <2>5 DEF EnvelopeMatchesStages, Kind
  <2>6. CASE outcome.decode = "ok" /\ outcome.body = "panic"
    BY <1>5, <2>1, <2>2, <2>6 DEF EnvelopeMatchesStages, Kind
  <2>7. CASE outcome.decode = "ok" /\ outcome.body = "rejected"
    BY <1>5, <2>1, <2>2, <2>7 DEF EnvelopeMatchesStages, Kind
  <2>8. CASE outcome.decode = "ok" /\ outcome.body = "ok"
    BY <1>5, <2>1, <2>2, <2>8 DEF EnvelopeMatchesStages, Kind
  <2>9. QED
    BY <2>3, <2>4, <2>5, <2>6, <2>7, <2>8 DEF Results
<1>8. QED
  BY <1>2, <1>3, <1>6, <1>7 DEF Inv

(* The client's steps take and release what NothingLeaks counts.              *)
LEMMA ClientKeepsInv ==
  ASSUME Inv, Client
  PROVE  Inv'
<1>1. ASSUME NEW length \in Lengths, AllocBuffer(length)
      PROVE  Inv'
  <2>1. StagesRun'
    BY <1>1 DEF AllocBuffer, Inv, StagesRun
  <2>2. EnvelopeMatchesStages'
    BY <1>1 DEF AllocBuffer, EnvelopeMatchesStages
  <2>3. stage = "idle" /\ buffer = "none" /\ stage' = "idle"
    BY <1>1 DEF AllocBuffer
  <2>4. NothingLeaks'
    <3>1. blocks = 0
      BY <2>3 DEF Inv, NothingLeaks
    <3>2. CASE length \in {"zero", "no layout"}
      <4>1. buffer' = "null" /\ blocks' = blocks
        BY <1>1, <3>2 DEF AllocBuffer
      <4>2. QED
        BY <2>3, <3>1, <4>1 DEF NothingLeaks
    <3>3. CASE length \notin {"zero", "no layout"}
      <4>1. buffer' = "held" /\ blocks' = blocks + 1
        BY <1>1, <3>3 DEF AllocBuffer
      <4>2. QED
        BY <2>3, <3>1, <4>1 DEF NothingLeaks
    <3>4. QED
      BY <3>2, <3>3
  <2>5. QED
    BY <2>1, <2>2, <2>4 DEF Inv
<1>2. ASSUME NEW request, NEW given, Enter(request, given)
      PROVE  Inv'
  BY <1>2 DEF Enter, Inv, StagesRun, EnvelopeMatchesStages, NothingLeaks, NotRun, Results
<1>3. CASE FreeBuffer
  <2>1. StagesRun'
    BY <1>3 DEF FreeBuffer, Inv, StagesRun
  <2>2. EnvelopeMatchesStages'
    BY <1>3 DEF FreeBuffer, Inv, EnvelopeMatchesStages, Stages
  <2>3. NothingLeaks'
    BY <1>3 DEF FreeBuffer, Inv, NothingLeaks
  <2>4. QED
    BY <2>1, <2>2, <2>3 DEF Inv
<1>4. ASSUME NEW publishes \in BOOLEAN, FreeString(publishes)
      PROVE  Inv'
  <2>1. /\ stage = "returned" /\ stage' \in {"idle", "freeing"}
        /\ outcome' = NotRun /\ blocks' = blocks - 1 /\ UNCHANGED buffer
    BY <1>4 DEF FreeString
  <2>2. StagesRun'
    BY <2>1 DEF StagesRun, NotRun, Results
  <2>3. EnvelopeMatchesStages'
    BY <2>1 DEF EnvelopeMatchesStages
  <2>4. NothingLeaks'
    BY <2>1 DEF Inv, NothingLeaks
  <2>5. QED
    BY <2>2, <2>3, <2>4 DEF Inv
<1>5. ASSUME NEW version \in OwnVersions, PublishOwn(version)
      PROVE  Inv'
  BY <1>5 DEF PublishOwn, Inv, StagesRun, EnvelopeMatchesStages, NothingLeaks
<1>6. QED
  BY <1>1, <1>2, <1>3, <1>4, <1>5 DEF Client

(* Each step keeps the invariant.                                             *)
LEMMA StepKeepsInv ==
  ASSUME Inv, [Next]_vars
  PROVE  Inv'
<1>1. CASE Library
  BY <1>1, DecodeKeepsInv, BodyKeepsInv, EncodeKeepsInv DEF Library, Results
<1>2. CASE Client
  BY <1>2, ClientKeepsInv
<1>3. CASE UNCHANGED vars
  BY <1>3, ZenonT(30) DEF vars, Inv, StagesRun, EnvelopeMatchesStages, NothingLeaks, Stages
<1>4. QED
  BY <1>1, <1>2, <1>3 DEF Next

(* C-2, C-7 and docs/abi.md: the envelope is `ok` only when every stage came *)
(* to an end, and names a panic if and only if there was one, wherever.        *)
THEOREM EnvelopesMatchStages == Spec => []EnvelopeMatchesStages
<1>1. Inv => EnvelopeMatchesStages
  BY DEF Inv
<1>2. QED
  BY <1>1, InvInitially, StepKeepsInv, PTL DEF Spec

(* C-3, C-4: every call leaves the client one string to release, and what it *)
(* has released, with its buffer, is all there was.                            *)
THEOREM NothingIsLeaked == Spec => []NothingLeaks
<1>1. Inv => NothingLeaks
  BY DEF Inv
<1>2. QED
  BY <1>1, InvInitially, StepKeepsInv, PTL DEF Spec

(* C-3, C-7: every step of a call is a step of the contract, or none: no     *)
(* call is answered twice, nor with a fifth answer.                            *)
THEOREM CallsFollowContract ==
  Spec => Contract!Init /\ [][Contract!Next]_Contract!vars
<1>1. Init => Contract!Init
  BY DEF Init, Contract!Init
<1>2. ASSUME Inv, [Next]_vars
      PROVE  [Contract!Next]_Contract!vars
  <2>1. ASSUME NEW panics \in BOOLEAN, Decode(panics)
        PROVE  UNCHANGED Contract!vars
    <3>1. stage = "decoding" /\ stage' \in {"body", "encoding"}
      BY <2>1 DEF Decode
    <3>2. QED
      BY <3>1 DEF Contract!vars
  <2>2. ASSUME NEW core, NEW build, Body(core, build)
        PROVE  UNCHANGED Contract!vars
    BY <2>2 DEF Body, Contract!vars
  <2>3. ASSUME NEW panics \in BOOLEAN, Encode(panics)
        PROVE  Contract!Answer
    <3>1. stage = "encoding" /\ stage' = "returned"
      BY <2>3 DEF Encode
    <3>2. envelope'.ok \/ envelope'.kind \in {"invalid_request", "validation", "panic"}
      BY <2>3 DEF Encode, Kind, NoEnvelope
    <3>3. QED
      BY <3>1, <3>2 DEF Contract!Answer, Contract!Answers
  <2>4. ASSUME NEW request, NEW given, Enter(request, given)
        PROVE  Contract!Ask
    BY <2>4 DEF Enter, Contract!Ask
  <2>5. ASSUME NEW publishes \in BOOLEAN, FreeString(publishes)
        PROVE  Contract!Release
    <3>1. stage = "returned" /\ stage' \in {"idle", "freeing"}
      BY <2>5 DEF FreeString
    <3>2. envelope.ok \/ envelope.kind # "none"
      BY <1>2, <3>1 DEF Inv, EnvelopeMatchesStages
    <3>3. QED
      BY <3>1, <3>2 DEF Contract!Release
  <2>6. CASE FreeBuffer
    BY <2>6 DEF FreeBuffer, Contract!vars
  <2>7. ASSUME NEW length \in Lengths, AllocBuffer(length)
        PROVE  UNCHANGED Contract!vars
    BY <2>7 DEF AllocBuffer, Contract!vars
  <2>8. ASSUME NEW version \in OwnVersions, PublishOwn(version)
        PROVE  UNCHANGED Contract!vars
    BY <2>8 DEF PublishOwn, Contract!vars
  <2>9. CASE UNCHANGED vars
    BY <2>9 DEF vars, Contract!vars
  <2>10. QED
    BY <1>2, <2>1, <2>2, <2>3, <2>4, <2>5, <2>6, <2>7, <2>8, <2>9
       DEF Next, Library, Client, Contract!Next
<1>3. QED
  BY <1>1, <1>2, InvInitially, StepKeepsInv, PTL DEF Spec

-----------------------------------------------------------------------------
(* Induction over the naturals, for a property given as a set.               *)
LEMMA SetInduction ==
  ASSUME NEW S \in SUBSET Nat, 0 \in S, \A n \in S : n + 1 \in S
  PROVE  S = Nat
<1> DEFINE R == {ss \in Nat \X Nat : ss[1] < ss[2]}
<1>1. OpToRel(<, Nat) = R
  BY DEF OpToRel
<1>2. IsWellFoundedOn(R, Nat)
  BY <1>1, NatLessThanWellFounded, Zenon
<1> SUFFICES ASSUME Nat \ S # {} PROVE FALSE
  OBVIOUS
<1>3. PICK m \in Nat \ S : \A n \in Nat \ S : ~(<<n, m>> \in R)
  <2>1. Nat \ S \in SUBSET Nat
    OBVIOUS
  <2> HIDE DEF R
  <2> QED
    BY <1>2, <2>1, WFMin, Zenon
<1>4. \A n \in Nat \ S : ~(n < m)
  BY <1>3
<1>5. m - 1 \in S
  BY <1>4
<1> QED
  BY <1>3, <1>5

-----------------------------------------------------------------------------
(* The order of versions, written out.                                       *)
LEMMA PrecedesIsLexicographic ==
  ASSUME NEW left, NEW right
  PROVE  Precedes(left, right) <=>
           \/ left[1] < right[1]
           \/ left[2] < right[2] /\ left[1] = right[1]
           \/ left[3] < right[3] /\ left[1] = right[1] /\ left[2] = right[2]
BY DEF Precedes

(* A text that is a version has three numbers that are no less than 0.       *)
LEMMA VersionHasNumbers ==
  ASSUME NEW text \in Texts, IsVersion(text)
  PROVE  Parse(text) \in [1..3 -> 0..IntMax]
<1>1. text \in Seq([plain : BOOLEAN, n : Int]) /\ DOMAIN text = 1..3
  BY DEF Texts, IsVersion
<1>2. \A i \in 1..3 : text[i] \in [plain : BOOLEAN, n : Int] /\ text[i].n >= 0 /\ text[i].n <= IntMax
  <2>1. \A i \in 1..3 : text[i] \in [plain : BOOLEAN, n : Int]
    <3> DEFINE R == [plain : BOOLEAN, n : Int]
    <3>1. text \in Seq(R) /\ DOMAIN text = 1..3
      BY <1>1
    <3> HIDE DEF R
    <3>2. \A i \in 1..3 : text[i] \in R
      BY <3>1
    <3> QED
      BY <3>2 DEF R
  <2>2. \A i \in 1..3 : text[i].plain => text[i].n >= 0
    BY <1>1 DEF Texts
  <2>3. \A i \in 1..3 : text[i].plain /\ text[i].n <= IntMax
    BY DEF IsVersion
  <2> QED
    BY <2>1, <2>2, <2>3
<1>3. \A i \in 1..3 : text[i].n \in 0..IntMax
  BY <1>2, IntAssumption
<1> QED
  BY <1>3 DEF Parse

(* The loop's latest version, of the first i that are published.              *)
LatestOf(given, latest) ==
  \A i \in DOMAIN given : latest[i] =
    IF i = 1 \/ ~Precedes(Parse(given[i]), latest[i - 1]) THEN Parse(given[i]) ELSE latest[i - 1]

(* The loop over what is published defines a latest version at each index.    *)
LEMMA LatestIsDefined ==
  ASSUME NEW given \in Seq(Texts), given # << >>
  PROVE  \E latest : LatestOf(given, latest) /\ Latest(given) = latest[Len(given)]
<1> DEFINE Step(i, f) ==
             IF i = 1 \/ ~Precedes(Parse(given[i]), f[i - 1]) THEN Parse(given[i]) ELSE f[i - 1]
           Good(f, n) == \A i \in 1..n : f[i] = Step(i, f)
           S == {n \in Nat : \E f : f = [i \in 1..n |-> f[i]] /\ Good(f, n)}
<1>1. 0 \in S
  <2>1. Good([i \in 1..0 |-> 0], 0)
    OBVIOUS
  <2> QED
    BY <2>1
<1>2. ASSUME NEW n \in S PROVE n + 1 \in S
  <2>1. PICK f : f = [i \in 1..n |-> f[i]] /\ Good(f, n)
    OBVIOUS
  <2> DEFINE g == [i \in 1..n + 1 |-> IF i = n + 1 THEN Step(i, f) ELSE f[i]]
  <2>2. \A i \in 1..n : g[i] = f[i]
    OBVIOUS
  <2>3. \A i \in 1..n + 1 : i = 1 \/ (i - 1 \in 1..n /\ g[i - 1] = f[i - 1])
    OBVIOUS
  <2>4. \A i \in 1..n + 1 : g[i] = Step(i, f)
    <3>1. \A i \in 1..n : g[i] = Step(i, f)
      <4> HIDE DEF g, Step
      <4> QED
        BY <2>1, <2>2
    <3>2. g[n + 1] = Step(n + 1, f)
      OBVIOUS
    <3>3. \A i \in 1..n + 1 : i \in 1..n \/ i = n + 1
      OBVIOUS
    <3> QED
      BY <3>1, <3>2, <3>3
  <2>5. g = [i \in 1..n + 1 |-> g[i]]
    OBVIOUS
  <2> HIDE DEF g
  <2>6. Good(g, n + 1)
    BY <2>3, <2>4
  <2> HIDE DEF Good, Step
  <2> QED
    BY <2>5, <2>6
<1>3. S = Nat
  <2> HIDE DEF S
  <2>1. S \in SUBSET Nat
    BY DEF S
  <2> QED
    BY <1>1, <1>2, <2>1, SetInduction
<1>4. Len(given) \in Nat /\ DOMAIN given = 1..Len(given)
  OBVIOUS
<1>5. PICK f : f = [i \in DOMAIN given |-> f[i]] /\ Good(f, Len(given))
  <2>1. Len(given) \in S
    BY <1>3, <1>4
  <2> HIDE DEF Good, Step
  <2> QED
    BY <2>1, <1>4
<1>6. f = [i \in DOMAIN given |-> Step(i, f)]
  BY <1>4, <1>5
<1> DEFINE latest == CHOOSE h : h = [i \in DOMAIN given |-> Step(i, h)]
<1>7. latest = [i \in DOMAIN given |-> Step(i, latest)]
  BY <1>6
<1>8. Latest(given) = latest[Len(given)]
  BY DEF Latest
<1> HIDE DEF latest
<1>9. LatestOf(given, latest)
  BY <1>7 DEF LatestOf
<1> QED
  BY <1>8, <1>9

(* Not coming before is transitive: versions are totally ordered.             *)
LEMMA NotBeforeIsTransitive ==
  ASSUME NEW a \in [1..3 -> 0..IntMax], NEW b \in [1..3 -> 0..IntMax], NEW c \in [1..3 -> 0..IntMax],
         ~Precedes(a, b), ~Precedes(b, c)
  PROVE  ~Precedes(a, c)
<1>1. /\ a[1] \in Int /\ a[2] \in Int /\ a[3] \in Int
      /\ b[1] \in Int /\ b[2] \in Int /\ b[3] \in Int
      /\ c[1] \in Int /\ c[2] \in Int /\ c[3] \in Int
  BY IntAssumption
<1> QED
  BY <1>1, PrecedesIsLexicographic

Newest(v, given) == \A i \in DOMAIN given : ~Precedes(v, Parse(given[i]))

(* What the loop ends with is the number of a text that is published, and     *)
(* comes before none.                                                         *)
LEMMA LatestIsHighest ==
  ASSUME NEW given \in Seq(Texts), given # << >>, \A i \in DOMAIN given : IsVersion(given[i])
  PROVE  /\ \E i \in DOMAIN given : Latest(given) = Parse(given[i])
         /\ Newest(Latest(given), given)
         /\ Latest(given) \in [1..3 -> 0..IntMax]
<1>1. PICK latest : LatestOf(given, latest) /\ Latest(given) = latest[Len(given)]
  BY LatestIsDefined
<1>2. Len(given) \in Nat \ {0} /\ DOMAIN given = 1..Len(given)
  OBVIOUS
<1>3. \A i \in DOMAIN given : Parse(given[i]) \in [1..3 -> 0..IntMax]
  BY VersionHasNumbers
<1> DEFINE High(n) == /\ \E i \in 1..n : latest[n] = Parse(given[i])
                      /\ \A i \in 1..n : ~Precedes(latest[n], Parse(given[i]))
           S == {n \in Nat : n \in 1..Len(given) => High(n)}
<1>4. 0 \in S
  OBVIOUS
<1>5. ASSUME NEW n \in S PROVE n + 1 \in S
  <2> SUFFICES ASSUME n + 1 \in 1..Len(given) PROVE High(n + 1)
    OBVIOUS
  <2>1. n \in Nat /\ 1..n + 1 = 1..n \cup {n + 1} /\ n + 1 \in DOMAIN given
    BY <1>2
  <2> DEFINE V == [1..3 -> 0..IntMax]
  <2> HIDE DEF V
  <2>2. \A i \in 1..n + 1 : i \in DOMAIN given /\ Parse(given[i]) \in V
    <3>1. \A i \in 1..n + 1 : i \in DOMAIN given
      BY <1>2, <2>1
    <3> QED
      BY <3>1, <1>3 DEF V
  <2>3. latest[n + 1] = IF n + 1 = 1 \/ ~Precedes(Parse(given[n + 1]), latest[n])
                        THEN Parse(given[n + 1]) ELSE latest[n]
    BY <1>1, <2>1 DEF LatestOf
  <2>4. ~Precedes(Parse(given[n + 1]), Parse(given[n + 1]))
    <3>1. PICK v \in V : v = Parse(given[n + 1])
      BY <2>2, <2>1
    <3> QED
      BY <3>1, IntAssumption, PrecedesIsLexicographic, SMTT(30) DEF V
  <2>5. CASE n = 0
    BY <2>1, <2>3, <2>4, <2>5
  <2>6. CASE n # 0
    <3>1. High(n)
      BY <1>2, <2>1, <2>6
    <3>2. CASE Precedes(Parse(given[n + 1]), latest[n])
      <4>1. latest[n + 1] = latest[n]
        BY <2>1, <2>3, <2>6, <3>2
      <4>2. ~Precedes(latest[n], Parse(given[n + 1]))
        <5>1. PICK v \in V, w \in V : v = latest[n] /\ w = Parse(given[n + 1])
          BY <2>2, <2>1, <3>1
        <5> QED
          BY <3>2, <5>1, IntAssumption, PrecedesIsLexicographic, SMTT(30) DEF V
      <4> QED
        BY <2>1, <3>1, <4>1, <4>2
    <3>3. CASE ~Precedes(Parse(given[n + 1]), latest[n])
      <4>1. latest[n + 1] = Parse(given[n + 1])
        BY <2>3, <3>3
      <4>2. ASSUME NEW i \in 1..n PROVE ~Precedes(Parse(given[n + 1]), Parse(given[i]))
        <5>1. latest[n] \in V /\ Parse(given[n + 1]) \in V /\ Parse(given[i]) \in V
          BY <2>2, <2>1, <3>1, <4>2
        <5>2. ~Precedes(latest[n], Parse(given[i]))
          BY <3>1, <4>2
        <5> QED
          BY <3>3, <5>1, <5>2, NotBeforeIsTransitive DEF V
      <4> QED
        BY <2>1, <2>4, <4>1, <4>2
    <3> QED
      BY <3>2, <3>3
  <2> QED
    BY <2>5, <2>6
<1>6. S = Nat
  <2> HIDE DEF S
  <2>1. S \in SUBSET Nat
    BY DEF S
  <2> QED
    BY <1>4, <1>5, <2>1, SetInduction
<1>7. High(Len(given))
  BY <1>2, <1>6
<1> QED
  BY <1>1, <1>2, <1>3, <1>7 DEF Newest

(* Of the versions with nothing after the bumped segment, the bumped latest   *)
(* one is the least that comes after it.                                      *)
LEMMA ApplyIsLeastAfter ==
  ASSUME NEW bump \in Bumps, NEW latest \in [1..3 -> 0..IntMax], latest[BumpedSegment(bump)] < IntMax
  PROVE  /\ Apply(bump, latest) \in [1..3 -> 0..IntMax]
         /\ Precedes(latest, Apply(bump, latest))
         /\ \A i \in LowerSegments(bump) : Apply(bump, latest)[i] = 0
         /\ \A v \in [1..3 -> 0..IntMax] :
              (\A i \in LowerSegments(bump) : v[i] = 0) /\ Precedes(latest, v)
                => ~Precedes(v, Apply(bump, latest))
<1> DEFINE V == [1..3 -> 0..IntMax]
           at == BumpedSegment(bump)
           next == Apply(bump, latest)
<1>1. latest[1] \in 0..IntMax /\ latest[2] \in 0..IntMax /\ latest[3] \in 0..IntMax /\ IntMax \in Nat
  BY IntAssumption
<1>2. at \in 1..3 /\ Successor(latest[at]) = latest[at] + 1
  BY <1>1 DEF Bumps, BumpedSegment, Successor
<1>3. \A i \in 1..3 : next[i] = IF i < at THEN latest[i] ELSE IF i = at THEN latest[at] + 1 ELSE 0
  BY <1>2 DEF Apply
<1>4. \A i \in LowerSegments(bump) : i \in 1..3 /\ i > at
  BY DEF LowerSegments
<1>5. next \in V
  <2>1. \A i \in 1..3 : next[i] \in 0..IntMax
    BY <1>1, <1>2, <1>3
  <2>2. next = [i \in 1..3 |-> next[i]]
    BY DEF Apply
  <2> QED
    BY <2>1, <2>2
<1> HIDE DEF next
<1>6. \A i \in LowerSegments(bump) : next[i] = 0
  BY <1>2, <1>3, <1>4
<1>7. Precedes(latest, next)
  BY <1>1, <1>2, <1>3, PrecedesIsLexicographic
<1>8. ASSUME NEW v \in V, \A i \in LowerSegments(bump) : v[i] = 0, Precedes(latest, v)
      PROVE  ~Precedes(v, next)
  <2>1. v[1] \in 0..IntMax /\ v[2] \in 0..IntMax /\ v[3] \in 0..IntMax
    BY <1>8
  <2>2. \A i \in 1..3 : i > at => v[i] = 0
    BY <1>8 DEF LowerSegments
  <2>3. \/ latest[1] < v[1]
        \/ latest[2] < v[2] /\ latest[1] = v[1]
        \/ latest[3] < v[3] /\ latest[1] = v[1] /\ latest[2] = v[2]
    BY <1>8, PrecedesIsLexicographic
  <2>4. ~(\/ v[1] < next[1]
          \/ v[2] < next[2] /\ v[1] = next[1]
          \/ v[3] < next[3] /\ v[1] = next[1] /\ v[2] = next[2])
    <3>1. CASE at = 1
      BY <3>1, <1>1, <1>3, <2>1, <2>2, <2>3
    <3>2. CASE at = 2
      BY <3>2, <1>1, <1>3, <2>1, <2>2, <2>3
    <3>3. CASE at = 3
      BY <3>3, <1>1, <1>3, <2>1, <2>2, <2>3
    <3> QED
      BY <1>2, <3>1, <3>2, <3>3
  <2> QED
    BY <2>4, PrecedesIsLexicographic
<1> QED
  BY <1>5, <1>6, <1>7, <1>8 DEF next

(* What is newer than the latest is newer than everything published.          *)
LEMMA NewerThanLatest ==
  ASSUME NEW given \in Seq(Texts), given # << >>, \A i \in DOMAIN given : IsVersion(given[i]),
         NEW v \in [1..3 -> 0..IntMax]
  PROVE  Precedes(Latest(given), v) <=> \A i \in DOMAIN given : Precedes(Parse(given[i]), v)
<1>1. PICK latest \in [1..3 -> 0..IntMax] : latest = Latest(given) /\ Newest(latest, given)
  BY LatestIsHighest
<1>2. \E i \in DOMAIN given : latest = Parse(given[i])
  BY <1>1, LatestIsHighest
<1>3. ASSUME Precedes(latest, v), NEW i \in DOMAIN given PROVE Precedes(Parse(given[i]), v)
  <2>1. PICK p \in [1..3 -> 0..IntMax] : p = Parse(given[i])
    BY VersionHasNumbers
  <2>2. ~Precedes(latest, p)
    BY <1>1, <2>1 DEF Newest
  <2> QED
    BY <1>3, <2>1, <2>2, NotBeforeIsTransitive
<1> QED
  BY <1>1, <1>2, <1>3

(* The versions of which the next one has to be the least.                    *)
Candidates(given, bump) ==
  {v \in [1..3 -> 0..IntMax] :
     /\ \A i \in DOMAIN given : Precedes(Parse(given[i]), v)
     /\ \A i \in LowerSegments(bump) : v[i] = 0}
Exhausted(given, bump) == \E i \in DOMAIN given : Parse(given[i])[BumpedSegment(bump)] = IntMax

(* to_string and parse: what is read of a version text is what was written.   *)
LEMMA DisplayIsText ==
  ASSUME NEW parts, \A i \in 1..3 : parts[i] \in Int
  PROVE  /\ Display(parts) \in Texts
         /\ \A i \in 1..3 : Parse(Display(parts))[i] = parts[i]
         /\ IsVersion(Display(parts)) <=> \A i \in 1..3 : parts[i] >= 0 /\ parts[i] <= IntMax
<1>1. \A i \in 1..3 : Display(parts)[i].plain = (parts[i] >= 0) /\ Display(parts)[i].n = parts[i]
  BY DEF Display, Segment
<1>2. Display(parts) \in Seq([plain : BOOLEAN, n : Int]) /\ DOMAIN Display(parts) = 1..3
  <2> DEFINE R == [plain : BOOLEAN, n : Int]
  <2>1. \A i \in 1..3 : Segment(parts[i]) \in R
    BY DEF Segment
  <2> HIDE DEF R
  <2>2. Display(parts) \in [1..3 -> R]
    BY <2>1 DEF Display
  <2>3. Display(parts) \in Seq(R)
    BY <2>2, SeqDef
  <2> QED
    BY <2>2, <2>3 DEF R
<1>3. Len(Display(parts)) = 3
  BY <1>2, LenProperties
<1> QED
  BY <1>1, <1>2, <1>3 DEF Texts, Parse, IsVersion

(* next_version, of whatever is published and however the library was built.  *)
LEMMA NextVersionIsLeastNewer ==
  ASSUME NEW given \in Seq(Texts), given # << >>, NEW bump \in Bumps, NEW build \in Builds,
         NEW status, NEW next, NextVersion(given, bump, build) = Outcome(status, next)
  PROVE  /\ next \in Texts
         /\ status = "rejected" <=> \E i \in DOMAIN given : ~IsVersion(given[i])
         /\ status = "panic" => Exhausted(given, bump)
         /\ status = "ok" /\ ~IsVersion(next) => Exhausted(given, bump)
         /\ status = "ok" /\ IsVersion(next) =>
              /\ Parse(next) \in Candidates(given, bump)
              /\ \A v \in Candidates(given, bump) : ~Precedes(v, Parse(next))
<1> DEFINE at == BumpedSegment(bump)
<1>1. << >> \in Texts
  BY DEF Texts
<1>2. CASE \E i \in DOMAIN given : ~IsVersion(given[i])
  BY <1>1, <1>2 DEF NextVersion, Outcome
<1>3. CASE \A i \in DOMAIN given : IsVersion(given[i])
  <2>1. PICK latest \in [1..3 -> 0..IntMax] : latest = Latest(given)
    BY <1>3, LatestIsHighest
  <2>2. PICK k \in DOMAIN given : latest = Parse(given[k])
    BY <1>3, <2>1, LatestIsHighest
  <2>3. at \in 1..3 /\ latest[at] \in 0..IntMax /\ IntMax \in Nat
    BY IntAssumption DEF Bumps, BumpedSegment
  <2>4. latest[at] = IntMax => Exhausted(given, bump)
    BY <2>2 DEF Exhausted
  <2> DEFINE w == Apply(bump, latest)
  <2>5. \/ latest[at] = IntMax /\ status = "panic" /\ next = << >>
        \/ status = "ok" /\ next = Display(w)
    BY <1>3, <2>1 DEF NextVersion, Outcome
  <2>6. \A i \in 1..3 : w[i] \in Int
    BY <2>3 DEF Apply, Successor
  <2>7. CASE latest[at] = IntMax
    <3>1. w[at] < 0
      BY <2>3, <2>7 DEF Apply, Successor
    <3> HIDE DEF w
    <3>2. Display(w) \in Texts /\ ~IsVersion(Display(w))
      BY <2>3, <2>6, <3>1, DisplayIsText, SMTT(30)
    <3> QED
      BY <1>1, <1>3, <2>4, <2>5, <2>7, <3>2
  <2>8. CASE latest[at] # IntMax
    <3>1. latest[at] < IntMax
      BY <2>3, <2>8
    <3>2. /\ w \in [1..3 -> 0..IntMax] /\ Precedes(latest, w)
          /\ \A i \in LowerSegments(bump) : w[i] = 0
          /\ \A v \in [1..3 -> 0..IntMax] :
               (\A i \in LowerSegments(bump) : v[i] = 0) /\ Precedes(latest, v) => ~Precedes(v, w)
      BY <3>1, ApplyIsLeastAfter
    <3> HIDE DEF w
    <3>3. status = "ok" /\ next = Display(w) /\ next \in Texts
      BY <2>5, <2>6, <2>8, DisplayIsText
    <3>4. Parse(next) = w
      <4>1. Parse(next) = [i \in 1..3 |-> Parse(next)[i]]
        BY DEF Parse
      <4> QED
        BY <4>1, <2>6, <3>2, <3>3, DisplayIsText
    <3>5. \A v \in [1..3 -> 0..IntMax] :
            Precedes(latest, v) <=> \A i \in DOMAIN given : Precedes(Parse(given[i]), v)
      BY <1>3, <2>1, NewerThanLatest
    <3>6. w \in Candidates(given, bump)
      BY <3>2, <3>5 DEF Candidates
    <3>7. \A v \in Candidates(given, bump) : ~Precedes(v, w)
      BY <3>2, <3>5 DEF Candidates
    <3>8. IsVersion(next)
      <4>1. \A i \in 1..3 : w[i] \in 0..IntMax
        BY <3>2
      <4>2. \A i \in 1..3 : w[i] >= 0 /\ w[i] <= IntMax
        BY <2>3, <4>1
      <4> QED
        BY <2>6, <3>3, <4>2, DisplayIsText
    <3> QED
      BY <1>3, <3>3, <3>4, <3>6, <3>7, <3>8
  <2> QED
    BY <2>7, <2>8
<1> QED
  BY <1>2, <1>3

-----------------------------------------------------------------------------
(* A key that is read is of the right type, or the request is not accepted.   *)
LEMMA ReadIsRight ==
  ASSUME NEW request, Accepts(request), NEW name, request.keys[name] = "wrong",
         NEW required, Key(name, required) \in KeysRead(request)
  PROVE  FALSE
BY DEF Accepts, IsRefused, IsReadable, Key

(* On every branch, each documented key that is there is read, refused, or an *)
(* entry of `schemas` no document calls for.                                  *)
LEMMA WrongIsRead ==
  ASSUME NEW request, IsRequest(request), ~IsRefused(request),
         NEW name \in DOMAIN request.keys, request.keys[name] = "wrong",
         name \notin {"schemas.uiSchema", "schemas.rulesSchema"}
  PROVE  \E required : Key(name, required) \in KeysRead(request)
<1>1. /\ name \in DocumentedKeys(request.entry, request.choice)
      /\ request.entry \in DOMAIN Choices /\ request.choice \in Choices[request.entry]
      /\ request.choice # "unknown"
  BY DEF IsRequest, IsRefused
<1>2. name \in {"components[].code", "components[].contentHash"} => Present(request, "components")
  BY DEF IsRequest, Holder, Present
<1> DEFINE has(n, b) == Key(n, b) \in KeysRead(request)
<1>3. CASE request.entry \in {"compile", "describe_form"}
  <2>1. KeysRead(request) = FormKeys \cup {Key("rulesSchemaJson", FALSE)} \cup ComponentKeys(request)
    BY <1>3 DEF KeysRead
  <2>2. /\ has("formSchemaJson", TRUE) /\ has("uiSchemaJson", FALSE) /\ has("rulesSchemaJson", FALSE)
        /\ has("components", FALSE)
        /\ Present(request, "components") =>
             has("components[].code", TRUE) /\ has("components[].contentHash", FALSE)
    BY <2>1 DEF FormKeys, ComponentKeys
  <2>3. name \in {"formSchemaJson", "uiSchemaJson", "rulesSchemaJson", "components",
                  "components[].code", "components[].contentHash"}
    BY <1>1, <1>3 DEF DocumentedKeys, Triple
  <2> QED
    BY <1>2, <2>2, <2>3
<1>4. CASE request.entry = "content_hash"
  <2>1. KeysRead(request) = FormKeys \cup {Key("rulesSchemaJson", FALSE)}
    BY <1>4 DEF KeysRead
  <2>2. name \in {"formSchemaJson", "uiSchemaJson", "rulesSchemaJson"}
    BY <1>1, <1>4 DEF DocumentedKeys, Triple
  <2> QED
    BY <2>1, <2>2 DEF FormKeys
<1>5. CASE request.entry = "evaluate_rules"
  <2>1. KeysRead(request) = FormKeys \cup {Key("rulesSchemaJson", TRUE), Key("values", FALSE)}
    BY <1>5 DEF KeysRead
  <2>2. name \in {"formSchemaJson", "uiSchemaJson", "rulesSchemaJson", "values"}
    BY <1>1, <1>5 DEF DocumentedKeys, Triple
  <2> QED
    BY <2>1, <2>2 DEF FormKeys
<1>6. CASE request.entry = "validate_response"
  <2>1. KeysRead(request) = FormKeys \cup {Key("rulesSchemaJson", FALSE), Key("answersJson", TRUE),
                                           Key("pageId", FALSE), Key("mode", FALSE)}
    BY <1>6 DEF KeysRead
  <2>2. name \in {"formSchemaJson", "uiSchemaJson", "rulesSchemaJson", "answersJson", "pageId", "mode"}
    BY <1>1, <1>6 DEF DocumentedKeys, Triple
  <2> QED
    BY <2>1, <2>2 DEF FormKeys
<1>7. CASE request.entry = "next_version"
  <2>1. KeysRead(request) = {Key("published", FALSE), Key("bump", FALSE)}
    BY <1>7 DEF KeysRead
  <2>2. name \in {"published", "bump"}
    BY <1>1, <1>7 DEF DocumentedKeys
  <2> QED
    BY <2>1, <2>2
<1>8. CASE request.entry = "validate_schema" /\ request.choice = "form"
  <2>1. {Key("kind", FALSE), Key("rulesSchemaJson", FALSE)} \cup FormKeys
          \cup SchemaKeys({"schemas.formSchema"}) \subseteq KeysRead(request)
    BY <1>8 DEF KeysRead, SchemaKeys
  <2>2. name \in {"formSchemaJson", "uiSchemaJson", "rulesSchemaJson", "kind", "schemas", "schemas.formSchema"}
    BY <1>1, <1>8 DEF DocumentedKeys, Triple
  <2> QED
    BY <2>1, <2>2 DEF FormKeys, SchemaKeys
<1>9. CASE request.entry = "validate_schema" /\ request.choice = "component"
  <2>1. {Key("kind", FALSE)} \cup FormKeys \cup SchemaKeys({"schemas.formSchema"}) \subseteq KeysRead(request)
    BY <1>9 DEF KeysRead, SchemaKeys
  <2>2. name \in {"formSchemaJson", "uiSchemaJson", "kind", "schemas", "schemas.formSchema"}
    BY <1>1, <1>9 DEF DocumentedKeys
  <2> QED
    BY <2>1, <2>2 DEF FormKeys, SchemaKeys
<1>10. CASE request.entry = "validate_schema" /\ request.choice = "workflow"
  <2>1. KeysRead(request) = {Key("kind", FALSE), Key("workflowSchemaJson", TRUE)}
                              \cup SchemaKeys({"schemas.workflowSchema"})
    BY <1>10 DEF KeysRead
  <2>2. name # "published"
    BY <1>10 DEF IsRefused, Present
  <2>3. name \in {"kind", "workflowSchemaJson", "schemas", "schemas.workflowSchema"}
    BY <1>1, <1>10, <2>2 DEF DocumentedKeys
  <2> QED
    BY <2>1, <2>3 DEF SchemaKeys
<1>11. CASE request.entry = "validate_schema" /\ request.choice = "instance"
  <2>1. KeysRead(request) = {Key("kind", FALSE), Key("schemaJson", TRUE), Key("instanceJson", TRUE),
                             Key("label", FALSE), Key("schemas", FALSE)}
    BY <1>11 DEF KeysRead
  <2>2. name \in {"kind", "schemaJson", "instanceJson", "label", "schemas"}
    BY <1>1, <1>11 DEF DocumentedKeys
  <2> QED
    BY <2>1, <2>2
<1> QED
  BY <1>1, <1>3, <1>4, <1>5, <1>6, <1>7, <1>8, <1>9, <1>10, <1>11 DEF Choices

(* Of a request that is accepted, only an entry nobody looks at can be wrong. *)
LEMMA AcceptedIsRight ==
  ASSUME NEW request, IsRequest(request), Accepts(request),
         NEW name \in DOMAIN request.keys, request.keys[name] = "wrong"
  PROVE  name \in Ignored(request)
<1>1. \A required : Key(name, required) \notin KeysRead(request)
  BY ReadIsRight
<1>2. name \in {"schemas.uiSchema", "schemas.rulesSchema"}
  BY <1>1, WrongIsRead DEF Accepts
<1>3. ASSUME NEW key \in KeysRead(request), key.name = name PROVE FALSE
  BY <1>3 DEF Accepts, IsRefused, IsReadable
<1> QED
  BY <1>2, <1>3 DEF Ignored

-----------------------------------------------------------------------------
(* What the call was made with stays as it is while the call is under way, and *)
(* what its body came to is what Body computed from it.                         *)
Known ==
  /\ published \in Seq(Texts) /\ envelope.next \in Texts
  /\ stage \in {"decoding", "body", "encoding", "returned"} => IsRequest(call)

BumpsVersion(request) ==
  Accepts(request) /\ request.entry = "next_version" /\ Present(request, "published")

BodyAnswered ==
  stage \in {"encoding", "returned"} /\ outcome.body # "not run" =>
    /\ outcome.body = "ok" => Accepts(call)
    /\ BumpsVersion(call) =>
         \E build \in Builds : \E next :
           /\ NextVersion(published, BumpOf(call), build) = Outcome(outcome.body, next)
           /\ stage = "encoding" \/ envelope.ok => envelope.next = next

(* An accepted bump is one of the three.                                      *)
LEMMA BumpIsKnown ==
  ASSUME NEW request, IsRequest(request), Accepts(request), request.entry = "next_version"
  PROVE  BumpOf(request) \in Bumps
BY DEF IsRequest, Accepts, IsRefused, Choices, BumpOf, Bumps

(* The text next_version gives out is a text, whatever is published.           *)
LEMMA NextVersionGivesText ==
  ASSUME NEW given \in Seq(Texts), NEW bump \in Bumps, NEW build \in Builds
  PROVE  NextVersion(given, bump, build).next \in Texts
<1>1. CASE given # << >>
  <2>1. PICK status, next : NextVersion(given, bump, build) = Outcome(status, next)
    BY DEF NextVersion
  <2> QED
    BY <1>1, <2>1, NextVersionIsLeastNewer DEF Outcome
<1>2. CASE given = << >>
  <2>1. DefaultVersion \in Texts
    <3> DEFINE d == <<1, 0, 0>>
    <3>1. \A i \in 1..3 : d[i] \in Int
      OBVIOUS
    <3> HIDE DEF d
    <3>2. Display(d) \in Texts
      BY <3>1, DisplayIsText
    <3> QED
      BY <3>2 DEF d, DefaultVersion
  <2>2. DOMAIN given = {}
    BY <1>2
  <2> QED
    BY <1>2, <2>1, <2>2 DEF NextVersion, Outcome
<1> QED
  BY <1>1, <1>2

(* The body's answer is that of next_version where it bumps a version.        *)
LEMMA BodyKeepsAnswered ==
  ASSUME Inv, Known, NEW core \in Results, NEW build \in Builds, Body(core, build)
  PROVE  Known' /\ BodyAnswered'
<1> DEFINE given == IF Present(call, "published") THEN published ELSE << >>
<1>1. PICK result : /\ result = BodyResult(call, core, build)
                    /\ outcome' = [outcome EXCEPT !.body = result.status]
                    /\ envelope' = [NoEnvelope EXCEPT !.next = result.next]
  BY DEF Body
<1>2. /\ stage = "body" /\ stage' = "encoding" /\ UNCHANGED <<call, published>>
      /\ IsRequest(call) /\ published \in Seq(Texts)
  BY DEF Body, Known
<1>3. outcome'.body = result.status /\ envelope'.next = result.next
  BY <1>1, <1>2 DEF Inv, StagesRun, NoEnvelope
<1>4. << >> \in Texts /\ given \in Seq(Texts)
  BY <1>2 DEF Texts
<1>5. CASE ~Accepts(call)
  <2>1. result.status = "rejected" /\ result.next = << >>
    BY <1>1, <1>5 DEF BodyResult, Outcome
  <2>2. ~Accepts(call')
    BY <1>2, <1>5
  <2>3. Known'
    BY <1>2, <1>3, <1>4, <2>1 DEF Known
  <2> QED
    BY <1>3, <2>1, <2>2, <2>3 DEF BodyAnswered, BumpsVersion
<1>6. CASE Accepts(call) /\ call.entry = "next_version"
  <2>1. result = NextVersion(given, BumpOf(call), build)
    BY <1>1, <1>6 DEF BodyResult
  <2>2. result.next \in Texts
    BY <1>2, <1>4, <1>6, <2>1, BumpIsKnown, NextVersionGivesText
  <2>3. Known'
    BY <1>2, <1>3, <2>2 DEF Known
  <2>4. result = Outcome(result.status, result.next)
    BY <2>1 DEF NextVersion, Outcome
  <2>5. ASSUME BumpsVersion(call)
        PROVE  NextVersion(published, BumpOf(call), build) = Outcome(outcome'.body, envelope'.next)
    BY <1>3, <2>1, <2>4, <2>5 DEF BumpsVersion
  <2>6. BodyAnswered'
    BY <1>2, <1>6, <2>5 DEF BodyAnswered
  <2> QED
    BY <2>3, <2>6
<1>7. CASE Accepts(call) /\ call.entry # "next_version"
  <2>1. result.next = << >>
    BY <1>1, <1>7 DEF BodyResult, Outcome
  <2>2. Known'
    BY <1>2, <1>3, <1>4, <2>1 DEF Known
  <2>3. BodyAnswered'
    BY <1>2, <1>7 DEF BodyAnswered, BumpsVersion
  <2> QED
    BY <2>2, <2>3
<1> QED
  BY <1>5, <1>6, <1>7

(* The envelope carries the body's text unless there is an error.             *)
LEMMA EncodeKeepsAnswered ==
  ASSUME Inv, Known, BodyAnswered, NEW panics \in BOOLEAN, Encode(panics)
  PROVE  Known' /\ BodyAnswered'
<1>1. stage = "encoding" /\ stage' = "returned" /\ UNCHANGED <<call, published>>
  BY DEF Encode
<1>2. outcome'.body = outcome.body
  BY <1>1 DEF Encode, Inv, StagesRun
<1>3. envelope'.next \in {envelope.next, << >>} /\ (envelope'.ok => envelope'.next = envelope.next)
  BY DEF Encode, NoEnvelope
<1>4. << >> \in Texts
  BY DEF Texts
<1>5. Known'
  BY <1>1, <1>3, <1>4 DEF Known
<1>6. BodyAnswered'
  BY <1>1, <1>2, <1>3 DEF BodyAnswered
<1> QED
  BY <1>5, <1>6

(* The client sends requests of the tables and publishes texts.               *)
LEMMA ClientKeepsAnswered ==
  ASSUME Inv, Known, BodyAnswered, Client
  PROVE  Known' /\ BodyAnswered'
<1>1. ASSUME NEW length \in Lengths, AllocBuffer(length)
      PROVE  Known' /\ BodyAnswered'
  BY <1>1 DEF AllocBuffer, Known, BodyAnswered
<1>2. ASSUME NEW request \in Calls \cup VersionCalls, NEW given, Enter(request, given)
      PROVE  Known' /\ BodyAnswered'
  <2>1. IsRequest(request)
    BY RequestsAssumption
  <2>2. /\ stage' = "decoding" /\ call' = request
        /\ UNCHANGED <<published, envelope>>
    BY <1>2 DEF Enter
  <2> QED
    BY <2>1, <2>2 DEF Known, BodyAnswered
<1>3. CASE FreeBuffer
  <2>1. /\ UNCHANGED <<call, published, outcome, envelope>>
        /\ stage' \in {"idle", stage} /\ stage \in {"returned", "freeing"}
    BY <1>3 DEF FreeBuffer
  <2>2. Known'
    BY <2>1 DEF Known
  <2>3. BodyAnswered'
    BY <2>1 DEF BodyAnswered
  <2> QED
    BY <2>2, <2>3
<1>4. ASSUME NEW publishes \in BOOLEAN, FreeString(publishes)
      PROVE  Known' /\ BodyAnswered'
  <2>1. /\ published' \in {published, Append(published, envelope.next)}
        /\ stage' \in {"idle", "freeing"} /\ envelope' = NoEnvelope
    BY <1>4 DEF FreeString
  <2>2. envelope'.next \in Texts
    BY <2>1 DEF NoEnvelope, Texts
  <2>3. published' \in Seq(Texts)
    BY <2>1 DEF Known
  <2> QED
    BY <2>1, <2>2, <2>3 DEF Known, BodyAnswered
<1>5. ASSUME NEW version \in OwnVersions, PublishOwn(version)
      PROVE  Known' /\ BodyAnswered'
  <2>1. /\ published' = Append(published, version) /\ stage' = "idle" /\ UNCHANGED envelope
    BY <1>5 DEF PublishOwn
  <2>2. published' \in Seq(Texts)
    BY <2>1, RequestsAssumption DEF Known
  <2> QED
    BY <2>1, <2>2 DEF Known, BodyAnswered
<1> QED
  BY <1>1, <1>2, <1>3, <1>4, <1>5 DEF Client

(* The inductive invariant of what the envelope says of the request.           *)
IInv == Inv /\ Known /\ BodyAnswered

(* Nothing is published and nothing has been answered.                        *)
LEMMA IInvInitially == Init => IInv
<1>1. ASSUME Init PROVE Known /\ BodyAnswered
  <2>1. << >> \in Texts
    BY DEF Texts
  <2> QED
    BY <1>1, <2>1 DEF Init, Known, BodyAnswered, NoEnvelope
<1> QED
  BY <1>1, InvInitially DEF IInv

(* Each step keeps it.                                                        *)
LEMMA StepKeepsIInv ==
  ASSUME IInv, [Next]_vars
  PROVE  IInv'
<1>1. Inv'
  BY StepKeepsInv DEF IInv
<1>2. ASSUME NEW panics \in BOOLEAN, Decode(panics)
      PROVE  Known' /\ BodyAnswered'
  <2>1. /\ stage = "decoding" /\ stage' \in {"body", "encoding"}
        /\ UNCHANGED <<call, published, envelope>>
    BY <1>2 DEF Decode
  <2>2. outcome'.body = "not run"
    <3>1. outcome = NotRun
      BY <2>1 DEF IInv, Inv, StagesRun
    <3> QED
      BY <1>2, <3>1 DEF Decode, NotRun
  <2> QED
    BY <2>1, <2>2 DEF IInv, Known, BodyAnswered
<1>3. ASSUME NEW core \in {"ok", "rejected", "panic"}, NEW build \in Builds, Body(core, build)
      PROVE  Known' /\ BodyAnswered'
  BY <1>3, BodyKeepsAnswered DEF IInv, Results
<1>4. ASSUME NEW panics \in BOOLEAN, Encode(panics)
      PROVE  Known' /\ BodyAnswered'
  BY <1>4, EncodeKeepsAnswered DEF IInv
<1>5. ASSUME Client PROVE Known' /\ BodyAnswered'
  BY <1>5, ClientKeepsAnswered DEF IInv
<1>6. ASSUME UNCHANGED vars PROVE Known' /\ BodyAnswered'
  <2>1. UNCHANGED <<stage, call, published, outcome, envelope>>
    BY <1>6 DEF vars
  <2>2. Known' /\ (BodyAnswered <=> BodyAnswered')
    BY <2>1 DEF IInv, Known, BodyAnswered
  <2> QED
    BY <2>2 DEF IInv
<1>7. Known' /\ BodyAnswered'
  BY <1>2, <1>3, <1>4, <1>5, <1>6 DEF Next, Library
<1> QED
  BY <1>1, <1>7 DEF IInv

(* docs/abi.md; C-6, C-8, C-9: for every set of calls, what the envelope says  *)
(* happened is what happened, an `ok` one comes of a request whose documented  *)
(* keys all had the type they should, and nothing leaks.                       *)
THEOREM EnvelopesAreTruthful == Spec => []EnvelopeIsTruthful
<1>1. ASSUME IInv PROVE WrongTypeRejected
  <2> SUFFICES ASSUME stage = "returned", envelope.ok PROVE
        \A name \in DOMAIN call.keys : call.keys[name] = "wrong" => name \in Ignored(call)
    BY DEF WrongTypeRejected
  <2>1. outcome.body \in Stages /\ Stages = {"ok"}
    BY <1>1, StagesOfRecord DEF IInv, Inv, StagesRun, EnvelopeMatchesStages
  <2>2. Accepts(call) /\ IsRequest(call)
    BY <1>1, <2>1 DEF IInv, BodyAnswered, Known
  <2> QED
    BY <2>2, AcceptedIsRight
<1>2. IInv => EnvelopeIsTruthful
  BY <1>1 DEF IInv, Inv, EnvelopeIsTruthful
<1> QED
  BY <1>2, IInvInitially, StepKeepsIInv, PTL DEF Spec

(* P-4, P-6: for every largest number, whatever is published and in whatever   *)
(* order, colander's own answers included, the next version is the least one   *)
(* of its bump that is newer than all of it.                                    *)
THEOREM NextIsAlwaysLeastNewer == Spec => []NextIsLeastNewer
<1>1. ASSUME IInv, stage = "returned", call.entry = "next_version", Present(call, "published"),
             outcome.body # "not run", Accepts(call), published # << >>
      PROVE  LET given == {published[i] : i \in DOMAIN published}
                 newer == {v \in [1..3 -> 0..IntMax] : \A text \in given : Precedes(Parse(text), v)}
                 bumped == {v \in newer : \A i \in LowerSegments(BumpOf(call)) : v[i] = 0}
                 full == \E text \in given : Parse(text)[BumpedSegment(BumpOf(call))] = IntMax
             IN  /\ outcome.body = "rejected" <=> \E text \in given : ~IsVersion(text)
                 /\ outcome.body = "panic" => full
                 /\ envelope.ok /\ ~IsVersion(envelope.next) => full
                 /\ envelope.ok /\ IsVersion(envelope.next) =>
                      /\ Parse(envelope.next) \in bumped
                      /\ \A v \in bumped : ~Precedes(v, Parse(envelope.next))
  <2> DEFINE given == {published[i] : i \in DOMAIN published}
             newer == {v \in [1..3 -> 0..IntMax] : \A text \in given : Precedes(Parse(text), v)}
             bump == BumpOf(call)
             bumped == {v \in newer : \A i \in LowerSegments(bump) : v[i] = 0}
             full == \E text \in given : Parse(text)[BumpedSegment(bump)] = IntMax
  <2>1. bump \in Bumps /\ published \in Seq(Texts)
    BY <1>1, BumpIsKnown DEF IInv, Known
  <2>2. PICK build \in Builds : \E text :
          /\ NextVersion(published, bump, build) = Outcome(outcome.body, text)
          /\ envelope.ok => envelope.next = text
    BY <1>1 DEF IInv, BodyAnswered, BumpsVersion
  <2>3. PICK next : /\ NextVersion(published, bump, build) = Outcome(outcome.body, next)
                    /\ envelope.ok => envelope.next = next
    BY <2>2
  <2>4. envelope.ok => outcome.body = "ok"
    <3>1. outcome.body \in Stages /\ (envelope.ok => Stages = {"ok"})
      BY <1>1, StagesOfRecord DEF IInv, Inv, StagesRun, EnvelopeMatchesStages
    <3> QED
      BY <3>1
  <2> HIDE DEF bump
  <2>5. /\ outcome.body = "rejected" <=> \E i \in DOMAIN published : ~IsVersion(published[i])
        /\ outcome.body = "panic" => Exhausted(published, bump)
        /\ outcome.body = "ok" /\ ~IsVersion(next) => Exhausted(published, bump)
        /\ outcome.body = "ok" /\ IsVersion(next) =>
             /\ Parse(next) \in Candidates(published, bump)
             /\ \A v \in Candidates(published, bump) : ~Precedes(v, Parse(next))
    BY <1>1, <2>1, <2>2, <2>3, NextVersionIsLeastNewer
  <2>6. (\E i \in DOMAIN published : ~IsVersion(published[i])) <=> \E text \in given : ~IsVersion(text)
    OBVIOUS
  <2>7. Exhausted(published, bump) => full
    BY DEF Exhausted
  <2>8. \A v : v \in Candidates(published, bump) <=> v \in bumped
    BY DEF Candidates
  <2> HIDE DEF given, bumped, full
  <2>9. /\ outcome.body = "rejected" <=> \E text \in given : ~IsVersion(text)
        /\ outcome.body = "panic" => full
        /\ envelope.ok /\ ~IsVersion(envelope.next) => full
        /\ envelope.ok /\ IsVersion(envelope.next) =>
             /\ Parse(envelope.next) \in bumped
             /\ \A v \in bumped : ~Precedes(v, Parse(envelope.next))
    BY <2>3, <2>4, <2>5, <2>6, <2>7, <2>8
  <2> QED
    BY <2>9 DEF given, bumped, full, bump
<1>2. IInv => NextIsLeastNewer
  BY <1>1 DEF NextIsLeastNewer
<1> QED
  BY <1>2, IInvInitially, StepKeepsIInv, PTL DEF Spec

=============================================================================
