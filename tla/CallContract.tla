---------------------------- MODULE CallContract ----------------------------
(***************************************************************************)
(* What a caller of the C ABI may rely on (docs/abi.md): a call that was   *)
(* made is answered, by one of four kinds of answer, and the next call is  *)
(* made when that answer has been released.                                *)
(***************************************************************************)

VARIABLES
  pending,   \* a call has been made and not answered
  answer     \* the answer the caller holds, or "none"

vars == <<pending, answer>>

Answers == {"ok", "invalid_request", "validation", "panic"}

Init == ~pending /\ answer = "none"

Ask ==
  /\ ~pending /\ answer = "none"
  /\ pending' = TRUE
  /\ UNCHANGED answer

Answer ==
  /\ pending
  /\ pending' = FALSE
  /\ answer' \in Answers

Release ==
  /\ answer # "none"
  /\ answer' = "none"
  /\ UNCHANGED pending

Next == Ask \/ Answer \/ Release

Spec == Init /\ [][Next]_vars /\ WF_vars(Answer)

=============================================================================
