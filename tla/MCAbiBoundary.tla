--------------------------- MODULE MCAbiBoundary ---------------------------
(***************************************************************************)
(* Every combination of key states of every entry point. Versions have     *)
(* numbers of 0..2.                                                         *)
(***************************************************************************)
EXTENDS AbiBoundary

(* the key an entry point branches on, and what it does without it *)
Branches ==
  [validate_response |-> [key |-> "mode", default |-> "Draft"],
   next_version |-> [key |-> "bump", default |-> "default"],
   validate_schema |-> [key |-> "kind", default |-> "form"]]

Requests(entry) ==
  UNION {{request \in [entry : {entry}, choice : {choice},
                       keys : [DocumentedKeys(entry, choice) -> {"absent", "right", "wrong"}]] :
            /\ IsRequest(request)
            /\ entry \in DOMAIN Branches =>
                 \/ request.keys[Branches[entry].key] = "right"
                 \/ choice = Branches[entry].default} :
         choice \in Choices[entry]}

MCCalls == UNION {Requests(entry) : entry \in DOMAIN Choices \ {"next_version"}}

MCVersionCalls == Requests("next_version")

MCOwnVersions ==
  {Display(<<major, minor, patch>>) : major \in 0..1, minor \in {0, 2}, patch \in {0, 2}}
  \cup {<<Segment(1), Segment(0)>>}

=============================================================================
