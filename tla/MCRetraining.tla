-------------------------------- MODULE MCRetraining --------------------------------
(***************************************************************************)
(* One training request and a qualification of the same request, which     *)
(* retrain the same model and share the controls.  A lifecycle of another  *)
(* model may have used up the budget of the first day.                     *)
(***************************************************************************)
EXTENDS Qualification

CONSTANTS r1, q1, other, m1, m2

MCParent == [o \in Owners |-> IF o = other THEN m2 ELSE m1]
MCQualRequest == [q \in Quals |-> r1]

Fresh == [o \in Owners |-> NoSnapshot]
OtherTrained == [Fresh EXCEPT ![other] = [state |-> "TRAINING_FAILED", attempts |-> <<0>>, done |-> {},
                                     mature |-> 0, status |-> "NOT_READY", evaluated |-> NoPolicy]]
MCHistories == {Fresh, OtherTrained}

\* Where two sides have nothing left to share, not every interleaving of their steps
\* is explored.  They share the controls up to the training of each, and after it the
\* lifecycle lock only; a closed qualification acts no more.
SidesMeet ==
    /\ auths # <<>> => Results(r1) \subseteq {"training"}
    /\ call.at # "idle" /\ qcall.at # "idle" =>
        /\ "training" \notin call.snap.done
        /\ qcall.snap.state \in {"TRAINING_PENDING_APPROVAL", "TRAINING", "TRAINING_FAILED"}
    /\ out[q1] # NoSnapshot => out[q1].state \notin Closed \cup {"QUALIFIED"}

\* The operator's execution of the request meets the lifecycle's; with that of a
\* qualification it shares only the production lock, which may be busy at any time.
OperatorMeetsLifecycle ==
    /\ exec["operator"] # Idle => call.at \in {"idle", "execute", "executing"}
    /\ exec["operator"] # Idle \/ (begun[r1] = 0 /\ journal[r1] # "MISSING") =>
        out[q1] = NoSnapshot /\ qcall.at = "idle"

Focus == SidesMeet /\ OperatorMeetsLifecycle
=============================================================================
