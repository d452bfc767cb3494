--------------------------- MODULE PipelineService ---------------------------
(***************************************************************************)
(* What PipelineClient.Do promises its callers, whatever the pipeline does *)
(* between the call and its result: a call that was made is settled once,  *)
(* with the response to its own request or with an error, the result does  *)
(* not change until the call returns it, and every call returns.           *)
(***************************************************************************)
CONSTANTS Calls,   \* invocations of Do
          Errors,  \* errors a call may be settled with
          NoCall   \* no response

VARIABLES status, outcome

vars == <<status, outcome>>

\* An outcome is the error and the call whose request the response answers.
Unsettled   == <<"none", NoCall>>
Answered(p) == <<"nil", p>>
Failed      == {<<e, NoCall>> : e \in Errors}

Init == /\ status = [p \in Calls |-> "new"]
        /\ outcome = [p \in Calls |-> Unsettled]

Call(p) == /\ status[p] = "new"
           /\ status' = [status EXCEPT ![p] = "open"]
           /\ UNCHANGED outcome

\* Settled by the pipeline, or rejected by the call itself.
Settle(p) == /\ status[p] = "open"
             /\ status' \in {[status EXCEPT ![p] = s] : s \in {"settled", "returned"}}
             /\ \E o \in Failed \cup {Answered(p)} :
                  outcome' = [outcome EXCEPT ![p] = o]

Return(p) == /\ status[p] = "settled"
             /\ status' = [status EXCEPT ![p] = "returned"]
             /\ UNCHANGED outcome

Next == \E p \in Calls : Call(p) \/ Settle(p) \/ Return(p)

Spec == /\ Init /\ [][Next]_vars
        /\ \A p \in Calls : WF_vars(Settle(p) \/ Return(p))

===============================================================================
