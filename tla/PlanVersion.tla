----------------------------- MODULE PlanVersion -----------------------------
(***************************************************************************)
(* What the owner may rely on about every version of a plan: its content   *)
(* is fixed by the time it is submitted, only the submitted content is     *)
(* approved, and only the approved content runs.  A version that is not    *)
(* yet running can be withdrawn; one that failed can run again.            *)
(***************************************************************************)
EXTENDS Naturals

CONSTANT Versions
VARIABLES status, fingerprint, approved

Init == /\ status = [v \in Versions |-> "none"]
        /\ fingerprint = [v \in Versions |-> 0] /\ approved = [v \in Versions |-> {}]

Move(v, from, to) == status[v] \in from /\ status'[v] \in to
SameContent(v)    == fingerprint'[v] = fingerprint[v]
SameApproval(v)   == approved'[v] = approved[v]

(* The planner's draft, then bound to the issue proposals of its tasks.    *)
Draft(v) == Move(v, {"none"}, {"discussion"}) /\ SameContent(v) /\ SameApproval(v)
Bind(v)  == /\ Move(v, {"discussion"}, {"discussion"}) /\ SameApproval(v)
            /\ fingerprint[v] = 0 /\ fingerprint'[v] = 1

Submit(v)   == /\ Move(v, {"discussion"}, {"awaiting_approval"})
               /\ fingerprint[v] = 1 /\ SameContent(v) /\ SameApproval(v)
Approve(v)  == /\ Move(v, {"awaiting_approval"}, {"approved"})
               /\ approved'[v] = {fingerprint[v]} /\ SameContent(v)
Withdraw(v) == /\ Move(v, {"discussion", "awaiting_approval", "approved"}, {"cancelled"})
               /\ SameContent(v) /\ SameApproval(v)

(* A run starts, or starts again after it failed, with what was approved.  *)
Run(v)  == /\ Move(v, {"approved", "failed"}, {"running"})
           /\ approved[v] = {fingerprint[v]} /\ SameContent(v) /\ SameApproval(v)
Work(v) == /\ Move(v, {"running", "paused"},
                   {"running", "paused", "completed", "failed", "cancelled"})
           /\ SameContent(v) /\ SameApproval(v)

Rest(v) == status'[v] = status[v] /\ SameContent(v) /\ SameApproval(v)

Next == \A v \in Versions : \/ Draft(v) \/ Bind(v) \/ Submit(v) \/ Approve(v)
                            \/ Withdraw(v) \/ Run(v) \/ Work(v) \/ Rest(v)

Spec == Init /\ [][Next]_<<status, fingerprint, approved>>
=============================================================================
