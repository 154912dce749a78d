------------------------ MODULE ApplicationWorkflow ------------------------
(***************************************************************************)
(* The rules of the application state machine                              *)
(* (PropertyManagement.Domain/Rules/ApplicationWorkflow.cs).  They are      *)
(* pure: no state, no I/O.                                                 *)
(***************************************************************************)

ApplicationStatus ==
    {"Draft", "Submitted", "Returned", "Approved", "Denied", "Withdrawn"}

ReviewOutcome == {"Approve", "Return", "Deny"}

\* The FromStatus of an application's first history entry (null in the code).
NoStatus == "None"

\* The statuses each status may move to.
Transitions ==
    [Draft     |-> {"Submitted", "Withdrawn"},
     Submitted |-> {"Approved", "Returned", "Denied", "Withdrawn"},
     Returned  |-> {"Submitted", "Withdrawn"},
     Approved  |-> {},
     Denied    |-> {},
     Withdrawn |-> {}]

\* Faulty variant: the status is looked up, and the list it may move to is not.
CanTransitionAnywhere(from, to) == from \in ApplicationStatus

CanTransition(from, to) == from \in ApplicationStatus /\ to \in Transitions[from]

IsTerminal(status) == Transitions[status] = {}

TerminalStatuses == {s \in ApplicationStatus : IsTerminal(s)}

OpenStatuses == {s \in ApplicationStatus : ~IsTerminal(s)}

\* An applicant edits an application only in these statuses.
IsEditable(status) == status \in {"Draft", "Returned"}

CanWithdraw(status) == CanTransition(status, "Withdrawn")

CanSubmit(status) == CanTransition(status, "Submitted")

CanReview(status) == status = "Submitted"

\* The status a review outcome leads to.
ToStatus == [Approve |-> "Approved", Return |-> "Returned", Deny |-> "Denied"]

\* Faulty variant: a denial needs no comment.
RequiresCommentToReturn(outcome) == outcome = "Return"

RequiresComment(outcome) == outcome \in {"Return", "Deny"}

=============================================================================
