----------------------------- MODULE ModalDialog -----------------------------
(***************************************************************************)
(* The dialog every create, edit, remove, review, withdraw and notes form  *)
(* is shown in (PropertyManagement.Web/wwwroot/js/site.js): its content is *)
(* fetched, its form is posted with fetch, and Bootstrap's Modal opens and *)
(* closes it with transitions during which show() and hide() are ignored.  *)
(* A form that is saved refreshes a part of the page, with what the server *)
(* has read after saving, or leaves the page.                              *)
(* The script runs to completion between events; the server's steps, the   *)
(* answers to fetches, ends of transitions and what the user does come in  *)
(* any order.                                                              *)
(***************************************************************************)
EXTENDS ApplicationWorkflow, Integers

CONSTANTS
    Forms,        \* rendered forms; their number is a bound
    ReviewForms,  \* those that are the review form, with its outcomes
    Followed,     \* bound: forms whose changes are followed to the page
    MaxLoads,     \* bound: loadModal calls under way
    None          \* no form has been rendered yet, no outcome is chosen

ASSUME ModalAssumption ==
    /\ MaxLoads \in Nat
    /\ None \notin Forms \cup ReviewOutcome
    /\ ReviewForms \subseteq Forms
    /\ Followed \subseteq Forms

VARIABLES
    modal,      \* the dialog: Bootstrap's flags, the script's tracker and listeners
    content,    \* the form in the dialog
    review,     \* what the review form shows
    loading,    \* loadModal calls under way
    inFlight,   \* form -> submissions of it under way
    disabled,   \* forms whose submit buttons are disabled
    phase,      \* form -> how far the server is with its submission
    saved,      \* Followed forms whose changes the server has saved
    read,       \* form -> those of them that show in the answer rendered for it
    shown,      \* those that show on the page
    leaving,    \* the browser has been told to navigate
    report,     \* what the server has said of the content (for the properties):
                \* "none", "saved", or "late", saved while the dialog was hiding
                \* to be shown again
    view        \* what became of the content (for the properties): "coming" until
                \* the dialog is shown with it, "closed" if it is hidden at once

dialog == <<modal, content, review, report, view>>

posts == <<inFlight, disabled>>

server == <<phase, saved, read>>

page == <<shown, leaving>>

vars == <<dialog, loading, posts, server, page>>

ModalRecord ==
    [state           : {"hidden", "showing", "shown", "hiding"},   \* the tracker
     isShown         : BOOLEAN,
     isTransitioning : BOOLEAN,
     backdropLeaving : BOOLEAN,   \* _hideModal ran, its hidden event is to come
     showOnHidden    : BOOLEAN,   \* a once-listener on hidden that calls show()
     hideOnShown     : BOOLEAN]   \* a once-listener on shown that calls hide()

ClosedModal ==
    [state |-> "hidden", isShown |-> FALSE, isTransitioning |-> FALSE,
     backdropLeaving |-> FALSE, showOnHidden |-> FALSE, hideOnShown |-> FALSE]

\* The review form as its template has it: the field for the start of the lease is
\* there, and a comment is said to be required.
Template(outcome) == [checked |-> outcome, leaseShown |-> TRUE, commentRequired |-> TRUE]

ReviewRecord ==
    [checked : ReviewOutcome \cup {None}, leaseShown : BOOLEAN, commentRequired : BOOLEAN]

Init ==
    /\ modal = ClosedModal
    /\ content = None
    /\ review = Template(None)
    /\ loading = 0
    /\ inFlight = [f \in Forms |-> 0]
    /\ disabled = {}
    /\ phase = [f \in Forms |-> "none"]
    /\ saved = {}
    /\ read = [f \in Forms |-> {}]
    /\ shown = {}
    /\ leaving = FALSE
    /\ report = "none"
    /\ view = "closed"

----------------------------------------------------------------------------
(* Bootstrap's Modal, with the script's listeners on its events *)

Show(m) ==
    IF m.isShown \/ m.isTransitioning THEN m
    ELSE [m EXCEPT !.state = "showing", !.isShown = TRUE, !.isTransitioning = TRUE]

\* Faulty variant: no listener on hide.
HideUntracked(m) ==
    IF ~m.isShown \/ m.isTransitioning THEN m
    ELSE [m EXCEPT !.isShown = FALSE, !.isTransitioning = TRUE]

Hide(m) ==
    IF ~m.isShown \/ m.isTransitioning THEN m
    ELSE [m EXCEPT !.state = "hiding", !.isShown = FALSE, !.isTransitioning = TRUE]

\* shown: the tracker first, then the once-listeners; a second one changes
\* nothing, because hide() is ignored by then.
OnShown(m) ==
    LET opened == [m EXCEPT !.isTransitioning = FALSE, !.state = "shown",
                            !.hideOnShown = FALSE]
    IN  IF m.hideOnShown THEN Hide(opened) ELSE opened

OnHidden(m) ==
    LET closed == [m EXCEPT !.backdropLeaving = FALSE, !.state = "hidden",
                            !.showOnHidden = FALSE]
    IN  IF m.showOnHidden THEN Show(closed) ELSE closed

----------------------------------------------------------------------------
(* The script *)

\* Faulty variant: show() is called at once, in every state.
OpenAtOnce(m) == Show(m)

OpenModal(m) ==
    CASE m.state = "hidden" -> Show(m)
      [] m.state = "hiding" -> [m EXCEPT !.showOnHidden = TRUE]
      [] OTHER              -> m

\* Faulty variant: hide() is called at once, in every state.
CloseAtOnce(m) == Hide(m)

CloseModal(m) ==
    CASE m.state = "shown"   -> Hide(m)
      [] m.state = "showing" -> [m EXCEPT !.hideOnShown = TRUE]
      [] OTHER               -> m

\* Faulty variant: update() is left to the change event.
InitReviewFormLate(outcome) == Template(outcome)

\* initReviewForm: update() runs at once and on every change of the outcome.
InitReviewForm(outcome) ==
    [checked |-> outcome, leaseShown |-> outcome = "Approve",
     commentRequired |-> outcome # "Approve"]

\* Forms that are neither in the dialog nor being posted: gone, or yet to come.
FreeForms == {f \in Forms : content # f /\ inFlight[f] = 0}

\* renderModal: the content is replaced by a new form, then the dialog opened.
\* What an earlier form of that name had changed is not followed any further.
Render(f) ==
    /\ f \in FreeForms
    /\ content' = f
    /\ IF f \in ReviewForms
       THEN \E outcome \in ReviewOutcome \cup {None} : review' = InitReviewForm(outcome)
       ELSE review' = Template(None)
    /\ report' = "none"
    /\ modal' = OpenModal(modal)
    /\ view' = IF modal'.state = "shown" THEN "shown" ELSE "coming"
    /\ saved' = saved \ {f}
    /\ read' = [g \in Forms |-> read[g] \ {f}]
    /\ shown' = shown \ {f}

Answered(f) ==
    /\ inFlight[f] > 0
    /\ inFlight' = [inFlight EXCEPT ![f] = @ - 1]
    /\ disabled' = disabled \ {f}
    /\ phase' = [phase EXCEPT ![f] = "none"]

\* A click on a trigger.  The open dialog and its backdrop cover the page.
LoadModal ==
    /\ modal.state # "shown"
    /\ loading < MaxLoads
    /\ loading' = loading + 1
    /\ UNCHANGED <<dialog, posts, server, page>>

LoadAnswered(f) ==
    /\ loading > 0
    /\ loading' = loading - 1
    /\ Render(f)
    /\ UNCHANGED <<posts, phase, leaving>>

\* The session has expired: the fetch was redirected to the login page.
LoadRedirected ==
    /\ loading > 0
    /\ loading' = loading - 1
    /\ leaving' = TRUE
    /\ UNCHANGED <<dialog, posts, server, shown>>

\* An error answer or no answer: a toast.
LoadFails ==
    /\ loading > 0
    /\ loading' = loading - 1
    /\ UNCHANGED <<dialog, posts, server, page>>

\* The user chooses an outcome.
CheckOutcome(outcome) ==
    /\ content \in ReviewForms
    /\ modal.state # "hidden"
    /\ review' = InitReviewForm(outcome)
    /\ UNCHANGED <<modal, content, report, view, loading, posts, server, page>>

\* Faulty variant: the buttons stay enabled.
SubmitLeavingButtons(f) ==
    /\ content = f
    /\ modal.state # "hidden"
    /\ f \notin disabled
    /\ inFlight' = [inFlight EXCEPT ![f] = @ + 1]
    /\ phase' = [phase EXCEPT ![f] = "posted"]
    /\ UNCHANGED <<dialog, loading, disabled, saved, read, page>>

\* The form is posted while it is visible, its fields are valid and its buttons
\* are enabled.
Submit(f) ==
    /\ content = f
    /\ modal.state # "hidden"
    /\ f \notin disabled
    /\ inFlight' = [inFlight EXCEPT ![f] = @ + 1]
    /\ disabled' = disabled \cup {f}
    /\ phase' = [phase EXCEPT ![f] = "posted"]
    /\ UNCHANGED <<dialog, loading, saved, read, page>>

\* The command of the controller: SaveChanges.
ServerSaves(f) ==
    /\ phase[f] = "posted"
    /\ phase' = [phase EXCEPT ![f] = "saved"]
    /\ saved' = saved \cup ({f} \cap Followed)
    /\ UNCHANGED <<dialog, loading, posts, read, page>>

\* Faulty variant: what is sent back was read before the command.
ServerRendersFirst(f) ==
    /\ phase[f] = "saved"
    /\ phase' = [phase EXCEPT ![f] = "rendered"]
    /\ read' = [read EXCEPT ![f] = saved \ {f}]
    /\ UNCHANGED <<dialog, loading, posts, saved, page>>

\* The query for the fragment that is sent back, of its own after the command.
ServerRenders(f) ==
    /\ phase[f] = "saved"
    /\ phase' = [phase EXCEPT ![f] = "rendered"]
    /\ read' = [read EXCEPT ![f] = saved]
    /\ UNCHANGED <<dialog, loading, posts, saved, page>>

\* The dialog closes under the answer to a form that has been saved, whichever
\* form it shows by then.
Finish(f) ==
    /\ Answered(f)
    /\ report' = IF content # f THEN report
                 ELSE IF modal.showOnHidden THEN "late" ELSE "saved"
    /\ modal' = CloseModal(modal)
    /\ UNCHANGED <<content, review, view, loading, saved, read>>

\* The element is replaced, whatever has become of the page since the form was
\* posted; every page a dialog is opened from has it.
ReplaceFragment(f) == shown' = read[f]

\* X-Modal-Result: refresh.
SubmitDone(f) ==
    /\ phase[f] = "rendered"
    /\ Finish(f)
    /\ ReplaceFragment(f)
    /\ UNCHANGED leaving

\* X-Modal-Result: redirect.
SubmitRedirected(f) ==
    /\ phase[f] = "saved"
    /\ Finish(f)
    /\ leaving' = TRUE
    /\ UNCHANGED shown

\* No header: the partial with its validation errors is rendered.
SubmitInvalid(f, g) ==
    /\ phase[f] = "posted"
    /\ Answered(f)
    /\ Render(g)
    /\ UNCHANGED <<loading, leaving>>

\* An error answer, or an answer that is lost, before or after the save: a toast.
SubmitFails(f) ==
    /\ Answered(f)
    /\ UNCHANGED <<dialog, loading, saved, read, page>>

\* The browser has navigated: a page of its own, with a new script.
Unload ==
    /\ leaving
    /\ modal' = ClosedModal /\ content' = None /\ review' = Template(None)
    /\ loading' = 0
    /\ inFlight' = [f \in Forms |-> 0] /\ disabled' = {}
    /\ phase' = [f \in Forms |-> "none"]
    /\ saved' = {} /\ read' = [f \in Forms |-> {}]
    /\ shown' = {} /\ leaving' = FALSE
    /\ report' = "none" /\ view' = "closed"

\* The close button, Escape or a click on the backdrop.
Dismiss ==
    /\ modal' = Hide(modal)
    /\ modal' # modal
    /\ UNCHANGED <<content, review, report, view, loading, posts, server, page>>

----------------------------------------------------------------------------
(* Transitions end *)

ShowTransitionEnds ==
    /\ modal.isShown /\ modal.isTransitioning
    /\ modal' = OnShown(modal)
    /\ view' = IF modal.hideOnShown THEN "closed" ELSE "shown"
    /\ UNCHANGED <<content, review, report, loading, posts, server, page>>

Unscripted == UNCHANGED <<content, review, report, view, loading, posts, server, page>>

\* _hideModal: the dialog has faded, the backdrop begins to.
HideTransitionEnds ==
    /\ ~modal.isShown /\ modal.isTransitioning
    /\ modal' = [modal EXCEPT !.isTransitioning = FALSE, !.backdropLeaving = TRUE]
    /\ Unscripted

BackdropGone ==
    /\ modal.backdropLeaving
    /\ modal' = OnHidden(modal)
    /\ Unscripted

TransitionEnds == ShowTransitionEnds \/ HideTransitionEnds \/ BackdropGone

----------------------------------------------------------------------------
Next ==
    \/ LoadModal
    \/ LoadRedirected
    \/ LoadFails
    \/ Unload
    \/ Dismiss
    \/ TransitionEnds
    \/ \E outcome \in ReviewOutcome : CheckOutcome(outcome)
    \/ \E f \in Forms :
          \/ LoadAnswered(f)
          \/ Submit(f)
          \/ ServerSaves(f)
          \/ ServerRenders(f)
          \/ SubmitDone(f)
          \/ SubmitRedirected(f)
          \/ SubmitFails(f)
          \/ \E g \in Forms : SubmitInvalid(f, g)

\* Bootstrap ends a transition on the browser's event or on a timer of its own.
Fairness == WF_vars(TransitionEnds)

Spec == Init /\ [][Next]_vars /\ Fairness

----------------------------------------------------------------------------
(* Properties *)

TypeOK ==
    /\ modal \in ModalRecord
    /\ content \in Forms \cup {None}
    /\ review \in ReviewRecord
    /\ loading \in 0..MaxLoads
    /\ inFlight \in [Forms -> Nat]
    /\ disabled = {f \in Forms : inFlight[f] > 0}
    /\ phase \in [Forms -> {"none", "posted", "saved", "rendered"}]
    /\ saved \subseteq Followed
    /\ read \in [Forms -> SUBSET Followed]
    /\ shown \subseteq Followed
    /\ leaving \in BOOLEAN
    /\ report \in {"none", "saved", "late"}
    /\ view \in {"coming", "shown", "closed"}

\* The script's tracker tells in which phase Bootstrap's dialog is, also while
\* the dialog has faded and its backdrop has not, when Bootstrap would accept
\* show() but the hidden event is still to come (the listeners on the four
\* events of the modal).
TrackerAgrees ==
    modal.state =
        IF modal.isShown
        THEN IF modal.isTransitioning THEN "showing" ELSE "shown"
        ELSE IF modal.isTransitioning \/ modal.backdropLeaving THEN "hiding" ELSE "hidden"

\* A form is never posted again while it is under way, although the dialog may
\* be dismissed, reopened and rendered anew meanwhile (submitModalForm).
OneSubmission == \A f \in Forms : inFlight[f] <= 1

\* The dialog of a form that has been saved goes away, whichever transition the
\* answer meets, unless newer content takes its place.  One answer is left out: the
\* one that comes while the dialog is hiding and a listener is to show it again,
\* because closeModal then does nothing (SavedFormsClose).
SavedDialogsClose == report = "saved" ~> modal.state = "hidden" \/ report # "saved"

\* What the conventions at the top of the script say of every form that has been
\* saved: the answer closes the modal (site.js:5, submitModalForm), or the page is
\* left.  It does not hold of a form that was rendered while an earlier one was
\* fading, and answered before that had faded: the listener of openModal shows the
\* saved form again.
SavedFormsClose ==
    report # "none" ~> modal.state = "hidden" \/ report = "none" \/ leaving

\* A dialog that has been rendered comes to be shown, whichever transition its
\* content meets and however often newer content replaces it (openModal).
DialogsAppear == view = "coming" ~> view # "coming"

\* The answer that reports a form as saved shows its change on the page, whatever
\* others have saved or refreshed since it was posted (the controllers read what
\* they send back after the command, replaceFragment).
ReportsWhatIsShown == \A f \in Followed : SubmitDone(f) => f \in shown'

SavedIsShown == [][ReportsWhatIsShown]_vars

\* What the review form asks for is what the chosen outcome needs, also after the
\* server has sent the form back with an outcome chosen: the start of the lease for
\* an approval, a comment where the workflow requires one (initReviewForm,
\* ApplicationWorkflow.RequiresComment).
ReviewFormAgrees ==
    content \in ReviewForms /\ review.checked # None =>
        /\ review.leaseShown <=> ToStatus[review.checked] = "Approved"
        /\ review.commentRequired <=> RequiresComment(review.checked)

=============================================================================
