-------------------------- MODULE ModalDialog_proofs --------------------------
(***************************************************************************)
(* The dialog's script stays in step with Bootstrap, and no form is under  *)
(* way twice, for any number of forms and of contents being fetched:       *)
(* theorems of ModalDialog.                                                *)
(***************************************************************************)
EXTENDS ModalDialog, TLAPS

USE ModalAssumption

\* The phase the dialog is in, told from Bootstrap's side.
Phase(m) ==
    IF m.isShown
    THEN IF m.isTransitioning THEN "showing" ELSE "shown"
    ELSE IF m.isTransitioning \/ m.backdropLeaving THEN "hiding" ELSE "hidden"

\* The tracker agrees, and the backdrop leaves only after the dialog.
Tracked(m) ==
    /\ m \in ModalRecord
    /\ m.state = Phase(m)
    /\ m.backdropLeaving => ~m.isShown /\ ~m.isTransitioning

----------------------------------------------------------------------------
(* The operations on the dialog *)

\* Bootstrap ignores hide() unless the dialog is fully shown.
LEMMA HideTracked ==
    ASSUME NEW m, Tracked(m)
    PROVE  Tracked(Hide(m))
BY DEF Tracked, Phase, Hide, ModalRecord

\* show() is safe once the dialog and its backdrop have gone.
LEMMA ShowTracked ==
    ASSUME NEW m, Tracked(m), m.state = "hidden"
    PROVE  Tracked(Show(m))
BY DEF Tracked, Phase, Show, ModalRecord

LEMMA OpenTracked ==
    ASSUME NEW m, Tracked(m)
    PROVE  Tracked(OpenModal(m))
<1>1. CASE m.state = "hidden"
  BY <1>1, ShowTracked DEF OpenModal
<1>2. CASE m.state # "hidden"
  BY <1>2 DEF OpenModal, Tracked, Phase, ModalRecord
<1>3. QED
  BY <1>1, <1>2

LEMMA CloseTracked ==
    ASSUME NEW m, Tracked(m)
    PROVE  Tracked(CloseModal(m))
<1>1. CASE m.state = "shown"
  BY <1>1, HideTracked DEF CloseModal
<1>2. CASE m.state # "shown"
  BY <1>2 DEF CloseModal, Tracked, Phase, ModalRecord
<1>3. QED
  BY <1>1, <1>2

LEMMA ShownTracked ==
    ASSUME NEW m, Tracked(m), m.isShown, m.isTransitioning
    PROVE  Tracked(OnShown(m))
<1> DEFINE opened == [m EXCEPT !.isTransitioning = FALSE, !.state = "shown",
                               !.hideOnShown = FALSE]
<1>1. Tracked(opened)
  BY DEF Tracked, Phase, ModalRecord
<1>2. Tracked(Hide(opened))
  BY <1>1, HideTracked
<1>3. QED
  BY <1>1, <1>2 DEF OnShown

LEMMA HiddenTracked ==
    ASSUME NEW m, Tracked(m), m.backdropLeaving
    PROVE  Tracked(OnHidden(m))
<1> DEFINE closed == [m EXCEPT !.backdropLeaving = FALSE, !.state = "hidden",
                               !.showOnHidden = FALSE]
<1>1. Tracked(closed) /\ closed.state = "hidden"
  BY DEF Tracked, Phase, ModalRecord
<1>2. Tracked(Show(closed))
  BY <1>1, ShowTracked
<1>3. QED
  BY <1>1, <1>2 DEF OnHidden

----------------------------------------------------------------------------
(* The invariant, by the groups of variables *)

\* The review form in the dialog is as update() leaves it.
Fits == content \in ReviewForms => review = InitReviewForm(review.checked)

DialogOK ==
    /\ Tracked(modal)
    /\ content \in Forms \cup {None}
    /\ review \in ReviewRecord
    /\ Fits
    /\ report \in {"none", "saved", "late"}
    /\ view \in {"coming", "shown", "closed"}

PostsOK ==
    /\ inFlight \in [Forms -> Nat]
    /\ disabled = {f \in Forms : inFlight[f] > 0}
    /\ OneSubmission

\* The server works on what is under way; what it has saved it reads.
Reports ==
    \A f \in Forms :
        /\ phase[f] = "none" <=> inFlight[f] = 0
        /\ f \in Followed => /\ phase[f] = "saved" => f \in saved
                             /\ phase[f] = "rendered" => f \in saved /\ f \in read[f]

ServerOK ==
    /\ phase \in [Forms -> {"none", "posted", "saved", "rendered"}]
    /\ saved \subseteq Followed
    /\ read \in [Forms -> SUBSET Followed]
    /\ Reports

PageOK == shown \subseteq Followed /\ leaving \in BOOLEAN

Inv == DialogOK /\ loading \in 0..MaxLoads /\ PostsOK /\ ServerOK /\ PageOK

LEMMA InvIsTyped == Inv => TypeOK
BY DEF Inv, DialogOK, PostsOK, ServerOK, PageOK, Tracked, TypeOK

\* A page that has just been loaded.
LEMMA InitInv == Init => Inv
<1> SUFFICES ASSUME Init PROVE Inv
  OBVIOUS
<1>1. DialogOK
  BY DEF Init, DialogOK, Tracked, Phase, ClosedModal, ModalRecord, ReviewRecord, Template, Fits
<1>2. PostsOK
  <2>1. \A f \in Forms : inFlight[f] = 0
    BY DEF Init
  <2>2. QED
    BY <2>1 DEF Init, PostsOK, OneSubmission
<1>3. ServerOK
  <2>1. \A f \in Forms : phase[f] = "none" /\ inFlight[f] = 0
    BY DEF Init
  <2>2. Reports
    BY <2>1 DEF Reports
  <2>3. QED
    BY <2>2 DEF Init, ServerOK
<1>4. PageOK /\ loading \in 0..MaxLoads
  <2>1. shown = {} /\ leaving = FALSE /\ loading = 0
    BY DEF Init
  <2>2. leaving \in BOOLEAN
    BY <2>1
  <2>3. 0 \in 0..MaxLoads
    BY ModalAssumption
  <2>4. QED
    BY <2>1, <2>2, <2>3 DEF PageOK
<1>5. QED
  BY <1>1, <1>2, <1>3, <1>4 DEF Inv

\* What a step leaves alone stays as it should be.
LEMMA Unchanged ==
    ASSUME Inv
    PROVE  /\ UNCHANGED dialog => DialogOK'
           /\ UNCHANGED loading => (loading \in 0..MaxLoads)'
           /\ UNCHANGED posts => PostsOK'
           /\ UNCHANGED <<posts, server>> => ServerOK'
           /\ UNCHANGED page => PageOK'
BY DEF Inv, dialog, posts, server, page, DialogOK, Fits, PostsOK, OneSubmission, ServerOK,
       Reports, PageOK

----------------------------------------------------------------------------
(* Steps *)

\* A new form in the dialog: nothing is under way for it.
LEMMA RenderKeeps ==
    ASSUME Inv, NEW f \in Forms, Render(f)
    PROVE  /\ DialogOK'
           /\ shown' \subseteq Followed
           /\ saved' \subseteq Followed
           /\ read' \in [Forms -> SUBSET Followed]
<1>1. Tracked(modal')
  BY OpenTracked DEF Inv, DialogOK, Render
<1>2. review' \in ReviewRecord /\ Fits'
  <2>1. CASE f \in ReviewForms
    <3>1. PICK outcome \in ReviewOutcome \cup {None} : review' = InitReviewForm(outcome)
      BY <2>1 DEF Render
    <3>2. QED
      BY <3>1 DEF Fits, InitReviewForm, ReviewRecord
  <2>2. CASE f \notin ReviewForms
    <3>1. content' = f /\ review' = Template(None)
      BY <2>2 DEF Render
    <3>2. Template(None) \in ReviewRecord
      BY DEF Template, ReviewRecord
    <3>3. QED
      BY <2>2, <3>1, <3>2 DEF Fits
  <2>3. QED
    BY <2>1, <2>2
<1>3. DialogOK'
  BY <1>1, <1>2 DEF Inv, DialogOK, Render
<1>4. QED
  BY <1>3 DEF Inv, ServerOK, PageOK, Render

LEMMA LoadAnswerKeeps ==
    ASSUME Inv, NEW f \in Forms, LoadAnswered(f)
    PROVE  Inv'
<1>1. Render(f) /\ UNCHANGED <<posts, phase, leaving>>
  BY DEF LoadAnswered
<1>2. phase[f] = "none"
  BY <1>1 DEF Render, FreeForms, Inv, ServerOK, Reports
<1>3. Reports'
  <2> SUFFICES ASSUME NEW g \in Forms
               PROVE  /\ phase'[g] = "none" <=> inFlight'[g] = 0
                      /\ g \in Followed =>
                            /\ phase'[g] = "saved" => g \in saved'
                            /\ phase'[g] = "rendered" => g \in saved' /\ g \in read'[g]
    BY DEF Reports
  <2>1. phase' = phase /\ inFlight' = inFlight
    BY <1>1 DEF posts
  <2>2. CASE g = f
    BY <1>2, <2>1, <2>2 DEF Inv, ServerOK, Reports
  <2>3. CASE g # f
    <3>1. /\ phase[g] = "none" <=> inFlight[g] = 0
          /\ g \in Followed =>
                /\ phase[g] = "saved" => g \in saved
                /\ phase[g] = "rendered" => g \in saved /\ g \in read[g]
      BY DEF Inv, ServerOK, Reports
    <3>2. g \in Forms \ {f} /\ Render(f)
      BY <1>1, <2>3
    <3>3. /\ g \in saved => g \in saved'
          /\ g \in read[g] => g \in read'[g]
      BY <3>2 DEF Render
    <3>4. QED
      BY <2>1, <2>3, <3>1, <3>3
  <2>4. QED
    BY <2>2, <2>3
<1>4. ServerOK' /\ PageOK' /\ DialogOK'
  BY <1>1, <1>3, RenderKeeps DEF Inv, ServerOK, PageOK
<1>5. (loading \in 0..MaxLoads)'
  BY DEF LoadAnswered, Inv
<1>6. QED
  BY <1>1, <1>4, <1>5, Unchanged DEF Inv

LEMMA LoadKeeps ==
    ASSUME Inv, LoadModal \/ LoadRedirected \/ LoadFails
    PROVE  Inv'
<1>1. (loading \in 0..MaxLoads)'
  BY DEF LoadModal, LoadRedirected, LoadFails, Inv
<1>2. UNCHANGED <<dialog, posts, server>>
  BY DEF LoadModal, LoadRedirected, LoadFails
<1>3. PageOK'
  BY DEF LoadModal, LoadRedirected, LoadFails, Inv, PageOK, page
<1>4. QED
  BY <1>1, <1>2, <1>3, Unchanged DEF Inv

LEMMA CheckKeeps ==
    ASSUME Inv, NEW outcome \in ReviewOutcome, CheckOutcome(outcome)
    PROVE  Inv'
<1>1. review' \in ReviewRecord /\ Fits'
  BY DEF CheckOutcome, InitReviewForm, ReviewRecord, Fits
<1>2. DialogOK'
  BY <1>1 DEF CheckOutcome, Inv, DialogOK
<1>3. QED
  BY <1>2, Unchanged DEF CheckOutcome, Inv

\* A submission disables the buttons, so that the form is under way once.
LEMMA SubmitKeeps ==
    ASSUME Inv, NEW f \in Forms, Submit(f)
    PROVE  Inv'
<1>1. /\ inFlight \in [Forms -> Nat]
      /\ disabled = {g \in Forms : inFlight[g] > 0}
      /\ \A g \in Forms : inFlight[g] <= 1
  BY DEF Inv, PostsOK, OneSubmission
<1>2. inFlight[f] = 0 /\ inFlight' = [inFlight EXCEPT ![f] = 1]
  <2>1. inFlight[f] \in Nat /\ ~(inFlight[f] > 0)
    BY <1>1 DEF Submit
  <2>2. inFlight[f] = 0 /\ inFlight[f] + 1 = 1
    BY <2>1
  <2>3. inFlight' = [inFlight EXCEPT ![f] = inFlight[f] + 1]
    BY DEF Submit
  <2>4. QED
    BY <2>2, <2>3
<1>3. \A g \in Forms : inFlight'[g] = IF g = f THEN 1 ELSE inFlight[g]
  BY <1>1, <1>2
<1>4. disabled' = {g \in Forms : inFlight'[g] > 0}
  BY <1>1, <1>3 DEF Submit
<1>5. inFlight' \in [Forms -> Nat] /\ \A g \in Forms : inFlight'[g] <= 1
  BY <1>1, <1>2, <1>3
<1>6. PostsOK'
  BY <1>4, <1>5 DEF PostsOK, OneSubmission
<1>7. ServerOK'
  BY <1>3 DEF Submit, Inv, ServerOK, Reports
<1>8. QED
  BY <1>6, <1>7, Unchanged DEF Submit, Inv

\* The steps of the server.
LEMMA ServerKeeps ==
    ASSUME Inv, NEW f \in Forms, ServerSaves(f) \/ ServerRenders(f)
    PROVE  Inv'
<1>1. ServerOK'
  <2>1. CASE ServerSaves(f)
    BY <2>1 DEF ServerSaves, Inv, ServerOK, Reports, posts
  <2>2. CASE ServerRenders(f)
    BY <2>2 DEF ServerRenders, Inv, ServerOK, Reports, posts
  <2>3. QED
    BY <2>1, <2>2
<1>2. QED
  BY <1>1, Unchanged DEF ServerSaves, ServerRenders, Inv

\* A form that has been answered is not under way and its buttons are enabled.
LEMMA AnswerKeeps ==
    ASSUME Inv, NEW f \in Forms, Answered(f)
    PROVE  /\ PostsOK'
           /\ \A g \in Forms : inFlight'[g] = IF g = f THEN 0 ELSE inFlight[g]
           /\ phase' \in [Forms -> {"none", "posted", "saved", "rendered"}]
           /\ \A g \in Forms : phase'[g] = IF g = f THEN "none" ELSE phase[g]
<1>1. /\ inFlight \in [Forms -> Nat]
      /\ disabled = {g \in Forms : inFlight[g] > 0}
      /\ \A g \in Forms : inFlight[g] <= 1
  BY DEF Inv, PostsOK, OneSubmission
<1>2. inFlight[f] = 1 /\ inFlight' = [inFlight EXCEPT ![f] = 0]
  <2>1. inFlight[f] \in Nat /\ inFlight[f] <= 1
    BY <1>1
  <2>2. inFlight[f] > 0 /\ inFlight' = [inFlight EXCEPT ![f] = inFlight[f] - 1]
    BY DEF Answered
  <2>3. inFlight[f] = 1 /\ inFlight[f] - 1 = 0
    BY <2>1, <2>2
  <2>4. QED
    BY <2>2, <2>3
<1>3. \A g \in Forms : inFlight'[g] = IF g = f THEN 0 ELSE inFlight[g]
  BY <1>1, <1>2
<1>4. disabled' = disabled \ {f}
  BY DEF Answered
<1>5. PostsOK'
  BY <1>1, <1>2, <1>3, <1>4 DEF PostsOK, OneSubmission
<1>6. QED
  BY <1>3, <1>5 DEF Answered, Inv, ServerOK

LEMMA FinishKeeps ==
    ASSUME Inv, NEW f \in Forms, Finish(f)
    PROVE  DialogOK' /\ PostsOK' /\ ServerOK' /\ UNCHANGED loading
<1>1. Tracked(modal')
  BY CloseTracked DEF Finish, Inv, DialogOK
<1>2. DialogOK'
  BY <1>1 DEF Finish, Inv, DialogOK, Fits
<1>3. ServerOK' /\ PostsOK'
  BY AnswerKeeps DEF Finish, Inv, ServerOK, Reports
<1>4. QED
  BY <1>2, <1>3 DEF Finish

LEMMA ResultKeeps ==
    ASSUME Inv, NEW f \in Forms,
           SubmitDone(f) \/ SubmitRedirected(f) \/ SubmitFails(f)
    PROVE  Inv'
<1>1. CASE SubmitDone(f)
  BY <1>1, FinishKeeps DEF SubmitDone, ReplaceFragment, Inv, ServerOK, PageOK
<1>2. CASE SubmitRedirected(f)
  BY <1>2, FinishKeeps DEF SubmitRedirected, Inv, PageOK
<1>3. CASE SubmitFails(f)
  <2>1. PostsOK' /\ ServerOK'
    BY <1>3, AnswerKeeps DEF SubmitFails, Inv, ServerOK, Reports
  <2>2. QED
    BY <1>3, <2>1, Unchanged DEF SubmitFails, Inv
<1>4. QED
  BY <1>1, <1>2, <1>3

LEMMA InvalidKeeps ==
    ASSUME Inv, NEW f \in Forms, NEW g \in Forms, SubmitInvalid(f, g)
    PROVE  Inv'
<1>1. Answered(f) /\ Render(g) /\ UNCHANGED <<loading, leaving>>
  BY DEF SubmitInvalid
<1>2. phase[g] = "none"
  BY <1>1 DEF Render, FreeForms, Inv, ServerOK, Reports
<1>3. Reports'
  <2> SUFFICES ASSUME NEW h \in Forms
               PROVE  /\ phase'[h] = "none" <=> inFlight'[h] = 0
                      /\ h \in Followed =>
                            /\ phase'[h] = "saved" => h \in saved'
                            /\ phase'[h] = "rendered" => h \in saved' /\ h \in read'[h]
    BY DEF Reports
  <2>1. /\ phase'[h] = IF h = f THEN "none" ELSE phase[h]
        /\ inFlight'[h] = IF h = f THEN 0 ELSE inFlight[h]
    BY <1>1, AnswerKeeps
  <2>2. CASE h = f \/ h = g
    BY <1>2, <2>1, <2>2 DEF Inv, ServerOK, Reports
  <2>3. CASE h # f /\ h # g
    <3>1. /\ phase[h] = "none" <=> inFlight[h] = 0
          /\ h \in Followed =>
                /\ phase[h] = "saved" => h \in saved
                /\ phase[h] = "rendered" => h \in saved /\ h \in read[h]
      BY DEF Inv, ServerOK, Reports
    <3>2. h \in Forms \ {g} /\ Render(g)
      BY <1>1, <2>3
    <3>3. /\ h \in saved => h \in saved'
          /\ h \in read[h] => h \in read'[h]
      BY <3>2 DEF Render
    <3>4. QED
      BY <2>1, <2>3, <3>1, <3>3
  <2>4. QED
    BY <2>2, <2>3
<1>4. ServerOK' /\ PageOK' /\ DialogOK' /\ PostsOK'
  BY <1>1, <1>3, AnswerKeeps, RenderKeeps DEF Inv, ServerOK, PageOK
<1>5. QED
  BY <1>1, <1>4, Unchanged DEF Inv

LEMMA TransitionKeeps ==
    ASSUME Inv, Dismiss \/ TransitionEnds
    PROVE  Inv'
<1>1. Tracked(modal')
  <2>1. CASE Dismiss
    BY <2>1, HideTracked DEF Dismiss, Inv, DialogOK
  <2>2. CASE ShowTransitionEnds
    BY <2>2, ShownTracked DEF ShowTransitionEnds, Inv, DialogOK
  <2>3. CASE HideTransitionEnds
    BY <2>3 DEF HideTransitionEnds, Inv, DialogOK, Tracked, Phase, ModalRecord
  <2>4. CASE BackdropGone
    BY <2>4, HiddenTracked DEF BackdropGone, Inv, DialogOK
  <2>5. QED
    BY <2>1, <2>2, <2>3, <2>4 DEF TransitionEnds
<1>2. UNCHANGED <<content, review, report, loading, posts, server, page>>
  BY DEF Dismiss, TransitionEnds, ShowTransitionEnds, HideTransitionEnds, BackdropGone, Unscripted
<1>3. view' \in {"coming", "shown", "closed"}
  BY DEF Dismiss, TransitionEnds, ShowTransitionEnds, HideTransitionEnds, BackdropGone,
         Unscripted, Inv, DialogOK
<1>4. DialogOK'
  BY <1>1, <1>2, <1>3 DEF Inv, DialogOK, Fits
<1>5. QED
  BY <1>2, <1>4, Unchanged DEF Inv

LEMMA UnloadKeeps ==
    ASSUME Unload
    PROVE  Inv'
<1>1. DialogOK'
  BY DEF Unload, DialogOK, Tracked, Phase, ClosedModal, ModalRecord, ReviewRecord, Template, Fits
<1>2. PostsOK'
  <2>1. \A f \in Forms : inFlight'[f] = 0
    BY DEF Unload
  <2>2. QED
    BY <2>1 DEF Unload, PostsOK, OneSubmission
<1>3. ServerOK'
  <2>1. \A f \in Forms : phase'[f] = "none" /\ inFlight'[f] = 0
    BY DEF Unload
  <2>2. Reports'
    BY <2>1 DEF Reports
  <2>3. QED
    BY <2>2 DEF Unload, ServerOK
<1>4. PageOK' /\ (loading \in 0..MaxLoads)'
  <2>1. shown' = {} /\ leaving' = FALSE /\ loading' = 0
    BY DEF Unload
  <2>2. leaving' \in BOOLEAN
    BY <2>1
  <2>3. 0 \in 0..MaxLoads
    BY ModalAssumption
  <2>4. QED
    BY <2>1, <2>2, <2>3 DEF PageOK
<1>5. QED
  BY <1>1, <1>2, <1>3, <1>4 DEF Inv

LEMMA StepKeeps == Inv /\ [Next]_vars => Inv'
<1> SUFFICES ASSUME Inv, [Next]_vars PROVE Inv'
  OBVIOUS
<1>1. CASE UNCHANGED vars
  BY <1>1, Unchanged DEF vars, Inv
<1>2. CASE Next
  BY <1>2, LoadKeeps, LoadAnswerKeeps, CheckKeeps, SubmitKeeps, ServerKeeps, ResultKeeps,
     InvalidKeeps, TransitionKeeps, UnloadKeeps DEF Next
<1>3. QED
  BY <1>1, <1>2

LEMMA InvHolds == Spec => []Inv
BY InitInv, StepKeeps, PTL DEF Spec

----------------------------------------------------------------------------
\* The script's variables have their types, and the buttons that are disabled
\* are those of the forms under way.
THEOREM TypeCorrect == Spec => []TypeOK
BY InvHolds, InvIsTyped, PTL

\* Whatever the order of clicks, answers, dismissals and transitions, the tracker
\* tells Bootstrap's phase: show() and hide() are never called when Bootstrap
\* would ignore them (openModal, closeModal).
THEOREM TrackerStaysInStep == Spec => []TrackerAgrees
<1>1. Inv => TrackerAgrees
  BY DEF Inv, DialogOK, Tracked, Phase, TrackerAgrees
<1>2. QED
  BY InvHolds, <1>1, PTL

\* A form is under way at most once (submitModalForm).
THEOREM FormsGoOnce == Spec => []OneSubmission
<1>1. Inv => OneSubmission
  BY DEF Inv, PostsOK
<1>2. QED
  BY InvHolds, <1>1, PTL

\* The review form asks for what the chosen outcome needs (initReviewForm).
THEOREM ReviewFormFits == Spec => []ReviewFormAgrees
<1>1. Inv => ReviewFormAgrees
  <2> SUFFICES ASSUME Inv, content \in ReviewForms, review.checked # None
               PROVE  /\ review.leaseShown <=> ToStatus[review.checked] = "Approved"
                      /\ review.commentRequired <=> RequiresComment(review.checked)
    BY DEF ReviewFormAgrees
  <2>1. review.checked \in ReviewOutcome /\ review = InitReviewForm(review.checked)
    BY DEF Inv, DialogOK, Fits, ReviewRecord
  <2>2. /\ review.leaseShown <=> review.checked = "Approve"
        /\ review.commentRequired <=> review.checked # "Approve"
    <3> DEFINE outcome == review.checked
    <3>1. /\ InitReviewForm(outcome).leaseShown <=> outcome = "Approve"
          /\ InitReviewForm(outcome).commentRequired <=> outcome # "Approve"
      BY DEF InitReviewForm
    <3>2. QED
      BY <2>1, <3>1
  <2>3. \A outcome \in ReviewOutcome :
           /\ ToStatus[outcome] = "Approved" <=> outcome = "Approve"
           /\ RequiresComment(outcome) <=> outcome # "Approve"
    BY DEF ReviewOutcome, ToStatus, RequiresComment
  <2>4. QED
    BY <2>1, <2>2, <2>3
<1>2. QED
  BY InvHolds, <1>1, PTL

\* The answer that reports a form as saved shows its change on the page, for any
\* number of forms under way.
THEOREM ReportsShow == Spec => SavedIsShown
<1>1. Inv /\ [Next]_vars => [ReportsWhatIsShown]_vars
  <2> SUFFICES ASSUME Inv, NEW f \in Followed, SubmitDone(f) PROVE f \in shown'
    BY DEF ReportsWhatIsShown
  <2>1. f \in Forms
    OBVIOUS
  <2>2. QED
    BY <2>1 DEF Inv, ServerOK, Reports, SubmitDone, ReplaceFragment
<1>2. QED
  BY InvHolds, <1>1, PTL DEF Spec, SavedIsShown

----------------------------------------------------------------------------
(* What is owed to the content of the dialog *)

\* Content that is to come will be shown by the opening under way, or by the one
\* that waits for the dialog to be hidden; a dialog that is to close is closing, or
\* closes as soon as it has opened, when the form in it has been saved in time.
Promised ==
    /\ modal.showOnHidden => modal.state = "hiding"
    /\ view = "coming" => modal.state = "showing" \/ modal.showOnHidden
    /\ report = "saved" =>
          /\ modal.state = "showing" => modal.hideOnShown
          /\ ~modal.showOnHidden
          /\ modal.state # "shown"

LEMMA InitPromised == Init => Promised
BY DEF Init, ClosedModal, Promised

\* New content: the dialog is opened, or will be.
LEMMA RenderPromises ==
    ASSUME Inv, Promised, NEW f \in Forms, Render(f)
    PROVE  Promised'
<1>1. report' = "none" /\ modal' = OpenModal(modal)
      /\ view' = IF modal'.state = "shown" THEN "shown" ELSE "coming"
  BY DEF Render
<1>2. Tracked(modal)
  BY DEF Inv, DialogOK
<1>3. CASE modal.state = "hidden"
  BY <1>1, <1>2, <1>3 DEF OpenModal, Show, Tracked, Phase, ModalRecord, Promised
<1>4. CASE modal.state # "hidden"
  BY <1>1, <1>2, <1>4 DEF OpenModal, Tracked, Phase, ModalRecord, Promised
<1>5. QED
  BY <1>3, <1>4

\* The answer to a form that has been saved: the dialog is closed, or will be.
LEMMA FinishPromises ==
    ASSUME Inv, Promised, NEW f \in Forms, Finish(f)
    PROVE  Promised'
<1>1. /\ modal' = CloseModal(modal) /\ UNCHANGED <<content, view>>
      /\ \/ report' = report
         \/ report' = "late"
         \/ report' = "saved" /\ ~modal.showOnHidden
  BY DEF Finish
<1>2. Tracked(modal)
  BY DEF Inv, DialogOK
<1>3. CASE modal.state = "shown"
  BY <1>1, <1>2, <1>3 DEF CloseModal, Hide, Tracked, Phase, ModalRecord, Promised
<1>4. CASE modal.state = "showing"
  BY <1>1, <1>2, <1>4 DEF CloseModal, Tracked, Phase, ModalRecord, Promised
<1>5. CASE modal.state \in {"hiding", "hidden"}
  BY <1>1, <1>2, <1>5 DEF CloseModal, Tracked, Phase, ModalRecord, Promised
<1>6. QED
  BY <1>2, <1>3, <1>4, <1>5 DEF Tracked, ModalRecord

\* The dialog's own steps keep what it has been told.
LEMMA TransitionPromises ==
    ASSUME Inv, Promised, Dismiss \/ TransitionEnds
    PROVE  Promised'
<1>1. Tracked(modal) /\ UNCHANGED report
  BY DEF Inv, DialogOK, Dismiss, TransitionEnds, ShowTransitionEnds, HideTransitionEnds,
         BackdropGone, Unscripted
<1>2. CASE Dismiss
  BY <1>1, <1>2 DEF Dismiss, Hide, Tracked, Phase, ModalRecord, Promised
<1>3. CASE ShowTransitionEnds
  BY <1>1, <1>3 DEF ShowTransitionEnds, OnShown, Hide, Tracked, Phase, ModalRecord, Promised
<1>4. CASE HideTransitionEnds
  BY <1>1, <1>4 DEF HideTransitionEnds, Unscripted, Tracked, Phase, ModalRecord, Promised
<1>5. CASE BackdropGone
  BY <1>1, <1>5 DEF BackdropGone, Unscripted, OnHidden, Show, Tracked, Phase, ModalRecord, Promised
<1>6. QED
  BY <1>2, <1>3, <1>4, <1>5 DEF TransitionEnds

LEMMA StepPromises == Inv /\ Promised /\ [Next]_vars => Promised'
<1> SUFFICES ASSUME Inv, Promised, [Next]_vars PROVE Promised'
  OBVIOUS
<1>1. ASSUME UNCHANGED <<modal, report, view>> PROVE Promised'
  BY <1>1 DEF Promised
<1>2. CASE LoadModal \/ LoadRedirected \/ LoadFails
  BY <1>1, <1>2 DEF LoadModal, LoadRedirected, LoadFails, dialog
<1>3. CASE Unload
  BY <1>3 DEF Unload, ClosedModal, Promised
<1>4. CASE Dismiss \/ TransitionEnds
  BY <1>4, TransitionPromises
<1>5. ASSUME NEW outcome \in ReviewOutcome, CheckOutcome(outcome) PROVE Promised'
  BY <1>1, <1>5 DEF CheckOutcome
<1>6. ASSUME NEW f \in Forms,
             Submit(f) \/ ServerSaves(f) \/ ServerRenders(f) \/ SubmitFails(f)
      PROVE  Promised'
  BY <1>1, <1>6 DEF Submit, ServerSaves, ServerRenders, SubmitFails, dialog
<1>7. ASSUME NEW f \in Forms, LoadAnswered(f) PROVE Promised'
  BY <1>7, RenderPromises DEF LoadAnswered
<1>8. ASSUME NEW f \in Forms, NEW g \in Forms, SubmitInvalid(f, g) PROVE Promised'
  BY <1>8, RenderPromises DEF SubmitInvalid
<1>9. ASSUME NEW f \in Forms, SubmitDone(f) \/ SubmitRedirected(f) PROVE Promised'
  BY <1>9, FinishPromises DEF SubmitDone, SubmitRedirected
<1>10. CASE UNCHANGED vars
  BY <1>1, <1>10 DEF vars, dialog
<1>11. QED
  BY <1>2, <1>3, <1>4, <1>5, <1>6, <1>7, <1>8, <1>9, <1>10 DEF Next

LEMMA PromisesHold == Spec => [](Inv /\ Promised)
BY InitInv, StepKeeps, InitPromised, StepPromises, PTL DEF Spec

----------------------------------------------------------------------------
(* Transitions end: the dialog reaches what is owed to its content *)

Fading == modal.state = "hiding" /\ modal.isTransitioning

BackdropFading == modal.state = "hiding" /\ ~modal.isTransitioning

Opening == modal.state = "showing"

\* Each part of a transition can come to its end: what the guards of the three
\* actions say of ENABLED, which has no rules in the prover.
EndsEnabled ==
    modal.isTransitioning \/ modal.backdropLeaving => ENABLED <<TransitionEnds>>_vars

\* There is a part of a transition to end.
LEMMA TransitionsEnd ==
    ASSUME Inv, EndsEnabled, Fading \/ BackdropFading \/ Opening
    PROVE  ENABLED <<TransitionEnds>>_vars
<1>1. modal.isTransitioning \/ modal.backdropLeaving
  BY DEF Inv, DialogOK, Tracked, Phase, ModalRecord, Fading, BackdropFading, Opening
<1>2. QED
  BY <1>1 DEF EndsEnabled

\* Nothing but the end of a transition, or another page, moves the dialog on from
\* a transition: Bootstrap ignores show() and hide(), and the script only notes
\* what is to follow.
LEMMA OnlyEndsMove ==
    ASSUME Inv, [Next]_vars, ~TransitionEnds
    PROVE  \/ modal' = ClosedModal /\ view' = "closed"
           \/ /\ Fading => Fading'
              /\ BackdropFading => BackdropFading'
              /\ Opening => Opening'
<1> DEFINE Stays == /\ Fading => Fading'
                    /\ BackdropFading => BackdropFading'
                    /\ Opening => Opening'
<1>1. Tracked(modal)
  BY DEF Inv, DialogOK
<1>2. ASSUME UNCHANGED modal PROVE Stays
  BY <1>2 DEF Fading, BackdropFading, Opening
<1>3. ASSUME modal' = OpenModal(modal) PROVE Stays
  BY <1>1, <1>3 DEF OpenModal, Show, Tracked, Phase, ModalRecord, Fading, BackdropFading, Opening
<1>4. ASSUME modal' = CloseModal(modal) PROVE Stays
  BY <1>1, <1>4 DEF CloseModal, Hide, Tracked, Phase, ModalRecord, Fading, BackdropFading, Opening
<1>5. CASE Dismiss
  BY <1>1, <1>5 DEF Dismiss, Hide, Tracked, Phase, ModalRecord, Fading, BackdropFading, Opening
<1>6. CASE Unload
  BY <1>6 DEF Unload
<1>7. CASE LoadModal \/ LoadRedirected \/ LoadFails
           \/ \E outcome \in ReviewOutcome : CheckOutcome(outcome)
  BY <1>2, <1>7 DEF LoadModal, LoadRedirected, LoadFails, CheckOutcome, dialog
<1>8. ASSUME NEW f \in Forms,
             Submit(f) \/ ServerSaves(f) \/ ServerRenders(f) \/ SubmitFails(f)
      PROVE  Stays
  BY <1>2, <1>8 DEF Submit, ServerSaves, ServerRenders, SubmitFails, dialog
<1>9. ASSUME NEW f \in Forms, LoadAnswered(f) \/ \E g \in Forms : SubmitInvalid(f, g)
      PROVE  Stays
  BY <1>3, <1>9 DEF LoadAnswered, SubmitInvalid, Render
<1>10. ASSUME NEW f \in Forms, SubmitDone(f) \/ SubmitRedirected(f) PROVE Stays
  BY <1>4, <1>10 DEF SubmitDone, SubmitRedirected, Finish
<1>11. CASE UNCHANGED vars
  BY <1>2, <1>11 DEF vars, dialog
<1>12. QED
  BY <1>2, <1>5, <1>6, <1>7, <1>8, <1>9, <1>10, <1>11 DEF Next

\* Until then, what is to come stays so: content that is replaced is replaced by
\* content that is to come.
LEMMA ComingStays ==
    ASSUME Inv, [Next]_vars, ~TransitionEnds, view = "coming", modal.state # "shown"
    PROVE  view' \in {"coming", "closed"}
<1>1. CASE \E f \in Forms : Render(f)
  <2>1. modal' = OpenModal(modal) /\ (modal'.state # "shown" => view' = "coming")
    BY <1>1 DEF Render
  <2>2. QED
    BY <2>1 DEF Inv, DialogOK, OpenModal, Show, Tracked, ModalRecord
<1>2. CASE Unload
  BY <1>2 DEF Unload
<1>3. CASE LoadModal \/ LoadRedirected \/ LoadFails \/ Dismiss
           \/ \E outcome \in ReviewOutcome : CheckOutcome(outcome)
  BY <1>3 DEF LoadModal, LoadRedirected, LoadFails, Dismiss, CheckOutcome, dialog
<1>4. ASSUME NEW f \in Forms,
             \/ Submit(f) \/ ServerSaves(f) \/ ServerRenders(f) \/ SubmitFails(f)
             \/ SubmitDone(f) \/ SubmitRedirected(f)
      PROVE  view' = "coming"
  BY <1>4 DEF Submit, ServerSaves, ServerRenders, SubmitFails, SubmitDone,
              SubmitRedirected, Finish, dialog
<1>5. QED
  BY <1>1, <1>2, <1>3, <1>4 DEF Next, vars, dialog, LoadAnswered, SubmitInvalid

\* What the end of a transition does, by the transition.
LEMMA EndsMove ==
    ASSUME Inv, TransitionEnds
    PROVE  /\ UNCHANGED report
           /\ Fading => BackdropFading' /\ UNCHANGED view
           /\ BackdropFading => /\ UNCHANGED view
                                /\ IF modal.showOnHidden THEN Opening'
                                   ELSE modal'.state = "hidden"
           /\ Opening => /\ view' # "coming"
                         /\ modal.hideOnShown => Fading'
<1>1. Tracked(modal)
  BY DEF Inv, DialogOK
<1>2. CASE ShowTransitionEnds
  BY <1>1, <1>2 DEF ShowTransitionEnds, OnShown, Hide, Tracked, Phase, ModalRecord,
                    Fading, BackdropFading, Opening
<1>3. CASE HideTransitionEnds
  BY <1>1, <1>3 DEF HideTransitionEnds, Unscripted, Tracked, Phase, ModalRecord,
                    Fading, BackdropFading, Opening
<1>4. CASE BackdropGone
  BY <1>1, <1>4 DEF BackdropGone, Unscripted, OnHidden, Show, Tracked, Phase, ModalRecord,
                    Fading, BackdropFading, Opening
<1>5. QED
  BY <1>2, <1>3, <1>4 DEF TransitionEnds

\* Content that is to come is shown, whichever transition it meets, or the page is
\* left, for any number of forms and of contents being fetched (openModal).
THEOREM DialogsComeUp == Spec /\ []EndsEnabled => DialogsAppear
<1> DEFINE Coming == view = "coming"
           Gone   == view # "coming"
           OK     == Inv /\ Promised
<1>1. OK /\ Coming => Fading \/ BackdropFading \/ Opening
  BY DEF Promised, Fading, BackdropFading, Opening
<1>2. /\ OK /\ Coming /\ Fading /\ [Next]_vars
         => (Coming /\ Fading)' \/ (Coming /\ BackdropFading)' \/ Gone'
      /\ OK /\ Coming /\ BackdropFading /\ [Next]_vars
         => (Coming /\ BackdropFading)' \/ (Coming /\ Opening)' \/ Gone'
      /\ OK /\ Coming /\ Opening /\ [Next]_vars => (Coming /\ Opening)' \/ Gone'
  <2>1. ASSUME OK, Coming, [Next]_vars, ~TransitionEnds
        PROVE  \/ Gone'
               \/ Coming' /\ (Fading => Fading') /\ (BackdropFading => BackdropFading')
                          /\ (Opening => Opening')
    BY <2>1, OnlyEndsMove, ComingStays
  <2>2. ASSUME OK, Coming, TransitionEnds
        PROVE  /\ Fading => BackdropFading'
               /\ BackdropFading => Opening'
               /\ Opening => Gone'
    BY <2>2, EndsMove DEF Promised, BackdropFading
  <2>3. QED
    BY <2>1, <2>2
<1>3. /\ OK /\ Coming /\ Fading /\ <<Next /\ TransitionEnds>>_vars
         => (Coming /\ BackdropFading)' \/ Gone'
      /\ OK /\ Coming /\ BackdropFading /\ <<Next /\ TransitionEnds>>_vars
         => (Coming /\ Opening)' \/ Gone'
      /\ OK /\ Coming /\ Opening /\ <<Next /\ TransitionEnds>>_vars => Gone'
  BY EndsMove DEF Promised, BackdropFading
<1>4. OK /\ EndsEnabled /\ (Fading \/ BackdropFading \/ Opening)
      => ENABLED <<TransitionEnds>>_vars
  BY TransitionsEnd
<1>5. QED
  <2>1. Spec => []OK
    BY PromisesHold
  <2> HIDE DEF OK, Coming, Gone
  <2>2. Spec /\ []EndsEnabled => (Coming ~> Gone)
    BY <1>1, <1>2, <1>3, <1>4, <2>1, PTL DEF Spec, Fairness
  <2>3. QED
    BY <2>2, PTL DEF Coming, Gone, DialogsAppear

\* The dialog of a form that has been saved goes away or shows a newer form, whichever
\* transition the answer meets, unless it meets a dialog that is hiding to be shown
\* again, for any number of forms and of contents being fetched (closeModal).
THEOREM SavedDialogsGo == Spec /\ []EndsEnabled => SavedDialogsClose
<1> DEFINE Done == report = "saved"
           Goal == modal.state = "hidden" \/ report # "saved"
           OK   == Inv /\ Promised
<1>1. OK /\ Done => Fading \/ BackdropFading \/ Opening \/ Goal
  BY DEF Inv, DialogOK, Tracked, ModalRecord, Promised, Fading, BackdropFading, Opening
<1>2. /\ OK /\ Done /\ Opening /\ [Next]_vars
         => (Done /\ Opening)' \/ (Done /\ Fading)' \/ Goal'
      /\ OK /\ Done /\ Fading /\ [Next]_vars
         => (Done /\ Fading)' \/ (Done /\ BackdropFading)' \/ Goal'
      /\ OK /\ Done /\ BackdropFading /\ [Next]_vars => (Done /\ BackdropFading)' \/ Goal'
  <2>1. ASSUME OK, Done, [Next]_vars, ~TransitionEnds
        PROVE  \/ Goal'
               \/ Done' /\ (Fading => Fading') /\ (BackdropFading => BackdropFading')
                        /\ (Opening => Opening')
    BY <2>1, OnlyEndsMove DEF ClosedModal
  <2>2. ASSUME OK, Done, TransitionEnds
        PROVE  /\ Done'
               /\ Opening => Fading'
               /\ Fading => BackdropFading'
               /\ BackdropFading => Goal'
    BY <2>2, EndsMove DEF Promised, BackdropFading, Opening
  <2>3. QED
    BY <2>1, <2>2
<1>3. /\ OK /\ Done /\ Opening /\ <<Next /\ TransitionEnds>>_vars => (Done /\ Fading)' \/ Goal'
      /\ OK /\ Done /\ Fading /\ <<Next /\ TransitionEnds>>_vars
         => (Done /\ BackdropFading)' \/ Goal'
      /\ OK /\ Done /\ BackdropFading /\ <<Next /\ TransitionEnds>>_vars => Goal'
  BY EndsMove DEF Promised, BackdropFading, Opening
<1>4. OK /\ EndsEnabled /\ (Fading \/ BackdropFading \/ Opening)
      => ENABLED <<TransitionEnds>>_vars
  BY TransitionsEnd
<1>5. QED
  <2>1. Spec => []OK
    BY PromisesHold
  <2> HIDE DEF OK, Done, Goal
  <2>2. Spec /\ []EndsEnabled => (Done ~> Goal)
    BY <1>1, <1>2, <1>3, <1>4, <2>1, PTL DEF Spec, Fairness
  <2>3. QED
    BY <2>2, PTL DEF Done, Goal, SavedDialogsClose

=============================================================================
