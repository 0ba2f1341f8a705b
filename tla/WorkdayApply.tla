---------------------------- MODULE WorkdayApply -----------------------------
(***************************************************************************)
(* The detect-and-act loop of taskHandlers/workday: what a page is comes   *)
(* from its URL, its text or the LLM; forms are filled viewport by         *)
(* viewport, then left by clickNextWithErrorRecovery(), which stays in its *)
(* own loop while it sees an error, whichever page shows it.  "form" is a  *)
(* page of personal information, questions or disclosures: all are filled  *)
(* by fillWithSmartScroll().                                               *)
(***************************************************************************)
EXTENDS Naturals

CONSTANTS
  MaxWorkdayPages,    (* MAX_FORM_PAGES *)
  MaxScrollRounds,    (* MAX_SCROLL_ROUNDS *)
  MaxRetries          (* MAX_RETRIES of clickNextWithErrorRecovery() *)

ASSUME WorkdayAssumption ==
  MaxWorkdayPages \in Nat /\ MaxScrollRounds \in Nat /\ MaxRetries \in Nat \ {0}

VARIABLES
  shows,        (* the page that the browser shows                             *)
  run,          (* where execute() is, and its counters                        *)
  due,          (* what the site will answer to the last click: the kinds of
                   pages that may come, or errors, or nothing                  *)
  seenBy,       (* who has looked at the page: "loop", or nobody since it came,
                   with an error ("alerted"), without ("quiet"), or without,
                   while that of the page before was seen to ("late")          *)
  sentFrom      (* history: the page whose Submit sent the application, or None *)

workdayVars == <<shows, run, due, seenBy, sentFrom>>

\* box: an unchecked checkbox; missing: another field is empty that must not be; alert:
\* an alert that has the word error, also one that is hidden.
WorkdayPages(kinds, buttons, heading, inputs, boxes, missing, alert) ==
  [kind : kinds, button : buttons, heading : heading, inputs : inputs,
   box : boxes, missing : missing, alert : alert]

PlainKinds ==
  {"listing", "login", "google", "challenge", "code", "signup", "confirmation", "error"}

Sites ==
  WorkdayPages({"form"}, {"next", "submit"}, {FALSE}, BOOLEAN, {"none", "optional", "terms"}, BOOLEAN, BOOLEAN)
  \cup WorkdayPages({"experience"}, {"next"}, {FALSE}, {TRUE}, {"none"}, BOOLEAN, BOOLEAN)
  \cup WorkdayPages({"review"}, {"submit"}, BOOLEAN, {FALSE}, {"none", "optional"}, {FALSE}, BOOLEAN)
  \cup WorkdayPages(PlainKinds, {"none"}, {FALSE}, {FALSE}, {"none"}, {FALSE}, {FALSE})
None == [kind |-> "none", button |-> "none", heading |-> FALSE, inputs |-> FALSE, box |-> "none",
         missing |-> FALSE, alert |-> FALSE]

OnwardFrom ==
  [listing |-> {"login", "form"}, login |-> {"google", "signup", "form"},
   google |-> {"google", "challenge", "form"}, challenge |-> {"google", "form"},
   code |-> {"form"}, signup |-> {"code", "form"}, form |-> {"form", "experience", "review", "error"},
   experience |-> {"form"}, review |-> {"confirmation"}, confirmation |-> {}, error |-> {}]

-----------------------------------------------------------------------------
IsActuallyReview == shows.heading /\ shows.button = "submit" /\ ~shows.inputs

\* When the LLM's answer cannot be read.
ClassifyPageFromDOM ==
  IF ~shows.inputs /\ (shows.button = "submit" \/ shows.heading)
    THEN {"review"} ELSE {shows.kind, "unknown"}

\* The LLM is taken to see what a page is, but for a review, which shows the headings
\* of all the forms.
DetectWorkdayPage ==
  CASE shows.kind \in {"google", "challenge", "login"} -> {shows.kind}
    [] shows.kind = "review" -> {"review", "form", "experience"} \cup ClassifyPageFromDOM
    [] OTHER -> {shows.kind} \cup ClassifyPageFromDOM

-----------------------------------------------------------------------------
RunAt(pc) == run' = [run EXCEPT !.pc = pc]
Result(success, keep) == run' = [run EXCEPT !.pc = "over", !.success = success, !.keep = keep]
Remain == UNCHANGED <<shows, seenBy>>
Recovering == run.pc \in {"recover", "click"}

Reach(kinds) ==
  \E p \in {q \in Sites : q.kind \in kinds} :
    shows' = p /\ seenBy' = IF p.alert THEN "alerted" ELSE IF Recovering THEN "late" ELSE "quiet"

LookAtPage ==
  /\ run.pc = "look" /\ run.pages < MaxWorkdayPages
  /\ \E type \in DetectWorkdayPage :
       run' = [run EXCEPT !.pc = type, !.pages = @ + 1, !.rounds = 0, !.attempt = 1]
  /\ seenBy' = "loop"
  /\ UNCHANGED <<shows, due, sentFrom>>

MaxPagesReached ==
  /\ run.pc = "look" /\ run.pages = MaxWorkdayPages
  /\ Result(TRUE, TRUE)
  /\ UNCHANGED <<shows, due, seenBy, sentFrom>>

\* Any call may throw.
WorkdayThrows ==
  /\ run.pc \notin {"look", "over", "review", "confirmation", "error"}
  /\ Result(FALSE, run.pages > 2)
  /\ UNCHANGED <<shows, due, seenBy, sentFrom>>

Onward(type) ==
  /\ run.pc = type
  /\ Reach(OnwardFrom[shows.kind]) \/ Remain
  /\ RunAt("look")
  /\ UNCHANGED <<due, sentFrom>>

ClickApply == Onward("listing")
SignIn == Onward("login")
SignInAtGoogle == Onward("google")
EnterCode == Onward("code")
CreateAccount == Onward("signup")

\* A human has three minutes to answer a challenge.
AwaitChallenge ==
  /\ run.pc = "challenge"
  /\ Reach(OnwardFrom["challenge"])
  /\ RunAt("look")
  /\ UNCHANGED <<due, sentFrom>>

EndAtPage ==
  /\ run.pc \in {"review", "confirmation", "error"}
  /\ Result(run.pc # "error", run.pc = "review")
  /\ UNCHANGED <<shows, due, seenBy, sentFrom>>

-----------------------------------------------------------------------------
\* What one pass may fill: dates and terms by the DOM, the rest by the LLM.
FillIn ==
  \E m \in {shows.missing, FALSE}, c \in {shows.box, "none"} :
    /\ c = "none" => shows.box \in {"terms", "none"}
    /\ shows' = [shows EXCEPT !.missing = m, !.box = c]

\* fillWithSmartScroll(): the page may be a review after all.
StartFill ==
  /\ run.pc \in {"form", "unknown"}
  /\ RunAt(IF IsActuallyReview THEN "look" ELSE "round")
  /\ UNCHANGED <<shows, due, seenBy, sentFrom>>

ScrollRound ==
  /\ run.pc = "round" /\ run.rounds < MaxScrollRounds
  /\ FillIn
  /\ run' = [run EXCEPT !.rounds = @ + 1]
  /\ UNCHANGED <<due, seenBy, sentFrom>>

\* The bottom, or the last round.
ScrolledDown ==
  /\ run.pc = "round" /\ run.rounds > 0
  /\ RunAt("click")
  /\ UNCHANGED <<shows, due, seenBy, sentFrom>>

\* handleExperiencePage(): resume, entries, skills, links; no look for a review.
FillExperience ==
  /\ run.pc = "experience"
  /\ FillIn
  /\ RunAt("click")
  /\ UNCHANGED <<due, seenBy, sentFrom>>

-----------------------------------------------------------------------------
\* Mutant: only the heading tells a review.
LooksLikeReviewByHeading == shows.heading

LooksLikeReview == shows.heading \/ (~shows.inputs /\ shows.box = "none")

\* clickSaveAndContinueDOM(): what is clicked.  Where it finds no button the LLM looks
\* for one, and is told not to submit.
Pressed ==
  CASE shows.button = "submit" -> IF LooksLikeReview THEN "nothing" ELSE "submit"
    [] OTHER -> shows.button

\* What the site does of it, after a while; while it is at it, another click does nothing.
Answers ==
  IF due # {} \/ Pressed = "nothing" THEN {due}
  ELSE {IF shows.missing \/ shows.box = "terms" THEN {"errors"}
        ELSE IF Pressed = "submit" THEN {"confirmation"} ELSE OnwardFrom[shows.kind]}
       \cup (IF Pressed = "none" THEN {{}} ELSE {})

ClickNext ==
  /\ run.pc = "click"
  /\ due' \in Answers
  /\ sentFrom' = IF Pressed = "submit" /\ due = {} /\ due' = {"confirmation"} THEN shows ELSE sentFrom
  /\ RunAt("clicked")
  /\ Remain

\* The answer comes: before the check or after it.
SiteAnswers ==
  /\ run.pc \in {"clicked", "recover", "click", "settle"} /\ due # {}
  /\ IF due = {"errors"} THEN shows' = [shows EXCEPT !.alert = TRUE] /\ UNCHANGED seenBy
                         ELSE Reach(due)
  /\ due' = {}
  /\ UNCHANGED <<run, sentFrom>>

\* Mutant: three clicks, whatever the page shows.
AfterClickAlways == RunAt("recover")

\* Two seconds after the click.  An alert that says error is taken for the answer.
AfterClick == RunAt(IF shows.alert THEN "recover" ELSE "settle")

CheckForErrors ==
  /\ run.pc = "clicked"
  /\ AfterClick
  /\ UNCHANGED <<shows, due, seenBy, sentFrom>>

\* waitForPageLoad(): ten seconds, which are taken to be enough for an answer.
PageLoaded ==
  /\ run.pc = "settle" /\ due = {}
  /\ RunAt("look")
  /\ UNCHANGED <<shows, due, seenBy, sentFrom>>

\* The error's links, dates, the LLM, a walk through the viewports; then again.
RecoverFromErrors ==
  /\ run.pc = "recover"
  /\ FillIn
  /\ run' = IF run.attempt < MaxRetries THEN [run EXCEPT !.pc = "click", !.attempt = @ + 1]
                                        ELSE [run EXCEPT !.pc = "settle"]
  /\ UNCHANGED <<due, seenBy, sentFrom>>

-----------------------------------------------------------------------------
WorkdayInit ==
  /\ shows \in {q \in Sites : q.kind = "listing"}
  /\ run = [pc |-> "look", pages |-> 0, rounds |-> 0, attempt |-> 1, success |-> FALSE, keep |-> FALSE]
  /\ due = {} /\ seenBy = "quiet" /\ sentFrom = None

WorkdayNext ==
  \/ LookAtPage \/ MaxPagesReached \/ WorkdayThrows \/ EndAtPage
  \/ ClickApply \/ SignIn \/ SignInAtGoogle \/ EnterCode \/ CreateAccount \/ AwaitChallenge
  \/ StartFill \/ ScrollRound \/ ScrolledDown \/ FillExperience
  \/ ClickNext \/ SiteAnswers \/ CheckForErrors \/ PageLoaded \/ RecoverFromErrors

WorkdaySpec == WorkdayInit /\ [][WorkdayNext]_workdayVars /\ WF_workdayVars(WorkdayNext)

-----------------------------------------------------------------------------
WorkdayPcs == {"look", "over", "unknown", "round", "click", "clicked", "recover", "settle"} \cup DOMAIN OnwardFrom

WorkdayRuns ==
  [pc : WorkdayPcs, pages : 0..MaxWorkdayPages, rounds : 0..MaxScrollRounds,
   attempt : 1..MaxRetries, success : BOOLEAN, keep : BOOLEAN]

\* The handler's variables have their types.
WorkdayTypeOK ==
  /\ shows \in Sites /\ sentFrom \in Sites \cup {None}
  /\ run \in WorkdayRuns
  /\ due \subseteq DOMAIN OnwardFrom \cup {"errors"}
  /\ seenBy \in {"loop", "alerted", "late", "quiet"}

\* The loop within the loop presses Save on the next page, unseen by the detection and
\* with its fields as they came, only if that page showed an error on arrival, or came so
\* late that an error of the page before, there since before the click, was taken for
\* the answer.  A page that comes within the two seconds, without an error, is always
\* looked at first.
PagesAreNotSkipped == run.pc \in {"click", "recover"} => seenBy # "quiet"

\* Workday's handler sends no application from a page whose heading says review, nor
\* from one without anything to fill or to check; but a last form may be sent, and so
\* may a review whose heading does not say so and that has an unchecked box.
SubmitsNoReview ==
  sentFrom # None => ~sentFrom.heading /\ (sentFrom.inputs \/ sentFrom.box # "none")
=============================================================================
