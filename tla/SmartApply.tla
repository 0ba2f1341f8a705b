----------------------------- MODULE SmartApply ------------------------------
(***************************************************************************)
(* The detect-and-act loop of taskHandlers/smartApplyHandler.ts on a site  *)
(* with no configuration of its own (platforms/genericConfig.ts).  The     *)
(* registry has one handler for all the jobs of a worker, whose field      *)
(* loginAttempted is never reset.  A page is what detection and clicking   *)
(* look at: text, inputs, the button that leads on, and the site's own     *)
(* idea of it (kind), which only the LLM and the site know.  fillPage() is *)
(* FillPage's; here only how it leaves the page.                           *)
(***************************************************************************)
EXTENDS Naturals

CONSTANTS
  MaxFormPages,   (* MAX_FORM_PAGES *)
  MaxSamePage,    (* MAX_SAME_PAGE  *)
  MaxHandlerJobs  (* bound: jobs one handler runs *)

ASSUME SmartApplyAssumption ==
  MaxFormPages \in Nat /\ MaxSamePage \in Nat /\ MaxHandlerJobs \in Nat \ {0}

VARIABLES
  page,           (* what the browser shows                                  *)
  signature,      (* URL and fingerprint: changes when they do               *)
  loop,           (* where execute() is, and its locals                      *)
  loginAttempted, (* the handler's field                                     *)
  submission,     (* history: who submitted the application, on what page    *)
  job             (* which of the handler's jobs this is                     *)

applyVars == <<page, signature, loop, loginAttempted, submission, job>>

SitePagesOf(kinds, buttons, inputs, says, signIn, filled) ==
  [kind : kinds, button : buttons, inputs : inputs, says : says, signIn : signIn, filled : filled]

\* What sites show.  "few" is up to two inputs; signIn: a password field, Google, or
\* an email field beside a link to sign in; says "thanks" is any thank you.
Pages ==
  SitePagesOf({"listing"}, {"apply"}, {"none", "few"}, {"nothing", "thanks"}, BOOLEAN, {TRUE})
  \cup SitePagesOf({"login"}, {"sign in"}, {"few"}, {"nothing"}, {TRUE}, {TRUE})
  \cup SitePagesOf({"signup"}, {"continue"}, {"few", "many"}, {"nothing"}, BOOLEAN, {TRUE})
  \cup SitePagesOf({"form"}, {"next", "submit", "apply", "submit and continue"}, {"few", "many"},
                   {"nothing"}, BOOLEAN, BOOLEAN)
  \cup SitePagesOf({"review"}, {"submit", "apply", "submit and continue"}, {"none"},
                   {"nothing", "review"}, {FALSE}, {TRUE})
  \cup SitePagesOf({"code", "challenge", "error"}, {"none"}, {"none"}, {"nothing"}, {FALSE}, {TRUE})
  \cup SitePagesOf({"confirmation"}, {"none"}, {"none"}, {"thanks"}, {FALSE}, {TRUE})

Leads ==
  [listing |-> {"login", "signup", "challenge", "form"}, login |-> {"login", "signup", "code", "challenge", "form"},
   signup |-> {"login", "code", "form"}, code |-> {"form"}, form |-> {"form", "review"},
   review |-> {"confirmation"}, challenge |-> {}, error |-> {}, confirmation |-> {}]
Of(kinds) == {p \in Pages : p.kind \in kinds}
Final(p) ==
  p.kind = "review" \/ (p.kind = "form" /\ p.button \in {"submit", "apply"})

-----------------------------------------------------------------------------
\* Mutant: the Apply button is looked for before the signs of a review.
DetectPageByDOMApplyFirst(p) ==
  IF p.says = "thanks" /\ p.inputs # "many" THEN "confirmation"
  ELSE IF p.button = "apply" /\ (p.kind = "listing" \/ p.inputs # "many") THEN "job_listing"
  ELSE IF p.says = "review" THEN "review"
  ELSE IF p.signIn THEN "login"
  ELSE IF p.inputs = "many" THEN "questions" ELSE "none"

DetectPageByDOM(p) ==
  IF p.says = "thanks" /\ p.inputs # "many" THEN "confirmation"
  ELSE IF p.says = "review" THEN "review"
  ELSE IF p.button = "apply" /\ (p.kind = "listing" \/ p.inputs # "many") THEN "job_listing"
  ELSE IF p.signIn THEN "login"
  ELSE IF p.inputs = "many" THEN "questions" ELSE "none"

ClassifyByDOMFallback(p) ==
  IF p.button = "submit" /\ p.inputs = "none" THEN "review"
  ELSE IF p.says = "thanks" THEN "confirmation"
  ELSE IF p.button = "apply" THEN "job_listing"
  ELSE IF p.signIn THEN "login"
  ELSE IF p.inputs # "none" THEN "questions" ELSE "unknown"

\* The LLM is taken to see what a page is, but may read a form as one that makes an
\* account: which is checked from five fields on, and the DOM has told of more than two
\* by then.  A "review" is checked again, and the check fails closed.
LlmTypes(p) ==
  CASE p.kind = "review" -> {"review", "questions"}
    [] p.kind = "signup" -> {IF p.inputs = "many" THEN "questions" ELSE "account_creation"}
    [] p.kind = "form" -> {"questions"} \cup IF p.inputs = "many" THEN {} ELSE {"account_creation"}
    [] p.kind = "code" -> {"verification_code"}
    [] OTHER -> {IF p.kind = "listing" THEN "job_listing" ELSE p.kind}

\* A password field, one alone, until a login was tried.
DetectObviousPage(p) == IF p.signIn /\ ~loginAttempted THEN {"login"} ELSE {}

\* URL, obvious signs, DOM, then the LLM, or the DOM again if the call fails.
DetectPage(p) ==
  IF p.kind = "challenge" THEN {"phone_2fa"}
  ELSE DetectObviousPage(p) \cup
       (IF DetectPageByDOM(p) # "none" THEN {DetectPageByDOM(p)}
        ELSE LlmTypes(p) \cup {ClassifyByDOMFallback(p)})

-----------------------------------------------------------------------------
LoopAt(pc) == loop' = [loop EXCEPT !.pc = pc]
Show(kinds) == \E p \in Of(kinds) : page' = p /\ signature' \in {0, 1}
Stay == UNCHANGED <<page, signature>>

\* The page's button is clicked; a form that is not filled is refused.
Click(by) ==
  IF Final(page)
    THEN IF page.filled
      THEN Show({"confirmation"}) /\ submission' = [by |-> by, page |-> page]
      ELSE Stay /\ UNCHANGED submission
    ELSE Show(Leads[page.kind] \cup {"error"}) /\ UNCHANGED submission

Return(success, keep, await) ==
  loop' = [loop EXCEPT !.pc = "over", !.result = [success |-> success, keep |-> keep, await |-> await]]

Look ==
  /\ loop.pc = "look" /\ loop.pages < MaxFormPages
  /\ LET same == IF signature = loop.last THEN loop.same + 1 ELSE 0 IN
       IF same >= MaxSamePage
         THEN Return(TRUE, TRUE, TRUE)
         ELSE \E type \in DetectPage(page) :
                loop' = [loop EXCEPT !.pc = type, !.pages = @ + 1, !.same = same, !.last = signature]
  /\ UNCHANGED <<page, signature, loginAttempted, submission, job>>

ReachedPageLimit ==
  /\ loop.pc = "look" /\ loop.pages = MaxFormPages
  /\ Return(TRUE, TRUE, TRUE)
  /\ UNCHANGED <<page, signature, loginAttempted, submission, job>>

\* catch: the browser is kept once the application is under way.
Throw ==
  /\ loop.pc \notin {"look", "over", "review", "confirmation", "error"}
  /\ Return(FALSE, loop.pages > 2, FALSE)
  /\ UNCHANGED <<page, signature, loginAttempted, submission, job>>

\* An act() that failed on a page that did not change throws.
HandleJobListing ==
  /\ loop.pc = "job_listing"
  /\ Click("listing") \/ (Stay /\ UNCHANGED submission)
  /\ LoopAt("look")
  /\ UNCHANGED <<loginAttempted, job>>

\* Google, or credentials and the first button that says sign in, submit, continue or
\* next: on a page that is no login that may be the page's own.  Without such a button
\* the page's first form is submitted, which on a listing is not the application's.
HandleGenericLogin ==
  /\ loop.pc = "login" \/ (loop.pc = "account_creation" /\ ~loginAttempted)
  /\ \/ (page.button = "apply" => page.kind = "form") /\ Click("login")
     \/ Show({"login", "signup"}) /\ UNCHANGED submission
     \/ Stay /\ UNCHANGED submission
  /\ loginAttempted' = TRUE
  /\ LoopAt("look")
  /\ UNCHANGED job

\* The LLM fills what is there and presses the button that makes the account.
HandleAccountCreation ==
  /\ loop.pc = "account_creation" /\ loginAttempted
  /\ Click("signup") \/ (Stay /\ UNCHANGED submission)
  /\ LoopAt("look")
  /\ UNCHANGED <<loginAttempted, job>>

HandleVerificationCode ==
  /\ loop.pc = "verification_code"
  /\ Show(Leads["code"]) \/ Stay
  /\ LoopAt("look")
  /\ UNCHANGED <<loginAttempted, submission, job>>

StopAtReview ==
  /\ loop.pc = "review"
  /\ Return(TRUE, TRUE, TRUE)
  /\ UNCHANGED <<page, signature, loginAttempted, submission, job>>

StopAtConfirmation ==
  /\ loop.pc = "confirmation"
  /\ Return(TRUE, FALSE, FALSE)
  /\ UNCHANGED <<page, signature, loginAttempted, submission, job>>

StopAtError ==
  /\ loop.pc = "error"
  /\ Return(FALSE, FALSE, FALSE)
  /\ UNCHANGED <<page, signature, loginAttempted, submission, job>>

\* A button that submits, and none that leads on: a review, or fields are missing.
ClickNextButton(p) ==
  IF p.button \in {"submit", "apply"} THEN IF p.filled THEN "review_detected" ELSE "not_found"
  ELSE IF p.button \in {"next", "continue", "submit and continue"} THEN "clicked" ELSE "not_found"

Submittish(p) == p.button \in {"submit", "apply", "submit and continue"}

\* fillPage(): the review again, the fields, then the way on.  A button that submits
\* is a review whenever the page could not be left.
FillPage ==
  /\ loop.pc \in {"questions", "unknown"}
  /\ UNCHANGED <<loginAttempted, job>>
  /\ \/ /\ page.kind = "review" /\ page.says = "review" /\ page.button # "apply"
        /\ Return(TRUE, TRUE, TRUE) /\ Stay /\ UNCHANGED submission
     \/ \E f \in {page.filled, TRUE} :
          LET p == [page EXCEPT !.filled = f] IN
          \/ ClickNextButton(p) = "clicked" /\ f /\ LoopAt("look") /\ Click("fill")
          \/ /\ Submittish(p)
             /\ Return(TRUE, TRUE, TRUE)
             /\ page' = p /\ UNCHANGED <<signature, submission>>
          \/ /\ ClickNextButton(p) = "clicked" \/ ~Submittish(p)
             /\ LoopAt("look")
             /\ page' = p /\ UNCHANGED <<signature, submission>>

Fresh ==
  [pc |-> "look", pages |-> 0, same |-> 0, last |-> 2,
   result |-> [success |-> FALSE, keep |-> FALSE, await |-> FALSE]]
Nobody == [by |-> "nobody", page |-> CHOOSE p \in Of({"error"}) : TRUE]

\* The handler's next job, on another site.
NextJob ==
  /\ loop.pc = "over" /\ job < MaxHandlerJobs
  /\ job' = job + 1
  /\ Show({"listing", "login", "form"})
  /\ loop' = Fresh
  /\ submission' = Nobody
  /\ UNCHANGED loginAttempted

-----------------------------------------------------------------------------
ApplyInit ==
  /\ page \in Of({"listing", "login", "form"}) /\ signature = 0
  /\ loop = Fresh
  /\ loginAttempted = FALSE
  /\ submission = Nobody
  /\ job = 1

Execute ==
  \/ Look \/ ReachedPageLimit \/ Throw
  \/ HandleJobListing \/ HandleGenericLogin \/ HandleAccountCreation \/ HandleVerificationCode
  \/ StopAtReview \/ StopAtConfirmation \/ StopAtError \/ FillPage

ApplyNext == Execute \/ NextJob

ApplySpec == ApplyInit /\ [][ApplyNext]_applyVars

-----------------------------------------------------------------------------
Types == {"job_listing", "login", "account_creation", "verification_code", "phone_2fa",
          "review", "confirmation", "error", "questions", "unknown"}

Loops ==
  [pc : Types \cup {"look", "over"}, pages : 0..MaxFormPages, same : 0..MaxSamePage,
   last : 0..2, result : [success : BOOLEAN, keep : BOOLEAN, await : BOOLEAN]]

\* The variables of the loop have their types.
ApplyTypeOK ==
  /\ page \in Pages /\ signature \in {0, 1}
  /\ loop \in Loops
  /\ loginAttempted \in BOOLEAN
  /\ submission \in [by : {"nobody", "listing", "login", "signup", "fill"}, page : Pages]
  /\ job \in 1..MaxHandlerJobs

\* The handler stops before submission, but for four mistakes: a last page that says
\* nothing of a review, whose button reads Apply, is taken for the listing; a form that
\* has a password or an email field beside a link to sign in is taken for a login, and
\* its own button pressed; so is one of up to two fields that the LLM reads as a form
\* that makes an account; and "Submit and continue" ends a review that says nothing of
\* it.  A page that calls itself a review, and a plain Submit on a longer form or on a
\* review, are safe from every handler, in whatever order the pages come.
SubmitsOnlyByMistake ==
  LET p == submission.page
      misread == p.kind = "form" /\ p.inputs = "few" /\ ~p.signIn /\ p.button # "apply" IN
  CASE submission.by = "nobody" -> TRUE
    [] submission.by = "listing" -> p.button = "apply" /\ p.says # "review"
    [] submission.by = "login" -> (p.kind = "form" /\ p.signIn) \/ misread
    [] submission.by = "signup" -> misread
    [] submission.by = "fill" -> p.kind = "review" /\ p.button = "submit and continue"
    [] OTHER -> FALSE
=============================================================================
