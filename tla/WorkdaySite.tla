----------------------------- MODULE WorkdaySite -----------------------------
(***************************************************************************)
(* The smart handler on a form of a Workday site, from detection to the    *)
(* button that leads on (platforms/workdayConfig.ts, and what              *)
(* taskHandlers/smartApplyHandler.ts does around it): the lists that read  *)
(* 'Select One', and the page of experience with its resume, its skills    *)
(* and the LLM's walk.  Other fields are FillPage's; here the page has     *)
(* some that are still editable, or has none.                              *)
(***************************************************************************)
EXTENDS Naturals

CONSTANTS
  SelectLists,      (* the lists of the page *)
  SkillCount,       (* skills of the profile *)
  MaxRounds,        (* MAX_SCROLL_ROUNDS *)
  MaxRoundCalls,    (* MAX_LLM_CALLS *)
  MaxSiteVisits     (* MAX_FORM_PAGES: the page is looked at again when it stays *)

ASSUME SiteAssumption ==
  SkillCount \in Nat /\ MaxRounds \in Nat \ {0} /\ MaxRoundCalls \in Nat /\ MaxSiteVisits \in Nat

VARIABLES
  sitePage,         (* what the page is, and what the checks look at            *)
  lists,            (* each list: "Select One", or the answer                   *)
  chips,            (* the skills that the page has                             *)
  attached,         (* whether the page tells that it has the resume            *)
  visit,            (* where the handler is, and its locals                     *)
  sentFor           (* history: the pages whose Submit was clicked              *)

siteVars == <<sitePage, lists, chips, attached, visit, sentFor>>

\* title: a heading says review; inputs: text inputs; box: a box that is not checked.
SitePages ==
  [kind : {"experience", "form", "review"}, title : BOOLEAN, inputs : BOOLEAN,
   box : BOOLEAN, way : {"save", "submit", "none"}]

Unanswered == {d \in SelectLists : lists[d] = "Select One"}
VisitAt(pc) == visit' = [visit EXCEPT !.pc = pc]

-----------------------------------------------------------------------------
\* The DOM's idea of the page when the LLM cannot be asked.
ClassifyForm ==
  IF /\ ~sitePage.inputs /\ Unanswered = {} /\ sitePage.way # "save"
     /\ sitePage.title \/ sitePage.way = "submit"
    THEN "review"
    ELSE IF sitePage.kind = "experience" THEN "experience" ELSE "form"

\* The LLM's "review" is taken for a form when there is something to edit, and also
\* when it has second thoughts.
LlmForm ==
  IF sitePage.kind # "review" THEN {sitePage.kind}
  ELSE IF sitePage.inputs \/ Unanswered # {} THEN {"form"} ELSE {"review", "form"}

DetectForm ==
  /\ visit.pc = "detect" /\ visit.count < MaxSiteVisits
  /\ \E type \in LlmForm \cup {ClassifyForm} :
       visit' = [visit EXCEPT !.count = @ + 1,
                   !.pc = CASE type = "review" -> "over" [] type = "form" -> "lists"
                            [] OTHER -> "resume"]
  /\ UNCHANGED <<sitePage, lists, chips, attached, sentFor>>

FormVisitsEnd ==
  /\ visit.pc = "detect" /\ visit.count = MaxSiteVisits
  /\ VisitAt("over")
  /\ UNCHANGED <<sitePage, lists, chips, attached, sentFor>>

\* An act() outside fillPage() that fails ends the job.
FormThrows ==
  /\ visit.pc \in {"round", "skill", "chip", "short"}
  /\ VisitAt("over")
  /\ UNCHANGED <<sitePage, lists, chips, attached, sentFor>>

-----------------------------------------------------------------------------
\* The first option that the answer is in, or that is in the answer: of those shown, of
\* those left when it is typed, or of those that 90 steps down the list bring up.
\* Nothing asks whether the list that was open is the one that was clicked.
ClickDropdownOption(d) ==
  \E e \in {d} \cup SelectLists : lists' = [lists EXCEPT ![e] = "answered"]

\* A list is found beside the generic scan's fields unless one has its label; the LLM
\* comes after, and may answer the rest.
FillLists ==
  /\ visit.pc = "lists"
  /\ \/ \E d \in Unanswered : ClickDropdownOption(d) /\ UNCHANGED <<visit, sitePage>>
     \/ /\ VisitAt("next") /\ UNCHANGED lists
        /\ \E b \in {FALSE, sitePage.box} : sitePage' = [sitePage EXCEPT !.box = b]
  /\ UNCHANGED <<chips, attached, sentFor>>

\* Unless the page tells of an upload and of a way to remove it.
AttachResume ==
  /\ visit.pc = "resume"
  /\ attached' \in {attached, TRUE}          \* or there is no file, or it failed
  /\ visit' = [visit EXCEPT !.pc = "skill", !.n = 1]
  /\ UNCHANGED <<sitePage, lists, chips, sentFor>>

NextSkill == visit' = [visit EXCEPT !.pc = "skill", !.n = @ + 1]

\* No field for skills, none left: the walk begins.
SkillsDone ==
  /\ visit.pc = "skill"
  /\ visit' = [visit EXCEPT !.pc = "round", !.n = 1, !.calls = 0]
  /\ UNCHANGED <<sitePage, lists, chips, attached, sentFor>>

\* An option that reads like the skill is clicked; one that is there may be taken out.
AddSkill ==
  /\ visit.pc \in {"skill", "short"} /\ visit.n <= SkillCount
  /\ \/ chips' = chips \cup {visit.n}
     \/ visit.n \in chips /\ chips' = chips \ {visit.n}
  /\ NextSkill
  /\ UNCHANGED <<sitePage, lists, attached, sentFor>>

\* The field cannot be seen: the skill is passed over.
SkipSkill ==
  /\ visit.pc = "skill" /\ visit.n <= SkillCount
  /\ NextSkill
  /\ UNCHANGED <<sitePage, lists, chips, attached, sentFor>>

\* None is like it: Enter, and whatever the site takes, which may be another skill.
EnterForTop ==
  /\ visit.pc \in {"skill", "short"} /\ visit.n <= SkillCount
  /\ \E n \in 1..SkillCount : chips' \in {chips, chips \cup {n}}
  /\ IF visit.pc = "skill" THEN VisitAt("chip") ELSE NextSkill
  /\ UNCHANGED <<sitePage, lists, attached, sentFor>>

\* A chip with the skill's name is a success, if it is seen; else half of the name is
\* searched for, unless it is too short.
SeeChip ==
  /\ visit.pc = "chip"
  /\ \/ visit.n \in chips /\ NextSkill
     \/ VisitAt("short")
     \/ NextSkill
  /\ UNCHANGED <<sitePage, lists, chips, attached, sentFor>>

\* One call of the LLM a round, and on, until the bottom.
ExperienceRound ==
  /\ visit.pc = "round"
  /\ LET calls == IF visit.calls < MaxRoundCalls THEN visit.calls + 1 ELSE visit.calls IN
       \/ /\ visit.n < MaxRounds
          /\ visit' = [visit EXCEPT !.n = @ + 1, !.calls = calls]
       \/ visit' = [visit EXCEPT !.pc = "next", !.calls = calls]
  /\ lists' \in {lists, [d \in SelectLists |-> "answered"]}
  /\ UNCHANGED <<sitePage, chips, attached, sentFor>>

-----------------------------------------------------------------------------
\* Mutant: boxes and lists are not looked at before Submit.
ClickFormButtonBlindly ==
  IF sitePage.way = "save" THEN "clicked"
  ELSE IF sitePage.way = "none" THEN "not_found"
  ELSE IF sitePage.inputs THEN "review_detected" ELSE "submitted"

\* Save, Next or Continue first; Submit only if the page does not look like a review.
ClickFormButton ==
  IF sitePage.way = "save" THEN "clicked"
  ELSE IF sitePage.way = "none" THEN "not_found"
  ELSE IF sitePage.title \/ (~sitePage.inputs /\ Unanswered = {} /\ ~sitePage.box)
    THEN "review_detected" ELSE "submitted"

\* On, or the same page again with its errors; without a button the LLM is told to look
\* for Save and Continue.  A review ends the handler from fillPage(), and from the page
\* of experience on the next look.
LeaveForm ==
  /\ visit.pc = "next"
  /\ LET result == ClickFormButton IN
       /\ sentFor' = (IF result = "submitted" THEN sentFor \cup {[page |-> sitePage, open |-> Unanswered]}
                                              ELSE sentFor)
       /\ \/ VisitAt("over")
          \/ VisitAt("detect")
       /\ IF result \in {"clicked", "not_found"}
            THEN sitePage' \in {sitePage, [sitePage EXCEPT !.inputs = TRUE]}
            ELSE UNCHANGED sitePage
  /\ UNCHANGED <<lists, chips, attached>>

-----------------------------------------------------------------------------
SiteInit ==
  /\ sitePage \in {p \in SitePages : p.kind = "review" => p.way = "submit"}
  /\ lists \in [SelectLists -> {"Select One", "answered"}]
  /\ chips = {}
  /\ attached = FALSE
  /\ visit = [pc |-> "detect", count |-> 0, n |-> 1, calls |-> 0]
  /\ sentFor = {}

SiteNext ==
  \/ DetectForm \/ FormVisitsEnd \/ FormThrows
  \/ FillLists \/ AttachResume
  \/ SkillsDone \/ AddSkill \/ SkipSkill \/ EnterForTop \/ SeeChip
  \/ ExperienceRound \/ LeaveForm

SiteSpec == SiteInit /\ [][SiteNext]_siteVars

-----------------------------------------------------------------------------
SiteVisits ==
  [pc : {"detect", "lists", "resume", "skill", "chip", "short", "round", "next", "over"},
   count : 0..MaxSiteVisits, n : 1..(MaxRounds + SkillCount), calls : 0..MaxRoundCalls]

\* The variables have their types.
SiteTypeOK ==
  /\ sitePage \in SitePages
  /\ lists \in [SelectLists -> {"Select One", "answered"}]
  /\ chips \subseteq 1..SkillCount
  /\ attached \in BOOLEAN
  /\ visit \in SiteVisits

\* Submit is clicked only where there is something to edit, and no heading says review.
SubmitsOnlyForms ==
  \A s \in sentFor : ~s.page.title /\ (s.page.inputs \/ s.open # {} \/ s.page.box)
=============================================================================
