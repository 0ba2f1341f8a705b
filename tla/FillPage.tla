------------------------------ MODULE FillPage -------------------------------
(***************************************************************************)
(* One call of fillPage() (taskHandlers/smartApplyHandler.ts), with the    *)
(* calls it makes of itself when the site sends it back: scan, upload, DOM *)
(* fill, a walk of the LLM through the viewports, a last attempt, and the  *)
(* way on.  The fields are filled by platforms/genericConfig.ts, from a    *)
(* scan that is not taken again while the LLM and the site go on writing.  *)
(* What a value reads is left out: it matters who wrote it last.           *)
(***************************************************************************)
EXTENDS Naturals

CONSTANTS
  MaxDepth,       (* MAX_DEPTH *)
  MaxLlmCalls,    (* MAX_LLM_CALLS *)
  MaxScrollSteps, (* maxLLMScrollSteps *)
  Kind,           (* [field -> "text" (dates too), "choice", "search" (a choice with
                     a text box), "box" (a checkbox) or "llm"] *)
  Answered        (* the fields whose label findBestAnswer() knows *)

FormFields == DOMAIN Kind

ASSUME FillAssumption ==
  /\ MaxDepth \in Nat \ {0} /\ MaxLlmCalls \in Nat /\ MaxScrollSteps \in Nat
  /\ Kind \in [FormFields -> {"text", "choice", "search", "box", "llm"}]
  /\ Answered \subseteq FormFields

VARIABLES
  fill,           (* where the innermost call is, and its locals              *)
  value,          (* who wrote each field: "absent" (not on the page),
                     "empty", "dom" (fillScannedField), or "other"            *)
  open,           (* fields that scan.fields has as empty and not filled      *)
  ahead,          (* fields of the pass at work that it has not come to       *)
  acts            (* history: calls of safeAct(), each an act() or two        *)

fillVars == <<fill, value, open, ahead, acts>>

FillAt(pc) == fill' = [fill EXCEPT !.pc = pc]
Call(depth, llm) == [pc |-> "enter", depth |-> depth, llm |-> llm, scrolls |-> 0]

Empty == {f \in FormFields : value[f] = "empty"}

\* A write brings conditional fields up.
Emptied(v, fields) == [f \in FormFields |-> IF f \in fields THEN "empty" ELSE v[f]]
Brings(v) == {Emptied(v, s) : s \in SUBSET {f \in FormFields : v[f] = "absent"}}

\* The LLM, or the site after an upload, fills what it sees; choices it may change.
\* (Boxes that the LLM has unchecked are checked again.)
ByOthers(seen) ==
  UNION {Brings([f \in FormFields |-> IF f \in s THEN "other" ELSE value[f]]) :
           s \in SUBSET {f \in seen : value[f] = "empty" \/ Kind[f] \in {"choice", "search"}}}
OnPage == {f \in FormFields : value[f] # "absent"}

-----------------------------------------------------------------------------
\* Mutant: a text that is there is replaced.
FillByNativeSetterOver(f) == {[ok |-> TRUE, to |-> "dom"]}

\* The ways to fill a field: [ok: whether it is marked as filled, to: its value].
FillByNativeSetter(f) ==
  IF value[f] = "empty" THEN {[ok |-> TRUE, to |-> "dom"]} ELSE {}
\* Radios, selects and lists are set to the answer whatever they are.
FillChoice(f) == {[ok |-> TRUE, to |-> "dom"]}
\* The answer is typed over what is there, and stays if no option fits.
FillSearch(f) == {[ok |-> ok, to |-> "dom"] : ok \in BOOLEAN}
FillBox(f) ==
  IF value[f] = "empty" THEN {[ok |-> TRUE, to |-> "dom"]} ELSE {}

\* Each may find nothing to do it with.
FillAsScanned(f) ==
  {[ok |-> FALSE, to |-> value[f]]} \cup
  CASE value[f] = "absent" -> {}
    [] Kind[f] = "text" -> FillByNativeSetter(f)
    [] Kind[f] = "choice" -> FillChoice(f)
    [] Kind[f] = "search" -> FillSearch(f)
    [] Kind[f] = "box" -> FillBox(f)
    [] OTHER -> {}

-----------------------------------------------------------------------------
\* Too deep is 'complete'; a review that was taken for a form is 'review'.
Enter ==
  /\ fill.pc = "enter"
  /\ \/ fill.depth >= MaxDepth /\ FillAt("complete")
     \/ fill.depth < MaxDepth /\ (FillAt("review") \/ FillAt("scan"))
  /\ UNCHANGED <<value, open, ahead, acts>>

Scan ==
  /\ fill.pc = "scan"
  /\ open' = Empty
  /\ FillAt(IF open' = {} THEN "advance" ELSE "upload")
  /\ UNCHANGED <<value, ahead, acts>>

\* A page whose text looks like code is not shown to the LLM.
IsPageHealthy == BOOLEAN

\* A call of the LLM, after a pause since the last one, and one more if the provider's
\* limit refuses the first.
SafeAct ==
  /\ acts' = acts + 1
  /\ \E healthy \in IsPageHealthy : value' \in IF healthy THEN ByOthers(OnPage) ELSE {value}

ToDom == FillAt("dom") /\ ahead' = open \cap Answered

\* Into the first file input, if there is one: the site may fill fields from it.
UploadResume ==
  /\ fill.pc = "upload"
  /\ ToDom
  /\ value' \in ByOthers(OnPage)
  /\ UNCHANGED <<open, acts>>

\* An upload button that the LLM clicks; a click that fails is not counted, and the
\* limit of the calls is not looked at.
UploadByLlm ==
  /\ fill.pc = "upload"
  /\ SafeAct
  /\ ToDom \/ (fill' = [fill EXCEPT !.pc = "dom", !.llm = @ + 1] /\ ahead' = open \cap Answered)
  /\ UNCHANGED open

\* The DOM pass, and again after the LLM's walk, over what the scan has as empty.
DomFill ==
  /\ fill.pc \in {"dom", "cleanup"}
  /\ \E f \in ahead :
       /\ ahead' = ahead \ {f}
       /\ \E r \in FillAsScanned(f) :
            /\ value' \in Brings([value EXCEPT ![f] = r.to])
            /\ open' = IF r.ok THEN open \ {f} ELSE open
  /\ UNCHANGED <<fill, acts>>

\* Boxes that are required, or speak of terms, are checked on sight; the scan is not
\* told.
CheckRequiredCheckboxes ==
  /\ fill.pc = "dom" /\ ahead = {}
  /\ \E boxes \in SUBSET {f \in Empty : Kind[f] = "box"} :
       value' = [f \in FormFields |-> IF f \in boxes THEN "dom" ELSE value[f]]
  /\ IF open # {} /\ fill.llm < MaxLlmCalls
       THEN FillAt("walk") /\ UNCHANGED ahead
       ELSE FillAt("cleanup") /\ ahead' = open \cap Answered
  /\ UNCHANGED <<open, acts>>

\* A fresh scan of the viewport finds any of these.
UnfilledFields == {f \in Empty : Kind[f] # "box"}

\* If values changed, the fields shown to the LLM count as filled, and the same viewport
\* is looked at again.
WalkActs ==
  /\ fill.pc = "walk" /\ fill.scrolls < MaxScrollSteps /\ fill.llm < MaxLlmCalls
  /\ \E shown \in (SUBSET UnfilledFields) \ {{}} :
       /\ SafeAct
       /\ \/ /\ open' = open \ shown
             /\ fill' = [fill EXCEPT !.llm = @ + 1]
          \/ /\ UNCHANGED open
             /\ fill' = [fill EXCEPT !.llm = @ + 1, !.scrolls = @ + 1]
  /\ UNCHANGED ahead

WalkScrolls ==
  /\ fill.pc = "walk" /\ fill.scrolls < MaxScrollSteps /\ fill.llm < MaxLlmCalls
  /\ fill' = [fill EXCEPT !.scrolls = @ + 1]
  /\ UNCHANGED <<value, open, ahead, acts>>

\* The bottom, or a limit.
WalkEnds ==
  /\ fill.pc = "walk"
  /\ FillAt("cleanup")
  /\ ahead' = open \cap Answered
  /\ UNCHANGED <<value, open, acts>>

\* For what is still open the LLM is called once, and counted if it succeeds.
Cleanup ==
  /\ fill.pc = "cleanup" /\ ahead = {}
  /\ \/ FillAt("advance") /\ UNCHANGED <<value, acts>>
     \/ /\ open # {} /\ fill.llm < MaxLlmCalls + 2
        /\ UnfilledFields # {}
        /\ SafeAct
        /\ FillAt("advance") \/ fill' = [fill EXCEPT !.pc = "advance", !.llm = @ + 1]
  /\ open' = {}
  /\ UNCHANGED ahead

\* What a site may make of its form when it refuses it: fields emptied or added.
Refused == {Emptied(value, s) : s \in SUBSET FormFields}

\* Mutant: the count starts again with every call.
RefillAfresh ==
  /\ fill.pc = "advance"
  /\ fill' = Call(fill.depth + 1, 0)
  /\ value' \in Refused
  /\ UNCHANGED <<open, ahead, acts>>

\* The site shows errors, or scrolled to what is missing: a call within the call.
Refill ==
  /\ fill.pc = "advance"
  /\ fill' = Call(fill.depth + 1, fill.llm)
  /\ value' \in Refused
  /\ UNCHANGED <<open, ahead, acts>>

\* Next led on, a review was found, or neither, also after a scroll to the bottom.
Advance ==
  /\ fill.pc = "advance"
  /\ FillAt("navigated") \/ FillAt("review") \/ FillAt("complete")
  /\ UNCHANGED <<value, open, ahead, acts>>

-----------------------------------------------------------------------------
FillInit ==
  /\ fill = Call(0, 0)
  /\ value \in [FormFields -> {"absent", "empty", "other"}]
  /\ open = {} /\ ahead = {}
  /\ acts = 0

FillNext ==
  \/ Enter \/ Scan \/ UploadResume \/ UploadByLlm \/ DomFill \/ CheckRequiredCheckboxes
  \/ WalkActs \/ WalkScrolls \/ WalkEnds
  \/ Cleanup \/ Refill \/ Advance

FillSpec == FillInit /\ [][FillNext]_fillVars

-----------------------------------------------------------------------------
Ends == {"navigated", "review", "complete"}

FillTypeOK ==
  /\ fill \in [pc : Ends \cup {"enter", "scan", "upload", "dom", "walk", "cleanup", "advance"},
               depth : 0..MaxDepth, llm : 0..(MaxLlmCalls + MaxDepth + 2), scrolls : 0..MaxScrollSteps]
  /\ value \in [FormFields -> {"absent", "empty", "dom", "other"}]
  /\ open \subseteq FormFields /\ ahead \subseteq open
  /\ acts \in Nat

\* However often the site sends the handler back, a page costs no more than the limit
\* of the LLM and what each level may spend without looking at it: an upload and a
\* last attempt at the fields that are left.
LlmBounded == acts <= MaxLlmCalls + 2 * MaxDepth

\* The passes work from a scan that the LLM and the site have overtaken; a text or a
\* checkbox that one of them has filled since survives them, only a choice may be made
\* over.
TextIsKept ==
  [][ \A f \in FormFields :
        value[f] = "other" /\ value'[f] = "dom" => Kind[f] \in {"choice", "search"} ]_fillVars
=============================================================================
