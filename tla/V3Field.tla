------------------------------- MODULE V3Field -------------------------------
(***************************************************************************)
(* One field of a form in the v3 engine, from the scan to the review:      *)
(* what PageScanner and the conversions of v2compat make of it, whether    *)
(* FieldMatcher takes it, and what the layers dom, stagehand and magnitude *)
(* do to it until VerificationEngine is content.  An answer is the one     *)
(* asked for, one that contains it or is contained in it, another one, or  *)
(* none.                                                                   *)
(***************************************************************************)
EXTENDS Naturals, Sequences, TLC

CONSTANT MaxLayerTries    (* maxAttemptsPerLayer *)

ASSUME V3FieldAssumption == MaxLayerTries \in Nat \ {0}

VARIABLES
  widget,       (* the field's element                                         *)
  held,         (* the answer that it holds                                    *)
  found,        (* the answer that the scan read, and the one that was held    *)
  task          (* where the field is: its layer, the tries and what they cost *)

fieldV3Vars == <<widget, held, found, task>>

Kinds == {"text", "rich", "date", "file", "select", "combo", "selectOne", "radio", "ariaRadio", "box"}
Lists == {"select", "combo", "selectOne"}

\* prompt: what it shows or has as its value when it has no answer, as 'Select One', or
\* the 'on' of a box; stays: its selector finds it; yes: the answer reads like a yes.
Widgets == [kind : Kinds, prompt : BOOLEAN, stays : BOOLEAN, yes : BOOLEAN]
Values == IF widget.kind = "box" THEN {"none", "want"} ELSE {"none", "want", "near", "other"}

LayerOrder == <<"dom", "stagehand", "magnitude">>

\* The scanner's type, its name in the v3 engine, and what the matcher, the executor and
\* the review make of that.
FieldType ==
  CASE widget.kind = "rich" -> "contenteditable"
    [] widget.kind = "ariaRadio" -> "aria_radio"
    [] widget.kind \in {"combo", "selectOne"} -> "custom_dropdown"
    [] OTHER -> widget.kind

ToV3(type) ==
  CASE type = "contenteditable" -> "text"
    [] type = "aria_radio" -> "radio"
    [] type = "custom_dropdown" -> "searchable_select"
    [] OTHER -> type

ToV2(type) == IF type = "searchable_select" THEN "custom_dropdown" ELSE type

V2Type == ToV2(ToV3(FieldType))

\* The strategies of FieldMatcher with their confidences in percent.
ExactStrategies == [automation_id |-> 95, name_attr |-> 95, label_exact |-> 90]
FuzzyStrategies == [qa_match |-> 85, label_fuzzy |-> 75, placeholder |-> 70, default_value |-> 60]
Strategies == ExactStrategies @@ FuzzyStrategies

PlannedLayer(confidence) == IF confidence >= 80 THEN 1 ELSE IF confidence >= 60 THEN 2 ELSE 3

-----------------------------------------------------------------------------
\* What the scan reads: of a box its value attribute, of radios nothing, of lists the
\* text shown.
Shows ==
  CASE widget.kind \in {"radio", "ariaRadio"} -> "none"
    [] widget.kind = "box" -> IF widget.prompt THEN "other" ELSE "none"
    [] widget.kind \in Lists /\ held = "none" /\ widget.prompt -> "other"
    [] OTHER -> held

\* An answered 'Select One' is no field any more.
ScanField ==
  /\ task.pc = "scan"
  /\ IF widget.kind = "selectOne" /\ held # "none"
       THEN task' = [task EXCEPT !.pc = "unseen"] /\ UNCHANGED found
       ELSE /\ task' = [task EXCEPT !.pc = "match"]
            /\ found' = [read |-> Shows, was |-> held]
  /\ UNCHANGED <<widget, held>>

\* FieldMatcher takes fields that are empty, visible and enabled; which strategy answers,
\* or none, decides where the work begins (never with Magnitude).
MatchField ==
  /\ task.pc = "match"
  /\ IF found.read = "none"
       THEN \/ \E s \in DOMAIN Strategies :
                 task' = [task EXCEPT !.pc = "planned", !.layer = PlannedLayer(Strategies[s])]
            \/ task' = [task EXCEPT !.pc = "unmatched"]
       ELSE task' = [task EXCEPT !.pc = "taken"]
  /\ UNCHANGED <<widget, held, found>>

\* The fields before this one are worked on: the page may change.
Wait4Turn ==
  /\ task.pc = "planned"
  /\ \E v \in Values : held' = v
  /\ \E s \in {FALSE, widget.stays} : widget' = [widget EXCEPT !.stays = s]
  /\ task' = [task EXCEPT !.pc = "try"]
  /\ UNCHANGED found

-----------------------------------------------------------------------------
\* Mutant: a box is clicked whatever it holds.
CheckBlindly ==
  {[ok |-> TRUE, held |-> IF held = "want" THEN "none" ELSE "want"], [ok |-> TRUE, held |-> held]}

\* checkCheckbox(); the site may not take the click.
Check == {[ok |-> TRUE, held |-> v] : v \in {held} \cup (IF held = "want" THEN {} ELSE {"want"})}

\* fillText(): a right value is left; the site may turn the new one back or reformat it.
SetText == {[ok |-> TRUE, held |-> v] : v \in IF held = "want" THEN {held} ELSE {"want", "near", held}}

\* fillDate() types over what is there.
TypeDate == {[ok |-> TRUE, held |-> v] : v \in IF held = "none" THEN {"want", held} ELSE Values \ {"none"}}

\* fillSelect(), fillRadio(): the option that is the answer, if there is one, else one that
\* is like it, and of radios also one without a label.
PickOption ==
  {[ok |-> TRUE, held |-> "want"], [ok |-> FALSE, held |-> held]} \cup
  {[ok |-> TRUE, held |-> v] : v \in IF held = "want" THEN {} ELSE
                                     IF widget.kind = "radio" THEN {"near", "other"} ELSE {"near"}}

\* fillCustomDropdown(): the first option of the page that is like the answer or, later,
\* like a part of it.
OpenAndClick ==
  {[ok |-> TRUE, held |-> v] : v \in {"want", "near", "other", held}} \cup {[ok |-> FALSE, held |-> held]}

Error == {[ok |-> FALSE, held |-> held]}

\* DOMActionExecutor without an LLM.  The setter of inputs throws on a rich text, ARIA
\* radios are not among the inputs of a name, and files have no handler.
FillByDom ==
  CASE ~widget.stays \/ widget.kind \in {"rich", "ariaRadio"} -> Error
    [] V2Type = "text" -> SetText
    [] V2Type = "date" -> TypeDate
    [] V2Type \in {"select", "radio"} -> PickOption
    [] V2Type = "custom_dropdown" -> OpenAndClick
    [] V2Type = "box" -> Check
    [] OTHER -> Error

\* An act() or exec() of an agent does what it likes, and says what it likes.
FillByAgent == [ok : BOOLEAN, held : Values]

\* The value that the review reads by the selector: of a rich text the value of an input,
\* of ARIA radios the checked input of their name, of a box whether it is checked.
ReadBack == IF ~widget.stays \/ widget.kind \in {"rich", "ariaRadio"} THEN "none" ELSE held

\* Mutant: nothing matches, as every text contains it.
FuzzyMatchEmpty(actual) ==
  IF V2Type = "box" THEN actual = "want" /\ widget.yes ELSE actual \in {"none", "want", "near"}

FuzzyMatch(actual) ==
  IF V2Type = "box" THEN actual = "want" /\ widget.yes ELSE actual \in {"want", "near"}

\* After an error the next try is of the same layer, or of the next one: at once if the
\* message reads like an element that is not found or not visible.  The DOM's own
\* 'element_not_found' does not: the words are looked for with blanks.
NextTry(tried, fast) ==
  IF tried.tries < MaxLayerTries /\ ~fast THEN [tried EXCEPT !.pc = "try"]
  ELSE IF tried.layer < Len(LayerOrder) THEN [tried EXCEPT !.pc = "try", !.layer = @ + 1, !.tries = 0]
  ELSE [tried EXCEPT !.pc = "failed"]

AfterTry(cost) == [task EXCEPT !.tries = @ + 1, !.cost = @ + cost]
Reviewed(tried) ==
  /\ held' = tried.held
  /\ task' = IF tried.ok THEN [AfterTry(tried.cost) EXCEPT !.pc = "review"]
                         ELSE NextTry(AfterTry(tried.cost), tried.fast)
  /\ UNCHANGED <<widget, found>>

TryDom ==
  /\ task.pc = "try" /\ LayerOrder[task.layer] = "dom"
  /\ \E f \in FillByDom : Reviewed([ok |-> f.ok, held |-> f.held, cost |-> 0, fast |-> FALSE])

\* The DOM once more, for free; an error asks the agent.
TryStagehand ==
  /\ task.pc = "try" /\ LayerOrder[task.layer] = "stagehand"
  /\ \/ \E f \in FillByDom : f.ok /\ Reviewed([ok |-> TRUE, held |-> f.held, cost |-> 0, fast |-> FALSE])
     \/ /\ \E f \in FillByDom : ~f.ok
        /\ \E f \in FillByAgent, fast \in BOOLEAN :
             Reviewed([ok |-> f.ok, held |-> f.held, cost |-> 1, fast |-> fast])

\* Clicks and types where the label is; whether that was the field nobody asks.
TryMagnitude ==
  /\ task.pc = "try" /\ LayerOrder[task.layer] = "magnitude"
  /\ \E f \in FillByAgent, fast \in BOOLEAN :
       Reviewed([ok |-> f.ok, held |-> f.held, cost |-> 1, fast |-> fast])

\* An error while reading reads as nothing.
ReviewField ==
  /\ task.pc = "review"
  /\ \/ FuzzyMatch(ReadBack) /\ task' = [task EXCEPT !.pc = "verified"]
     \/ task' = NextTry(task, FALSE)
  /\ UNCHANGED <<widget, held, found>>

-----------------------------------------------------------------------------
FieldInit ==
  /\ widget \in {w \in Widgets : (w.kind = "selectOne" => w.prompt) /\ (w.prompt => w.kind \in Lists \cup {"box"})
                                 /\ (w.kind # "box" => w.yes)}
  /\ held \in Values
  /\ found = [read |-> "none", was |-> "none"]
  /\ task = [pc |-> "scan", layer |-> 1, tries |-> 0, cost |-> 0]

FieldNext ==
  \/ ScanField \/ MatchField \/ Wait4Turn
  \/ TryDom \/ TryStagehand \/ TryMagnitude \/ ReviewField

FieldSpec == FieldInit /\ [][FieldNext]_fieldV3Vars

-----------------------------------------------------------------------------
\* The variables have their types.
FieldTypeOK ==
  /\ widget \in Widgets /\ held \in Values
  /\ found.read \in {"none", "want", "near", "other"} /\ found.was \in {"none", "want", "near", "other"}
  /\ task.pc \in {"scan", "match", "planned", "try", "review",
                 "unseen", "unmatched", "taken", "verified", "failed"}
  /\ task.layer \in 1..Len(LayerOrder) /\ task.tries \in 0..MaxLayerTries
  /\ task.cost \in 0..(2 * MaxLayerTries)

\* A field that counts as verified holds the answer, or one that contains it or is
\* contained in it, whatever the layers before did to it.
VerifiedIsThere == task.pc = "verified" => held \in {"want", "near"}

\* The matcher takes what is unanswered and leaves what is answered, with these
\* exceptions: radios and boxes without a value are taken whatever they hold, and lists
\* that show a prompt and boxes with a value are left whatever they do not hold.
OpenFieldsAreMatched ==
  /\ task.pc \in {"planned", "try", "review", "verified", "failed"} /\ found.was # "none"
       => widget.kind \in {"radio", "ariaRadio"} \/ (widget.kind = "box" /\ ~widget.prompt)
  /\ task.pc = "taken" /\ found.was = "none" => widget.kind \in Lists \cup {"box"} /\ widget.prompt

\* The DOM layer, which looks before it fills, leaves a right answer as it is, with the
\* exceptions of lists that it has to open and of dates, which it types over.
FreeLayerKeeps ==
  [][TryDom /\ held = "want" /\ widget.kind \notin {"combo", "selectOne", "date"} => held' = "want"]_fieldV3Vars
=============================================================================
