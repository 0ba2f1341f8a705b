------------------------------ MODULE ScanFill ------------------------------
(***************************************************************************)
(* One field of a generic page, as platforms/genericConfig.ts scans and    *)
(* fills it: what collectVisibleFields() takes for its value, by the kind  *)
(* of element, and what fillScannedField() makes of it, which trusts that  *)
(* scan.  fillPage() of smartApplyHandler.ts does so before and after the  *)
(* LLM's walk, which has a scan of its own, and again for the next scan.   *)
(* A value is one of the options; a text has one too, the answer.  An      *)
(* input for numbers is scanned and filled as a text.  The element is the  *)
(* one that the scan's selector finds (see FieldScan).                     *)
(***************************************************************************)
EXTENDS Naturals, FiniteSets

CONSTANTS
  OptionCount,     (* bound: options of a field               *)
  MaxScans         (* bound: scans of the page (MAX_DEPTH)    *)

ASSUME ScanFillAssumption == OptionCount \in Nat \ {0} /\ MaxScans \in Nat \ {0}

VARIABLES
  element,         (* the field's element on the page                          *)
  chosen,          (* its value: an option, nothing, or a text that is none    *)
  record,          (* what the scan has of it                                  *)
  stage,           (* of fillPage()                                            *)
  scans,
  own              (* history: the value is what fillScannedField() has left,  *)
                   (* and said it had filled                                   *)

scanFillVars == <<element, chosen, record, stage, scans, own>>

Options == 1..OptionCount
NoValue == 0
Leftover == OptionCount + 1    \* A search text for which no option was taken.

Texts == {"text", "number"}
Plain == {"checkbox", "date", "file", "upload_button", "contenteditable"}
Dropdowns == {"listbox", "combobox"}

\* at: the value that the matching takes for the answer, 0 if none;
\* prompt: empty, it shows nothing, its label or a usual prompt (a select: as its first entry);
\* telling: with a value, it shows neither its label nor the words of a prompt;
\* elsewhere: another list of the page has an option that fits;
\* follows: its value follows the keyboard.
ElementsOf(kinds, ats, prompts, tellings, either) ==
  [kind : kinds, at : ats, prompt : prompts, telling : tellings, elsewhere : either, follows : either]

Elements ==
  LET ats == {0} \cup Options IN
  ElementsOf({"text", "file", "upload_button", "contenteditable"}, {1}, {TRUE}, {TRUE}, {FALSE})
  \cup ElementsOf({"checkbox", "date", "number"}, {0, 1}, {TRUE}, {TRUE}, {FALSE})
  \cup ElementsOf({"radio", "ariaGroup", "ariaSingle"}, ats, {TRUE}, {TRUE}, {FALSE})
  \cup ElementsOf({"select"}, ats, BOOLEAN, {TRUE}, {FALSE})
  \cup ElementsOf({"styled"}, {1}, BOOLEAN, BOOLEAN, {FALSE})
  \cup ElementsOf(Dropdowns, ats, BOOLEAN, BOOLEAN, BOOLEAN)

\* A text and what has no list takes any text as an answer, or has none.
Possible(e) ==
  CASE e.kind \in Texts \cup Plain -> {NoValue, 1}
    [] e.kind = "select" /\ ~e.prompt -> Options
    [] OTHER -> {NoValue} \cup Options

-----------------------------------------------------------------------------
\* Is it open, or does it have a value?
ByValue == IF chosen = NoValue THEN "open" ELSE "full"

ReadText == ByValue
\* Checkboxes, dates, files, upload buttons and editable elements.
ReadPlain == ByValue

\* The first entry, whatever it is, counts as nothing.
ReadSelect == IF chosen = NoValue \/ (~element.prompt /\ chosen = 1) THEN "open" ELSE "full"

\* By the text shown: of a list that searches, by the text in its input.
ReadDropdown ==
  CASE chosen = NoValue -> IF element.prompt THEN "open" ELSE "full"
    [] chosen # NoValue /\ element.kind = "combobox" -> "full"
    [] OTHER -> IF element.telling THEN "full" ELSE "open"

\* The same for one that is known by its arrow only.
ReadStyled ==
  IF chosen = NoValue THEN IF element.prompt THEN "open" ELSE "full"
                      ELSE IF element.telling THEN "full" ELSE "open"

\* Of the radios of that name the scan has those that the viewport shows.
ReadRadio(seen) == IF chosen \in seen THEN "full" ELSE IF seen = {} THEN "unlisted" ELSE "open"

\* A group has all its radios, on sight or not.
ReadAria == ByValue

Reading(seen) ==
  CASE element.kind \in Texts -> ReadText
    [] element.kind \in Plain -> ReadPlain
    [] element.kind = "select" -> ReadSelect
    [] element.kind \in Dropdowns -> ReadDropdown
    [] element.kind = "styled" -> ReadStyled
    [] element.kind = "radio" -> ReadRadio(seen)
    [] OTHER -> ReadAria

ScanElement ==
  /\ stage = "scan"
  /\ \E seen \in IF element.kind = "radio" THEN SUBSET Options ELSE {Options} :
       record' = [reading |-> Reading(seen), seen |-> seen, filled |-> FALSE]
  /\ stage' = (IF record'.reading = "open" THEN "dom" ELSE "over")
  /\ scans' = scans + 1
  /\ UNCHANGED <<element, chosen, own>>

-----------------------------------------------------------------------------
\* The ways to fill: [ok: what the function returns, to: the value left].
Done(v) == {[ok |-> TRUE, to |-> v]}
Failed == {[ok |-> FALSE, to |-> chosen]}

\* Mutant: if none fits, the first option is taken.
FillSelectAnyhow == Done(IF element.at # 0 THEN element.at ELSE 1)

FillSelect == IF element.at # 0 THEN Done(element.at) ELSE Failed

\* What is there is left alone.  An input for dates or numbers that does not take the
\* answer as it is written stays empty.
FillText == IF chosen = NoValue THEN Done(IF element.at = 0 THEN NoValue ELSE 1) ELSE Failed

\* The answer's place among the radios of the scan, clicked among all of that name.
FillNativeRadio ==
  IF element.at \in record.seen
    THEN Done(Cardinality({o \in record.seen : o <= element.at}))
    ELSE Failed

\* Of radios without a group the scan has the first, and the others are looked for in it.
FillAriaRadio ==
  IF element.kind = "ariaGroup" /\ element.at # 0 THEN Done(element.at) ELSE Failed

\* Whatever the answer is.
FillByClick == IF chosen = NoValue THEN Done(1) ELSE Failed

\* Arrow down, up to 120 times, and whichever option on the page fits.
ArrowScrollToOption(left) ==
  (IF element.at # 0 THEN Done(element.at) ELSE {})
  \cup (IF element.elsewhere THEN {[ok |-> TRUE, to |-> v] : v \in left} ELSE {})
  \cup {[ok |-> FALSE, to |-> v] : v \in left \cup IF element.follows THEN Options ELSE {}}

\* Cleared, the answer typed, and one of the options shown clicked.
FillSearchableDropdown == ArrowScrollToOption({NoValue, Leftover}) \cup Failed

\* Opened, an option clicked, the answer's first letters typed.
FillClickableDropdown == ArrowScrollToOption({chosen})

FillByClickOption ==
  CASE element.kind = "radio" -> FillNativeRadio
    [] element.kind \in {"ariaGroup", "ariaSingle"} -> FillAriaRadio
    [] element.kind = "combobox" -> FillSearchableDropdown
    [] OTHER -> FillClickableDropdown

\* Files, upload buttons, editable elements and styled selects are the LLM's.
FillScannedField ==
  CASE element.kind \in Texts \cup {"date"} -> FillText
    [] element.kind = "select" -> FillSelect
    [] element.kind = "checkbox" -> FillByClick
    [] element.kind \in Dropdowns \cup {"radio", "ariaGroup", "ariaSingle"} -> FillByClickOption
    [] OTHER -> Failed

\* The DOM pass, and the second one behind the walk: a page that is in the way makes any
\* of them fail.
FillField ==
  /\ stage \in {"dom", "cleanup"} /\ ~record.filled
  /\ \E r \in FillScannedField \cup Failed :
       /\ chosen' = r.to
       /\ record' = [record EXCEPT !.filled = r.ok]
       /\ own' = r.ok
  /\ stage' = (IF stage = "dom" THEN "walk" ELSE "advance")
  /\ UNCHANGED <<element, scans>>

\* Its label is no question that has an answer; or it is filled.
NoFill ==
  /\ stage \in {"dom", "cleanup"}
  /\ stage' = (IF stage = "dom" THEN "walk" ELSE "advance")
  /\ UNCHANGED <<element, chosen, record, scans, own>>

-----------------------------------------------------------------------------
\* The walk's own scan: it has native inputs and lists without a value in an input, and
\* single radios that are not chosen, but neither native radios nor checkboxes.
ShownToLlm ==
  CASE element.kind \in Texts \cup {"date", "select", "styled", "combobox", "ariaGroup"} -> chosen = NoValue
    [] element.kind \in {"listbox", "ariaSingle"} -> TRUE
    [] OTHER -> FALSE

\* The LLM may do what it likes; if values changed, what it was shown counts as filled.
LlmActs ==
  /\ stage = "walk" /\ ShownToLlm
  /\ chosen' \in Possible(element) \cup {chosen}
  /\ record' \in {record, [record EXCEPT !.filled = TRUE]}
  /\ own' = (own /\ chosen' = chosen)
  /\ stage' = "cleanup"
  /\ UNCHANGED <<element, scans>>

\* It was not shown this field, or has seen no reason to fill it.
LlmPasses ==
  /\ stage = "walk"
  /\ stage' = "cleanup"
  /\ UNCHANGED <<element, chosen, record, scans, own>>

\* The site refuses the page: another scan.
ScanAgain ==
  /\ stage \in {"advance", "over"} /\ scans < MaxScans
  /\ stage' = "scan"
  /\ UNCHANGED <<element, chosen, record, scans, own>>

-----------------------------------------------------------------------------
ScanFillInit ==
  /\ element \in Elements
  /\ chosen \in Possible(element)
  /\ record = [reading |-> "unlisted", seen |-> {}, filled |-> FALSE]
  /\ stage = "scan" /\ scans = 0 /\ own = FALSE

ScanFillNext ==
  \/ ScanElement \/ FillField \/ NoFill
  \/ LlmActs \/ LlmPasses \/ ScanAgain

ScanFillSpec == ScanFillInit /\ [][ScanFillNext]_scanFillVars

-----------------------------------------------------------------------------
Records == [reading : {"open", "full", "unlisted"}, seen : SUBSET Options, filled : BOOLEAN]

\* The variables have their types.
ScanFillTypeOK ==
  /\ element \in Elements /\ chosen \in 0..Leftover /\ record \in Records
  /\ stage \in {"scan", "dom", "walk", "cleanup", "advance", "over"}
  /\ scans \in 0..MaxScans /\ own \in BOOLEAN

\* A field that is reported as filled is not open in the next scan, to be filled again
\* and to keep the handler at this page, but for a date or a number that was not taken, a
\* list that has another one beside it or shows its value so that it reads as a prompt, a
\* select whose first entry is the answer, and radios that this scan does not see.
FilledIsNotReopened ==
  own /\ stage = "dom" =>
    \/ element.kind \in {"date", "number"} /\ element.at = 0
    \/ element.kind \in Dropdowns /\ (element.elsewhere \/ ~element.telling)
    \/ element.kind = "select" /\ ~element.prompt /\ element.at = 1
    \/ element.kind = "radio" /\ chosen \notin record.seen

Fills == stage \in {"dom", "cleanup"} /\ record'.filled /\ ~record.filled
FailsToFill == stage \in {"dom", "cleanup"} /\ ~record'.filled /\ chosen' # chosen

\* A field that is reported as filled has the answer, except for: a checkbox, which is
\* checked also where the answer is no; a date or a number that its input does not take,
\* which stays empty; a radio group of which the scan did not see the first radios; and a
\* list while another one's options fit.  An attempt that is reported as failed has
\* changed nothing, except for a list that searches, in which the text may stay or its
\* value be gone, and one whose value follows the keyboard.
FillTellsTheTruth ==
  [][ /\ Fills => \/ chosen' = element.at
                  \/ element.kind \in {"checkbox", "date", "number"} /\ element.at = 0
                  \/ element.kind = "radio" /\ \E o \in Options \ record.seen : o < element.at
                  \/ element.elsewhere
      /\ FailsToFill => element.kind = "combobox" \/ element.follows]_scanFillVars
=============================================================================
