------------------------------ MODULE FieldScan ------------------------------
(***************************************************************************)
(* scanPageFields() of platforms/genericConfig.ts: the page is looked at   *)
(* viewport by viewport, each overlapping the last; an element without an  *)
(* id or a test mark is tagged with a running number, and elements whose   *)
(* selector has been seen are taken for seen.  The fields are the numbers  *)
(* of their order in the document.                                         *)
(***************************************************************************)
EXTENDS Naturals, FiniteSets

CONSTANTS
  FieldCount,     (* bound: form fields of a page *)
  KindCount,      (* bound: kinds of fields; each is collected in a loop of its own *)
  MaxViewports    (* maxSteps of scanPageFields() *)

ASSUME FieldScanAssumption ==
  FieldCount \in Nat \ {0} /\ KindCount \in Nat \ {0} /\ MaxViewports \in Nat

VARIABLES
  layout,         (* the page: see Layouts                                  *)
  viewport,       (* the first and the last field it shows                  *)
  viewports,      (* how many have been collected                           *)
  tag,            (* data-gh-scan-idx of each field                         *)
  nextIdx,
  seenSelectors,
  allFields,      (* fields that the scan has                               *)
  overlapped      (* history: two viewports showed one field                *)

scanVars == <<layout, viewport, viewports, tag, nextIdx, seenSelectors, allFields, overlapped>>

PageFields == 1..FieldCount
NoTag == FieldCount * MaxViewports

\* kind: of each field; ids: those with an id, or with a test mark (data-testid,
\* data-automation-id) of their own; repeats: those that have one test mark in common, as
\* the rows of a list have.
Layouts ==
  {l \in [kind : [PageFields -> 1..KindCount], ids : SUBSET PageFields, repeats : SUBSET PageFields] :
     /\ l.ids \cap l.repeats = {}
     /\ \A f \in l.repeats : \E g \in l.repeats : g # f}

Marked == layout.ids \cup layout.repeats

\* Kind by kind, in document order.
IsBefore(g, f) ==
  layout.kind[g] < layout.kind[f] \/ (layout.kind[g] = layout.kind[f] /\ g < f)
PlaceAmong(f, fields) == Cardinality({g \in fields : IsBefore(g, f)})

BuildSelector(f, tags) ==
  CASE f \in layout.ids -> [by |-> "id", is |-> f]
    [] f \in layout.repeats -> [by |-> "mark", is |-> 0]
    [] OTHER -> [by |-> "tag", is |-> tags[f]]

\* Mutant: every viewport counts from zero.
TaggedAfresh(fields) ==
  [f \in PageFields |->
     IF f \in fields \ Marked /\ tag[f] = NoTag THEN PlaceAmong(f, fields) ELSE tag[f]]

\* Every element collected takes a number, only a new one is tagged with it.
Tagged(fields) ==
  [f \in PageFields |->
     IF f \in fields \ Marked /\ tag[f] = NoTag THEN nextIdx + PlaceAmong(f, fields)
                                                    ELSE tag[f]]

\* Scrolled down by less than a viewport: the next begins with what the last one showed
\* at its end, or after it.
Below(first, last) ==
  /\ first \in viewport.first..viewport.last + 1 /\ last \in viewport.last..FieldCount
  /\ first <= last /\ viewport # [first |-> first, last |-> last]

CollectVisibleFields ==
  \E first, last \in PageFields :
    /\ viewports < MaxViewports /\ Below(first, last)
    /\ tag' = Tagged(first..last)
    /\ LET selector(f) == BuildSelector(f, tag')
           isNew(f) == /\ selector(f) \notin seenSelectors
                       /\ \A g \in first..last : IsBefore(g, f) => selector(g) # selector(f)
           new == {f \in first..last : isNew(f)} IN
         /\ allFields' = allFields \cup new
         /\ nextIdx' = nextIdx + Cardinality(new)
         /\ seenSelectors' = seenSelectors \cup {selector(f) : f \in first..last}
    /\ overlapped' = (overlapped \/ first <= viewport.last)
    /\ viewport' = [first |-> first, last |-> last]
    /\ viewports' = viewports + 1
    /\ UNCHANGED layout

\* Stale tags of an earlier scan are removed first.
ScanInit ==
  /\ layout \in Layouts
  /\ viewport = [first |-> 1, last |-> 0] /\ viewports = 0
  /\ tag = [f \in PageFields |-> NoTag]
  /\ nextIdx = 0 /\ seenSelectors = {} /\ allFields = {} /\ overlapped = FALSE

ScanSpec == ScanInit /\ [][CollectVisibleFields]_scanVars

-----------------------------------------------------------------------------
\* The scan's variables have their types.
ScanTypeOK ==
  /\ layout \in Layouts
  /\ viewport \in [first : PageFields, last : 0..FieldCount]
  /\ viewports \in 0..MaxViewports /\ nextIdx \in 0..FieldCount
  /\ tag \in [PageFields -> 0..NoTag]
  /\ allFields \subseteq PageFields /\ overlapped \in BOOLEAN

\* Fields that a selector was built for.
Addressed == {f \in PageFields : f <= viewport.last /\ (f \in Marked \/ tag[f] # NoTag)}

\* The running number counts new fields only, the numbers given count all that a
\* viewport shows, so two fields may come by one selector, and one of them be lost to
\* the scan.  Other than fields that have a test mark in common, that is so only from
\* the third viewport on, after two of them overlapped; and on a page where test marks
\* repeat, whose fields take numbers and are not new, from the second on.
CollidesOnlyLate ==
  (\E f, g \in Addressed :
     f # g /\ ~({f, g} \subseteq layout.repeats) /\ BuildSelector(f, tag) = BuildSelector(g, tag))
    => \/ viewports > 2 /\ overlapped
       \/ viewports > 1 /\ layout.repeats # {}
=============================================================================
