------------------------------ MODULE PageTurn ------------------------------
(***************************************************************************)
(* How the v3 engine leaves a page (engine/v3/SectionOrchestrator.ts): it  *)
(* looks whether the page is the last one, clicks Submit or Next, and      *)
(* polls for a sign that the click had an effect, while the site goes its  *)
(* own way: it disables buttons while it validates, shows a skeleton while *)
(* it loads, opens and closes groups of fields, changes the hash of its    *)
(* URL, and turns the page in its own time.                                *)
(***************************************************************************)
EXTENDS Integers, FiniteSets

CONSTANTS
  Screens,        (* what the site may show, see ScreensAssumption          *)
  MaxTurnPolls    (* 10: of 500 ms each                                     *)

Buttons == {"none", "off", "on"}    \* not there, disabled, enabled

\* The form's page that is really there, whether its URL is the one before the click,
\* the names of the fields to be seen, and the buttons: `next' by its text, `foot' by
\* Workday's automation id, with a text that is none of those.
ASSUME ScreensAssumption ==
  \A s \in Screens : /\ s.page \in {"this", "another"} /\ s.sameUrl \in BOOLEAN
                     /\ IsFiniteSet(s.fields)
                     /\ {s.next, s.foot, s.submit} \subseteq Buttons

ASSUME PollsAssumption == MaxTurnPolls \in Nat \ {0}

VARIABLES
  screen,         (* what the site shows                                    *)
  turn,           (* the engine: where it is, how the turn ended            *)
  before,         (* the fields, read before the click                      *)
  changed,        (* lastChangedFingerprint                                 *)
  stableCount,    (* lastStableCount                                        *)
  view,           (* history: what the poll before this one read; it is old *)
                  (* if a poll has failed to read the page since            *)
  torn,           (* history: the document was replaced under a poll, which *)
                  (* the engine takes for a turn                            *)
  observed        (* the buttons that the last observation showed            *)

pollVars == <<before, changed, stableCount, view, torn>>
turnVars == <<screen, turn, pollVars, observed>>

Unread == [read |-> FALSE, fields |-> {}]
NamesIn(s) == [read |-> TRUE, fields |-> s.fields]
\* getPageFingerprint: the names of the visible fields, or nothing if the page cannot be read.
Fingerprints(s) == {NamesIn(s), Unread}
NoCount == -1
NoView == [page |-> "this", fingerprint |-> Unread, old |-> FALSE]

\* isSignificantFieldTurnover
MostGone(old, new) == 2 * Cardinality(old \ new) > Cardinality(old)
Distance(m, n) == IF m > n THEN m - n ELSE n - m

\* What of an observation counts here; detectLastPage.
Actions(s) == [next |-> s.next, submit |-> s.submit]
IsLast(s) == s.next # "on" /\ s.submit = "on"

-----------------------------------------------------------------------------
\* The site, until the engine has made up its mind.  Only a click turns the page.
SiteMoves ==
  /\ turn.pc # "over"
  /\ screen' \in Screens \ {screen}
  /\ screen.page = "another" => screen'.page = "another"
  /\ screen'.page = "another" => turn.pc = "poll"
  /\ turn.pc # "poll" => screen'.sameUrl
  /\ UNCHANGED <<turn, pollVars, observed>>

Over(how) == turn' = [turn EXCEPT !.pc = "over", !.result = how]

\* Mutant: the observation made before the fills is good enough.
DecideEarly ==
  /\ turn.pc = "filled"
  /\ \E worked \in {"here", "earlier", "nowhere"} :
       /\ observed' = IF worked = "here" THEN Actions(screen) ELSE observed
       /\ turn' = [turn EXCEPT !.pc = "click", !.last = worked # "nowhere" /\ IsLast(observed)]
  /\ UNCHANGED <<screen, pollVars>>

\* The end of processPage: a page where fields were verified is observed again; it can be
\* the last one if some were, here or on an earlier page.
Decide ==
  /\ turn.pc = "filled"
  /\ \E worked \in {"here", "earlier", "nowhere"} :
       /\ observed' = IF worked = "here" THEN Actions(screen) ELSE observed
       /\ turn' = [turn EXCEPT !.pc = "click", !.last = worked # "nowhere" /\ IsLast(observed')]
  /\ UNCHANGED <<screen, pollVars>>

\* The agent, told to click "Next" or "Submit", says that it did, or did not (there may be
\* none); a browser that is gone ends the run.
Clicked(inDom) ==
  \/ turn' = [turn EXCEPT !.pc = "poll"]
  \/ ~inDom /\ Over("not clicked")
  \/ Over("error")

\* navigateNext, up to its polls: the agent, else the button in the DOM.
ClickOn ==
  /\ turn.pc = "click" /\ ~turn.last
  /\ before' \in Fingerprints(screen)
  /\ Clicked("on" \in {screen.next, screen.foot})
  /\ UNCHANGED <<screen, changed, stableCount, view, torn, observed>>

\* clickSubmitButton, up to its polls: the button in the DOM, else the agent.
ClickLast ==
  /\ turn.pc = "click" /\ turn.last
  /\ IF screen.submit = "on" THEN turn' = [turn EXCEPT !.pc = "poll"]
     ELSE Clicked(FALSE)
  /\ UNCHANGED <<screen, pollVars, observed>>

-----------------------------------------------------------------------------
KeepPolling ==
  IF turn.polls + 1 < MaxTurnPolls THEN turn' = [turn EXCEPT !.polls = @ + 1]
  ELSE Over("not turned")

\* A poll that cannot read the page: the browser is gone; the document was replaced, by the
\* next page's or by this form's own, reloaded or posted back; or something else, after
\* which what was read before still counts.
PollFails ==
  /\ turn.pc = "poll" /\ screen.sameUrl
  /\ \/ Over("turned") /\ torn' = TRUE
     \/ (Over("error") \/ KeepPolling) /\ UNCHANGED torn
  /\ view' = [view EXCEPT !.old = TRUE]
  /\ UNCHANGED <<screen, before, changed, stableCount, observed>>

\* Mutant: a submit button that is disabled is gone.
PollTellsOff ==
  /\ turn.pc = "poll"
  /\ ~screen.sameUrl \/ IF turn.last THEN screen.submit # "on" ELSE screen.next # "on"
  /\ Over("turned")
  /\ UNCHANGED <<screen, pollVars, observed>>

\* The URL is another one, or the button is gone: for Next, disabled is gone too.
PollTells ==
  /\ turn.pc = "poll"
  /\ ~screen.sameUrl \/ IF turn.last THEN screen.submit = "none" ELSE screen.next # "on"
  /\ Over("turned")
  /\ UNCHANGED <<screen, pollVars, observed>>

PollSubmit ==
  /\ turn.pc = "poll" /\ turn.last /\ screen.sameUrl /\ screen.submit # "none"
  /\ KeepPolling
  /\ UNCHANGED <<screen, pollVars, observed>>

\* The fields are others than before the click, in a poll whose other signs say nothing.
Turnover(now) == MostGone(before.fields, now.fields)
FarFrom(now) == Distance(Cardinality(now.fields), Cardinality(before.fields)) > 2

\* Mutant: one look at the fields is enough.
PollChangedOnce(now) ==
  /\ IF Turnover(now) THEN Over("turned") ELSE KeepPolling
  /\ changed' = now /\ stableCount' = NoCount

\* Mutant: the fields of the poll before are forgotten.
PollChangedAnew(now) ==
  /\ changed' = now
  /\ IF Turnover(now) /\ FarFrom(now)
     THEN /\ stableCount' = Cardinality(now.fields)
          /\ IF stableCount = Cardinality(now.fields) THEN Over("turned") ELSE KeepPolling
     ELSE stableCount' = NoCount /\ KeepPolling

\* The same other fields twice, or twice as many: most of those before must be gone.
PollChanged(now) ==
  IF Turnover(now) /\ changed = now
  THEN Over("turned") /\ UNCHANGED <<changed, stableCount>>
  ELSE /\ changed' = now
       /\ IF Turnover(now) /\ FarFrom(now)
          THEN /\ stableCount' = Cardinality(now.fields)
               /\ IF stableCount = Cardinality(now.fields) THEN Over("turned") ELSE KeepPolling
          ELSE stableCount' = NoCount /\ KeepPolling

PollFields ==
  /\ turn.pc = "poll" /\ ~turn.last /\ screen.sameUrl /\ screen.next = "on"
  /\ \E now \in Fingerprints(screen) :
       /\ IF before.read /\ now.read /\ now # before THEN PollChanged(now)
          ELSE KeepPolling /\ changed' = Unread /\ stableCount' = NoCount
       /\ view' = IF turn'.pc = "over" THEN [view EXCEPT !.old = @ \/ ~now.read]
                  ELSE [page |-> screen.page, fingerprint |-> now, old |-> FALSE]
  /\ UNCHANGED <<screen, before, torn, observed>>

-----------------------------------------------------------------------------
TurnInit ==
  /\ screen \in {s \in Screens : s.page = "this" /\ s.sameUrl}
  /\ observed = Actions(screen)
  /\ turn = [pc |-> "filled", last |-> FALSE, polls |-> 0, result |-> "none"]
  /\ before = Unread /\ changed = Unread /\ stableCount = NoCount /\ view = NoView
  /\ torn = FALSE

LeavePage ==
  \/ Decide \/ ClickOn \/ ClickLast
  \/ PollFails \/ PollTells \/ PollSubmit \/ PollFields

TurnNext == LeavePage \/ SiteMoves

TurnSpec == TurnInit /\ [][TurnNext]_turnVars

-----------------------------------------------------------------------------
TurnTypeOK ==
  /\ screen \in Screens /\ observed \in [next : Buttons, submit : Buttons]
  /\ turn \in [pc : {"filled", "click", "poll", "over"}, last : BOOLEAN, polls : 0..(MaxTurnPolls - 1),
               result : {"none", "not clicked", "error", "turned", "not turned"}]
  /\ \A r \in {before, changed, view.fingerprint} : r.read \in BOOLEAN /\ IsFiniteSet(r.fields)
  /\ stableCount \in {NoCount} \cup Nat /\ torn \in BOOLEAN

Shown == turn.pc = "over" /\ screen.sameUrl

\* A page that is still there is taken for turned only if its Next button was away or
\* disabled for a moment, or its document was replaced under a poll (by the same form,
\* posted back with what the server found wrong: the engine goes on as if it were the next
\* page), or most of its fields were away in two polls on end: a group that opens or
\* closes, and a skeleton shown for less than two polls, deceive nobody.
TurnIsReal ==
  Shown /\ turn.result = "turned" /\ ~turn.last /\ screen.page = "this" /\ screen.next = "on"
    => \/ torn
       \/ /\ before.read /\ view.fingerprint.read
          /\ \A fields \in {screen.fields, view.fingerprint.fields} : MostGone(before.fields, fields)

\* A turned page that has a Next button, too, is missed only if it could not be read or
\* was still changing, or if half of the fields there were before are there again.
TurnIsNoticed ==
  Shown /\ turn.result = "not turned" /\ ~turn.last
  /\ view = [page |-> "another", fingerprint |-> NamesIn(screen), old |-> FALSE]
    => ~before.read \/ ~MostGone(before.fields, screen.fields)

\* An application counts as submitted only if its button is gone, its URL is another one, or
\* its document was replaced, be it by the same form, posted back under a poll; a button
\* that the site disabled while it validates is no proof.
SubmissionIsReal ==
  Shown /\ turn.result = "turned" /\ turn.last => torn \/ screen.submit = "none"

\* Submit is clicked where Next could be, only if Next came up after the last observation.
LastIsLast ==
  turn.pc = "poll" /\ turn.last => observed.next # "on"
=============================================================================
