----------------------------- MODULE RateLimit ------------------------------
(***************************************************************************)
(* The sliding windows of security/rateLimit.ts, for one user: the keys of *)
(* two users have nothing in common.  The middleware takes no await        *)
(* between the body's JSON and its answer, so a request is one step.       *)
(* Headers and messages are left out.                                      *)
(***************************************************************************)
EXTENDS Integers, FiniteSets

CONSTANTS
  Tiers, Platforms,
  Unlimited,      (* the tiers whose config says -1                           *)
  Limit,          (* RATE_LIMITS of the other tiers, and of the platforms     *)
  Length,         (* RATE_LIMITS.windows                                      *)
  MaxTime,        (* bound on the clock                                       *)
  MaxPassed       (* bound: an unknown platform is named while fewer passed   *)

Windows == {"hourly", "daily"}
User == "user"

ASSUME RateAssumption ==
  /\ User \notin Platforms /\ MaxTime \in Nat /\ MaxPassed \in Nat
  /\ Limit \in [(Tiers \ Unlimited) \cup Platforms -> [Windows -> Nat]]
  /\ Length \in [Windows -> Nat] /\ Length["hourly"] <= Length["daily"]

VARIABLES
  now,
  store,      (* the entries kept, by key                                  *)
  passed,     (* history: the requests not refused, by subject: let        *)
              (* through, or ended by the error of a platform not known    *)
  answer,     (* the last request's                                        *)
  slipped     (* history: a record was taken back that was not the request's *)

rateVars == <<now, store, passed, answer, slipped>>

Subjects == {User} \cup Platforms
Keys == Subjects \X Windows
KeysOf(s) == {s} \X Windows

\* A time stamp, and which of its subject's requests has left it: they are in that order.
Entries == [at : 0..MaxTime, nr : Nat]
Entry(s) == [at |-> now, nr |-> Cardinality(passed[s]) + 1]

InWindow(entries, w) == {e \in entries : e.at > now - Length[w]}
PeekCount(s, w) == Cardinality(InWindow(store[<<s, w>>], w))

Record(st, s) ==
  [k \in Keys |-> IF k \in KeysOf(s) THEN InWindow(st[k], k[2]) \cup {Entry(s)} ELSE st[k]]
\* All but the last of them.
Pop(entries) == {e \in entries : \E l \in entries : e.nr < l.nr}
Rollback(st, s) == [k \in Keys |-> IF k \in KeysOf(s) THEN Pop(st[k]) ELSE st[k]]

\* Mutant: one more than the limit.
AllowsOneMore(of, s) == \A w \in Windows : PeekCount(s, w) <= Limit[of][w]

\* What of, the tier or the platform, allows s.
Allows(of, s) == \A w \in Windows : PeekCount(s, w) < Limit[of][w]

-----------------------------------------------------------------------------
\* What a tier counts.
Counted(tier) == IF tier \in Unlimited THEN {} ELSE {User}
RecordTier(tier) == IF tier \in Unlimited THEN store ELSE Record(store, User)
Pass(subjects) ==
  passed' = [s \in Subjects |-> IF s \in subjects THEN passed[s] \cup {Entry(s)} ELSE passed[s]]

TierRefuses(tier, platform) ==
  /\ tier \notin Unlimited /\ ~Allows(tier, User)
  /\ answer' = [tier |-> tier, platform |-> platform, ok |-> FALSE]
  /\ UNCHANGED <<now, store, passed, slipped>>

\* Mutant: the record of the tier is not taken back.
PlatformRefusesKeeping(tier, platform) ==
  /\ tier \notin Unlimited => Allows(tier, User)
  /\ ~Allows(platform, platform)
  /\ store' = RecordTier(tier)
  /\ answer' = [tier |-> tier, platform |-> platform, ok |-> FALSE]
  /\ UNCHANGED <<now, passed, slipped>>

\* rollbackUserTier() pops whatever the tier has, or has not, recorded.
PlatformRefuses(tier, platform) ==
  /\ tier \notin Unlimited => Allows(tier, User)
  /\ ~Allows(platform, platform)
  /\ store' = Rollback(RecordTier(tier), User)
  /\ slipped' = (slipped \/ (tier \in Unlimited /\ \E k \in KeysOf(User) : store[k] # {}))
  /\ answer' = [tier |-> tier, platform |-> platform, ok |-> FALSE]
  /\ UNCHANGED <<now, passed>>

Accept(tier, platform) ==
  /\ tier \notin Unlimited => Allows(tier, User)
  /\ Allows(platform, platform)
  /\ store' = Record(RecordTier(tier), platform)
  /\ Pass({platform} \cup Counted(tier))
  /\ answer' = [tier |-> tier, platform |-> platform, ok |-> TRUE]
  /\ UNCHANGED <<now, slipped>>

\* checkPlatformLimit() throws for a platform without a config, before the body is
\* validated: a 500, and the record of the tier stays.  (Without a config for the
\* tier nothing is recorded either.)
PlatformUnknown(tier) ==
  /\ Cardinality(passed[User]) < MaxPassed
  /\ tier \notin Unlimited => Allows(tier, User)
  /\ store' = RecordTier(tier)
  /\ Pass(Counted(tier))
  /\ answer' = [tier |-> tier, platform |-> "none", ok |-> FALSE]
  /\ UNCHANGED <<now, slipped>>

\* Every key is pruned by the longer window.
PruneExpiredEntries ==
  /\ store' = [k \in Keys |-> InWindow(store[k], "daily")]
  /\ UNCHANGED <<now, passed, answer, slipped>>

Tick ==
  /\ now < MaxTime
  /\ now' = now + 1
  /\ UNCHANGED <<store, passed, answer, slipped>>

-----------------------------------------------------------------------------
RateInit ==
  /\ now = 0
  /\ store = [k \in Keys |-> {}]
  /\ passed = [s \in Subjects |-> {}]
  /\ answer = [tier |-> "none", platform |-> "none", ok |-> FALSE]
  /\ slipped = FALSE

RateNext ==
  \/ \E t \in Tiers, p \in Platforms :
       TierRefuses(t, p) \/ PlatformRefuses(t, p) \/ Accept(t, p)
  \/ \E t \in Tiers : PlatformUnknown(t)
  \/ PruneExpiredEntries
  \/ Tick

RateSpec == RateInit /\ [][RateNext]_rateVars

-----------------------------------------------------------------------------
RateTypeOK ==
  /\ now \in 0..MaxTime
  /\ store \in [Keys -> SUBSET Entries]
  /\ passed \in [Subjects -> SUBSET Entries]
  /\ answer \in [tier : Tiers \cup {"none"}, platform : Platforms \cup {"none"}, ok : BOOLEAN]
  /\ slipped \in BOOLEAN

Passed(s, w) == Cardinality(InWindow(passed[s], w))

\* In every window that slides over the requests that passed there are no more than
\* the last one's tier and platform allow, at the edges of the windows and whatever
\* was refused or failed in between.  A refusal of an unlimited tier by the platform
\* takes a record of an earlier request back (slipped): then only the platform's
\* limit holds.
LimitsHold ==
  answer.ok => \A w \in Windows :
    /\ Passed(answer.platform, w) <= Limit[answer.platform][w]
    /\ slipped \/ answer.tier \in Unlimited \/ Passed(User, w) <= Limit[answer.tier][w]

\* Nobody is refused for what was refused: the windows never count more requests
\* than were let through, or named a platform that is not known, for which the tier
\* is charged and no job made.
OnlyPassedCounts ==
  \A s \in Subjects, w \in Windows : PeekCount(s, w) <= Passed(s, w)
=============================================================================
