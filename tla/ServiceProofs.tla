--------------------------- MODULE ServiceProofs ----------------------------
(***************************************************************************)
(* What the system is to others: the limits on their requests, the         *)
(* progress it tells, its reports to VALET, the calls of a client, and the *)
(* deploys of an instance.                                                 *)
(***************************************************************************)
EXTENDS RateLimit, Progress, Callbacks, JobClient, Deploy,
        FiniteSetTheorems, SequenceTheorems, TLAPS

-----------------------------------------------------------------------------
(* The limits of the API hold in every window, however many requests come. *)
(* LimitsHold is not inductive: RateInv ties the entries kept to the       *)
(* requests let through, window by window.                                 *)

\* The requests let through are finitely many, and numbered in their order.
PassedAreNumbered ==
  \A s \in Subjects :
    /\ IsFiniteSet(passed[s])
    /\ \A e \in passed[s] : e.nr <= Cardinality(passed[s]) /\ e.at <= now

\* Only what was passed is kept, and what is still in a window is kept there.
KeptIsPassed == \A s \in Subjects, w \in Windows : store[<<s, w>>] \subseteq passed[s]
InWindowIsKept ==
  \A s \in Subjects, w \in Windows :
    (s = User /\ slipped) \/ InWindow(passed[s], w) \subseteq store[<<s, w>>]

RateInv ==
  /\ RateTypeOK /\ PassedAreNumbered /\ KeptIsPassed /\ InWindowIsKept /\ LimitsHold
  /\ answer.ok => answer.platform \in Platforms /\ answer.tier \in Tiers

\* No request has come.
LEMMA RateStart == RateInit => RateInv
<1>. SUFFICES ASSUME RateInit PROVE RateInv
  OBVIOUS
<1>1. /\ now \in 0..MaxTime /\ ~answer.ok /\ slipped = FALSE
      /\ \A s \in Subjects : passed[s] = {}
      /\ \A k \in Keys : store[k] = {}
  BY RateAssumption DEF RateInit
<1>2. RateTypeOK
  <2>1. store \in [Keys -> SUBSET Entries] /\ passed \in [Subjects -> SUBSET Entries]
    BY DEF RateInit
  <2>2. answer \in [tier : Tiers \cup {"none"}, platform : Platforms \cup {"none"}, ok : BOOLEAN]
    BY DEF RateInit
  <2>. QED
    BY <1>1, <2>1, <2>2 DEF RateTypeOK
<1>3. IsFiniteSet({}) /\ Cardinality({}) = 0
  BY FS_EmptySet
<1>4. PassedAreNumbered
  BY <1>1, <1>3 DEF PassedAreNumbered
<1>5. KeptIsPassed /\ InWindowIsKept
  BY <1>1 DEF KeptIsPassed, InWindowIsKept, InWindow, Keys
<1>. QED
  BY <1>1, <1>2, <1>4, <1>5 DEF RateInv, LimitsHold

\* A window of a finite set: how many there are.
LEMMA WindowsAreFinite ==
  ASSUME NEW S, IsFiniteSet(S), NEW T \in SUBSET S
  PROVE  /\ IsFiniteSet(T) /\ Cardinality(S) \in Nat /\ Cardinality(T) \in Nat
         /\ Cardinality(T) <= Cardinality(S)
BY FS_Subset, FS_CardinalityType

\* In a window there are no fewer later, and what one looks back at is less.
LEMMA LaterIsLess ==
  ASSUME RateInv, now' \in 0..MaxTime, now <= now', passed' = passed,
         NEW s \in Subjects, NEW w \in Windows
  PROVE  /\ Passed(s, w) \in Nat /\ Passed(s, w)' \in Nat /\ Passed(s, w)' <= Passed(s, w)
         /\ InWindow(passed[s], w)' \subseteq InWindow(passed[s], w)
<1>1. IsFiniteSet(passed[s]) /\ InWindow(passed[s], w) \subseteq passed[s]
  BY DEF RateInv, PassedAreNumbered, InWindow
<1>2. InWindow(passed[s], w)' \subseteq InWindow(passed[s], w)
  <2>1. \A e \in passed[s] : e.at \in Int
    BY DEF RateInv, RateTypeOK, Entries
  <2>2. now \in Int /\ now' \in Int /\ Length[w] \in Int
    BY RateAssumption DEF RateInv, RateTypeOK
  <2>3. \A t \in Int : t > now' - Length[w] => t > now - Length[w]
    BY <2>2
  <2>. QED
    BY <2>1, <2>3 DEF InWindow
<1>3. IsFiniteSet(InWindow(passed[s], w))
  BY <1>1, WindowsAreFinite
<1>. QED
  BY <1>2, <1>3, WindowsAreFinite DEF Passed

\* What is kept for a key, in its window, is what was passed in that window.
LEMMA WindowIsThePassed ==
  ASSUME RateInv, NEW s \in Subjects, NEW w \in Windows, s # User \/ ~slipped
  PROVE  InWindow(store[<<s, w>>], w) = InWindow(passed[s], w)
BY DEF RateInv, KeptIsPassed, InWindowIsKept, InWindow

\* After a request that is allowed, the limit still holds for whom it counts.
LEMMA OneMoreIsAllowed ==
  ASSUME RateInv, NEW of \in (Tiers \ Unlimited) \cup Platforms, NEW s \in Subjects, Allows(of, s),
         s # User \/ ~slipped, now' = now, passed'[s] = passed[s] \cup {Entry(s)}, NEW w \in Windows
  PROVE  Passed(s, w)' <= Limit[of][w]
<1>1. /\ IsFiniteSet(InWindow(passed[s], w)) /\ Cardinality(InWindow(passed[s], w)) \in Nat
  <2>1. IsFiniteSet(passed[s]) /\ InWindow(passed[s], w) \in SUBSET passed[s]
    BY DEF RateInv, PassedAreNumbered, InWindow
  <2>. QED
    BY <2>1, WindowsAreFinite
<1>2. Cardinality(InWindow(passed[s], w)) < Limit[of][w] /\ Limit[of][w] \in Nat
  BY WindowIsThePassed, RateAssumption DEF Allows, PeekCount
<1>3. InWindow(passed[s], w)' \subseteq InWindow(passed[s], w) \cup {Entry(s)}
  BY DEF InWindow
<1>. DEFINE more == InWindow(passed[s], w) \cup {Entry(s)}
<1>4. IsFiniteSet(more) /\ Cardinality(more) <= Cardinality(InWindow(passed[s], w)) + 1
      /\ Cardinality(more) \in Nat
  <2>1. IsFiniteSet(more)
    BY <1>1, FS_AddElement
  <2>2. \/ Cardinality(more) = Cardinality(InWindow(passed[s], w))
        \/ Cardinality(more) = Cardinality(InWindow(passed[s], w)) + 1
    BY <1>1, FS_AddElement
  <2>. HIDE DEF more
  <2>. QED
    BY <1>1, <2>1, <2>2
<1>. HIDE DEF more
<1>5. /\ Cardinality(InWindow(passed[s], w)') <= Cardinality(more)
      /\ Cardinality(InWindow(passed[s], w)') \in Nat
  BY <1>3, <1>4, WindowsAreFinite DEF more
<1>6. \A a, b, c, d \in Nat : a <= b /\ b <= c + 1 /\ c < d => a <= d
  OBVIOUS
<1>. QED
  BY <1>1, <1>2, <1>4, <1>5, <1>6 DEF Passed

\* The entry of a request is new, and the last of its subject's.
LEMMA EntryIsNew ==
  ASSUME RateInv, NEW s \in Subjects
  PROVE  /\ Entry(s) \in Entries /\ Entry(s).nr = Cardinality(passed[s]) + 1 /\ Entry(s).at = now
         /\ Cardinality(passed[s]) \in Nat
         /\ \A e \in passed[s] : e.nr \in Nat /\ e.nr < Entry(s).nr /\ Entry(s).nr # e.nr
         /\ IsFiniteSet(passed[s] \cup {Entry(s)})
         /\ Cardinality(passed[s] \cup {Entry(s)}) = Cardinality(passed[s]) + 1
<1>1. IsFiniteSet(passed[s]) /\ Cardinality(passed[s]) \in Nat
  BY FS_CardinalityType DEF RateInv, PassedAreNumbered
<1>2. PICK n \in Nat : n = Cardinality(passed[s]) + 1
  BY <1>1
<1>3. Entry(s) = [at |-> now, nr |-> n] /\ now \in 0..MaxTime
  BY <1>2 DEF Entry, RateInv, RateTypeOK
<1>4. Entry(s) \in Entries /\ Entry(s).nr = n /\ Entry(s).at = now
  BY <1>3 DEF Entries
<1>5. \A e \in passed[s] : e.nr \in Nat /\ e.nr <= Cardinality(passed[s])
  BY DEF RateInv, RateTypeOK, PassedAreNumbered, Entries
<1>6. \A e \in passed[s] : e.nr < n /\ n # e.nr
  BY <1>1, <1>2, <1>5
<1>7. Entry(s) \notin passed[s]
  BY <1>4, <1>6
<1>8. /\ IsFiniteSet(passed[s] \cup {Entry(s)})
      /\ Cardinality(passed[s] \cup {Entry(s)}) = Cardinality(passed[s]) + 1
  BY <1>1, <1>7, FS_AddElement
<1>. QED
  BY <1>1, <1>2, <1>4, <1>5, <1>6, <1>8

\* A subject and a window are a key, of that subject only.
LEMMA KeysAre ==
  ASSUME NEW s \in Subjects, NEW w \in Windows
  PROVE  /\ <<s, w>> \in Keys /\ <<s, w>>[2] = w
         /\ \A x : <<s, w>> \in KeysOf(x) <=> s = x
BY DEF Keys, KeysOf

\* What a record leaves of a key.
LEMMA RecordLeaves ==
  ASSUME RateInv, NEW st \in [Keys -> SUBSET Entries], NEW x \in Subjects
  PROVE  /\ Record(st, x) \in [Keys -> SUBSET Entries]
         /\ \A s \in Subjects, w \in Windows :
              Record(st, x)[<<s, w>>] =
                IF s = x THEN InWindow(st[<<s, w>>], w) \cup {Entry(x)} ELSE st[<<s, w>>]
<1>1. Entry(x) \in Entries
  BY EntryIsNew
<1>2. \A k \in Keys : InWindow(st[k], k[2]) \subseteq Entries
  BY DEF InWindow
<1>. QED
  BY <1>1, <1>2, KeysAre DEF Record

\* What a roll-back leaves of a key.
LEMMA RollbackLeaves ==
  ASSUME NEW st \in [Keys -> SUBSET Entries], NEW x
  PROVE  /\ Rollback(st, x) \in [Keys -> SUBSET Entries]
         /\ \A s \in Subjects, w \in Windows :
              Rollback(st, x)[<<s, w>>] = IF s = x THEN Pop(st[<<s, w>>]) ELSE st[<<s, w>>]
<1>1. \A k \in Keys : Pop(st[k]) \subseteq Entries
  BY DEF Pop
<1>. QED
  BY <1>1, KeysAre DEF Rollback

\* The record that the request has just made is the one taken back.
LEMMA OwnIsTakenBack ==
  ASSUME RateInv, NEW s \in Subjects, NEW S \in SUBSET passed[s]
  PROVE  Pop(S \cup {Entry(s)}) = S
<1>m. PICK m \in Nat : m = Cardinality(passed[s])
  BY EntryIsNew
<1>n. PICK n \in Nat : n = Entry(s).nr
  <2>1. Entry(s).nr = m + 1
    BY <1>m, EntryIsNew
  <2>. QED
    BY <2>1
<1>e. \A e \in S : e.nr \in Nat /\ e.nr < n
  BY <1>n, EntryIsNew
<1>1. \A e \in S : e.nr < Entry(s).nr /\ ~(Entry(s).nr < e.nr)
  BY <1>n, <1>e
<1>2. ~(Entry(s).nr < Entry(s).nr)
  BY <1>n
<1>. QED
  BY <1>1, <1>2 DEF Pop

\* A request that passes is recorded in every window of what it counts for.
LEMMA PassingKeeps ==
  ASSUME RateInv, NEW counted \in SUBSET Subjects, Pass(counted), UNCHANGED <<now, slipped>>,
         answer' \in [tier : Tiers \cup {"none"}, platform : Platforms \cup {"none"}, ok : BOOLEAN],
         store' \in [Keys -> SUBSET Entries],
         \A s \in Subjects, w \in Windows :
           store'[<<s, w>>] = IF s \in counted THEN InWindow(store[<<s, w>>], w) \cup {Entry(s)}
                                               ELSE store[<<s, w>>]
  PROVE  /\ RateTypeOK' /\ PassedAreNumbered' /\ KeptIsPassed' /\ InWindowIsKept'
         /\ \A s \in Subjects : passed'[s] = IF s \in counted THEN passed[s] \cup {Entry(s)} ELSE passed[s]
<1>t. RateTypeOK /\ PassedAreNumbered /\ KeptIsPassed /\ InWindowIsKept
  BY DEF RateInv
<1>1. /\ now' = now /\ slipped' = slipped
      /\ answer' \in [tier : Tiers \cup {"none"}, platform : Platforms \cup {"none"}, ok : BOOLEAN]
      /\ passed' = [s \in Subjects |-> IF s \in counted THEN passed[s] \cup {Entry(s)} ELSE passed[s]]
  BY DEF Pass
<1>2. /\ store' \in [Keys -> SUBSET Entries]
      /\ \A s \in Subjects, w \in Windows :
           store'[<<s, w>>] = IF s \in counted THEN InWindow(store[<<s, w>>], w) \cup {Entry(s)}
                                               ELSE store[<<s, w>>]
  OBVIOUS
<1>3. \A s \in Subjects : passed'[s] = IF s \in counted THEN passed[s] \cup {Entry(s)} ELSE passed[s]
  BY <1>1
<1>4. RateTypeOK'
  <2>1. passed' \in [Subjects -> SUBSET Entries]
    <3>1. \A s \in Subjects : Entry(s) \in Entries /\ passed[s] \subseteq Entries
      BY <1>t, EntryIsNew DEF RateTypeOK
    <3>. QED
      BY <1>1, <3>1
  <2>. QED
    BY <1>t, <1>1, <1>2, <2>1 DEF RateTypeOK
<1>5. PassedAreNumbered'
  <2>. SUFFICES ASSUME NEW s \in Subjects
                PROVE  /\ IsFiniteSet(passed'[s])
                       /\ \A e \in passed'[s] : e.nr <= Cardinality(passed'[s]) /\ e.at <= now
    BY <1>1 DEF PassedAreNumbered
  <2>1. CASE s \notin counted
    BY <1>t, <1>3, <2>1 DEF PassedAreNumbered
  <2>2. CASE s \in counted
    <3>1. PICK n \in Nat : n = Cardinality(passed[s])
      BY EntryIsNew
    <3>2. passed'[s] = passed[s] \cup {Entry(s)} /\ IsFiniteSet(passed'[s]) /\ Cardinality(passed'[s]) = n + 1
      BY <1>3, <2>2, <3>1, EntryIsNew
    <3>3. Entry(s).nr = n + 1 /\ Entry(s).at = now /\ now \in Int
      <4>1. now \in Int
        BY <1>t, RateAssumption DEF RateTypeOK
      <4>. QED
        BY <3>1, <4>1, EntryIsNew
    <3>4. \A e \in passed[s] : e.nr \in Nat /\ e.nr <= n /\ e.at <= now
      BY <1>t, <3>1, EntryIsNew DEF PassedAreNumbered
    <3>5. \A k \in Nat : k <= n => k <= n + 1
      OBVIOUS
    <3>6. n + 1 <= n + 1 /\ now <= now
      BY <3>3
    <3>. QED
      BY <3>2, <3>3, <3>4, <3>5, <3>6
  <2>. QED
    BY <2>1, <2>2
<1>6. KeptIsPassed'
  <2>. SUFFICES ASSUME NEW s \in Subjects, NEW w \in Windows
                PROVE  store'[<<s, w>>] \subseteq passed'[s]
    BY DEF KeptIsPassed
  <2>1. store[<<s, w>>] \subseteq passed[s]
    BY <1>t DEF KeptIsPassed
  <2>2. InWindow(store[<<s, w>>], w) \subseteq store[<<s, w>>]
    BY DEF InWindow
  <2>3. CASE s \in counted
    BY <1>2, <1>3, <2>1, <2>2, <2>3
  <2>4. CASE s \notin counted
    BY <1>2, <1>3, <2>1, <2>4
  <2>. QED
    BY <2>3, <2>4
<1>7. InWindowIsKept'
  <2>. SUFFICES ASSUME NEW s \in Subjects, NEW w \in Windows, s # User \/ ~slipped'
                PROVE  InWindow(passed[s], w)' \subseteq store'[<<s, w>>]
    BY DEF InWindowIsKept
  <2>1. InWindow(passed[s], w) \subseteq store[<<s, w>>]
    BY <1>1, <1>t DEF InWindowIsKept
  <2>2. CASE s \in counted
    <3>1. /\ passed'[s] = passed[s] \cup {Entry(s)}
          /\ store'[<<s, w>>] = InWindow(store[<<s, w>>], w) \cup {Entry(s)}
      BY <1>2, <1>3, <2>2
    <3>2. InWindow(passed[s], w)' \subseteq InWindow(passed[s], w) \cup {Entry(s)}
      BY <1>1, <3>1 DEF InWindow
    <3>3. InWindow(passed[s], w) \subseteq InWindow(store[<<s, w>>], w)
      BY <2>1 DEF InWindow
    <3>. QED
      BY <3>1, <3>2, <3>3
  <2>3. CASE s \notin counted
    BY <1>1, <1>2, <1>3, <2>1, <2>3 DEF InWindow
  <2>. QED
    BY <2>2, <2>3
<1>. QED
  BY <1>3, <1>4, <1>5, <1>6, <1>7

\* A request that is let through counts for its platform, and its tier if that has a limit.
LEMMA AcceptKeeps ==
  ASSUME RateInv, NEW tier \in Tiers, NEW platform \in Platforms, Accept(tier, platform)
  PROVE  RateInv'
<1>. DEFINE counted == {platform} \cup Counted(tier)
<1>t. /\ RateTypeOK /\ platform \in Subjects /\ User \in Subjects /\ platform # User
      /\ counted \in SUBSET Subjects
  BY RateAssumption DEF RateInv, Subjects, Counted
<1>1. /\ UNCHANGED <<now, slipped>> /\ Pass(counted)
      /\ answer' = [tier |-> tier, platform |-> platform, ok |-> TRUE]
  BY DEF Accept
<1>. HIDE DEF counted
<1>2. /\ store' \in [Keys -> SUBSET Entries]
      /\ \A s \in Subjects, w \in Windows :
           store'[<<s, w>>] = IF s \in counted THEN InWindow(store[<<s, w>>], w) \cup {Entry(s)}
                                               ELSE store[<<s, w>>]
  <2>1. store \in [Keys -> SUBSET Entries]
    BY <1>t DEF RateTypeOK
  <2>2. CASE tier \in Unlimited
    <3>1. store' = Record(store, platform) /\ counted = {platform}
      BY <2>2 DEF Accept, RecordTier, Counted, counted
    <3>2. /\ Record(store, platform) \in [Keys -> SUBSET Entries]
          /\ \A s \in Subjects, w \in Windows :
               Record(store, platform)[<<s, w>>] =
                 IF s = platform THEN InWindow(store[<<s, w>>], w) \cup {Entry(platform)} ELSE store[<<s, w>>]
      BY <1>t, <2>1, RecordLeaves
    <3>. QED
      BY <3>1, <3>2
  <2>3. CASE tier \notin Unlimited
    <3>1. store' = Record(Record(store, User), platform) /\ counted = {platform, User}
      BY <2>3 DEF Accept, RecordTier, Counted, counted
    <3>2. PICK st \in [Keys -> SUBSET Entries] : st = Record(store, User)
      BY <1>t, <2>1, RecordLeaves
    <3>3. \A s \in Subjects, w \in Windows :
            Record(store, User)[<<s, w>>] =
              IF s = User THEN InWindow(store[<<s, w>>], w) \cup {Entry(User)} ELSE store[<<s, w>>]
      BY <1>t, <2>1, RecordLeaves
    <3>4. /\ Record(st, platform) \in [Keys -> SUBSET Entries]
          /\ \A s \in Subjects, w \in Windows :
               Record(st, platform)[<<s, w>>] =
                 IF s = platform THEN InWindow(st[<<s, w>>], w) \cup {Entry(platform)} ELSE st[<<s, w>>]
      BY <1>t, RecordLeaves
    <3>. QED
      BY <1>t, <3>1, <3>2, <3>3, <3>4
  <2>. QED
    BY <2>2, <2>3
<1>3. /\ RateTypeOK' /\ PassedAreNumbered' /\ KeptIsPassed' /\ InWindowIsKept'
      /\ \A s \in Subjects : passed'[s] = IF s \in counted THEN passed[s] \cup {Entry(s)} ELSE passed[s]
  <2>1. answer' \in [tier : Tiers \cup {"none"}, platform : Platforms \cup {"none"}, ok : BOOLEAN]
    BY <1>1
  <2>. QED
    BY <1>t, <1>1, <1>2, <2>1, PassingKeeps
<1>4. LimitsHold'
  <2>. SUFFICES ASSUME NEW w \in Windows
                PROVE  /\ Passed(platform, w)' <= Limit[platform][w]
                       /\ slipped \/ tier \in Unlimited \/ Passed(User, w)' <= Limit[tier][w]
    BY <1>1 DEF LimitsHold
  <2>1. Passed(platform, w)' <= Limit[platform][w]
    <3>1. Allows(platform, platform) /\ passed'[platform] = passed[platform] \cup {Entry(platform)}
      BY <1>t, <1>3 DEF Accept, Counted, counted
    <3>. QED
      BY <1>t, <1>1, <3>1, OneMoreIsAllowed
  <2>2. ASSUME ~slipped, tier \notin Unlimited
        PROVE  Passed(User, w)' <= Limit[tier][w]
    <3>1. Allows(tier, User) /\ passed'[User] = passed[User] \cup {Entry(User)}
      BY <1>t, <1>3, <2>2 DEF Accept, Counted, counted
    <3>. QED
      BY <1>t, <1>1, <2>2, <3>1, OneMoreIsAllowed
  <2>. QED
    BY <2>1, <2>2
<1>. QED
  BY <1>1, <1>3, <1>4 DEF RateInv

\* A request for an unknown platform counts for its tier, and is not let through.
LEMMA UnknownKeeps ==
  ASSUME RateInv, NEW tier \in Tiers, PlatformUnknown(tier)
  PROVE  RateInv'
<1>t. RateTypeOK /\ User \in Subjects /\ Counted(tier) \in SUBSET Subjects
  BY DEF RateInv, Subjects, Counted
<1>1. /\ UNCHANGED <<now, slipped>> /\ Pass(Counted(tier))
      /\ answer' = [tier |-> tier, platform |-> "none", ok |-> FALSE]
  BY DEF PlatformUnknown
<1>2. store \in [Keys -> SUBSET Entries]
  BY <1>t DEF RateTypeOK
<1>3. /\ store' \in [Keys -> SUBSET Entries]
      /\ \A s \in Subjects, w \in Windows :
           store'[<<s, w>>] = IF s \in Counted(tier) THEN InWindow(store[<<s, w>>], w) \cup {Entry(s)}
                                                     ELSE store[<<s, w>>]
  <2>1. CASE tier \in Unlimited
    BY <1>2, <2>1 DEF PlatformUnknown, RecordTier, Counted
  <2>2. CASE tier \notin Unlimited
    <3>1. store' = Record(store, User) /\ Counted(tier) = {User}
      BY <2>2 DEF PlatformUnknown, RecordTier, Counted
    <3>2. /\ Record(store, User) \in [Keys -> SUBSET Entries]
          /\ \A s \in Subjects, w \in Windows :
               Record(store, User)[<<s, w>>] =
                 IF s = User THEN InWindow(store[<<s, w>>], w) \cup {Entry(User)} ELSE store[<<s, w>>]
      BY <1>t, <1>2, RecordLeaves
    <3>. QED
      BY <3>1, <3>2
  <2>. QED
    BY <2>1, <2>2
<1>4. answer' \in [tier : Tiers \cup {"none"}, platform : Platforms \cup {"none"}, ok : BOOLEAN]
  BY <1>1
<1>5. LimitsHold'
  BY <1>1 DEF LimitsHold
<1>. QED
  BY <1>t, <1>1, <1>3, <1>4, <1>5, PassingKeeps DEF RateInv

\* A refusal takes back what it had recorded.
LEMMA RefusalKeeps ==
  ASSUME RateInv, NEW tier \in Tiers, NEW platform \in Platforms,
         TierRefuses(tier, platform) \/ PlatformRefuses(tier, platform)
  PROVE  RateInv'
<1>t. RateTypeOK /\ PassedAreNumbered /\ KeptIsPassed /\ InWindowIsKept /\ User \in Subjects
  BY DEF RateInv, Subjects
<1>1. /\ now' = now /\ passed' = passed
      /\ answer' = [tier |-> tier, platform |-> platform, ok |-> FALSE]
  BY DEF TierRefuses, PlatformRefuses
<1>2. /\ answer' \in [tier : Tiers \cup {"none"}, platform : Platforms \cup {"none"}, ok : BOOLEAN]
      /\ ~answer'.ok
  BY <1>1
<1>s. store \in [Keys -> SUBSET Entries] /\ slipped \in BOOLEAN
  BY <1>t DEF RateTypeOK
<1>3. /\ store' \in [Keys -> SUBSET Entries] /\ slipped' \in BOOLEAN /\ (slipped => slipped')
      /\ \A s \in Subjects, w \in Windows :
           /\ store'[<<s, w>>] \subseteq store[<<s, w>>]
           /\ s = User /\ ~slipped' => InWindow(store[<<s, w>>], w) \subseteq store'[<<s, w>>]
           /\ s # User => store'[<<s, w>>] = store[<<s, w>>]
  <2>1. CASE TierRefuses(tier, platform)
    BY <1>s, <2>1 DEF TierRefuses, InWindow
  <2>2. CASE PlatformRefuses(tier, platform) /\ tier \in Unlimited
    <3>1. /\ store' = Rollback(store, User)
          /\ slipped' = (slipped \/ \E k \in KeysOf(User) : store[k] # {})
      BY <2>2 DEF PlatformRefuses, RecordTier
    <3>2. /\ Rollback(store, User) \in [Keys -> SUBSET Entries]
          /\ \A s \in Subjects, w \in Windows :
               Rollback(store, User)[<<s, w>>] = IF s = User THEN Pop(store[<<s, w>>]) ELSE store[<<s, w>>]
      BY <1>s, RollbackLeaves
    <3>3. \A k \in Keys : Pop(store[k]) \subseteq store[k]
      BY DEF Pop
    <3>4. \A w \in Windows : ~slipped' => store[<<User, w>>] = {}
      BY <1>t, <3>1, KeysAre
    <3>. QED
      BY <1>s, <3>1, <3>2, <3>3, <3>4, KeysAre DEF InWindow
  <2>3. CASE PlatformRefuses(tier, platform) /\ tier \notin Unlimited
    <3>1. store' = Rollback(Record(store, User), User) /\ slipped' = slipped
      BY <1>s, <2>3 DEF PlatformRefuses, RecordTier
    <3>2. /\ Record(store, User) \in [Keys -> SUBSET Entries]
          /\ \A s \in Subjects, w \in Windows :
               Record(store, User)[<<s, w>>] =
                 IF s = User THEN InWindow(store[<<s, w>>], w) \cup {Entry(User)} ELSE store[<<s, w>>]
      BY <1>t, <1>s, RecordLeaves
    <3>3. PICK st \in [Keys -> SUBSET Entries] : st = Record(store, User)
      BY <3>2
    <3>4. /\ Rollback(st, User) \in [Keys -> SUBSET Entries]
          /\ \A s \in Subjects, w \in Windows :
               Rollback(st, User)[<<s, w>>] = IF s = User THEN Pop(st[<<s, w>>]) ELSE st[<<s, w>>]
      BY RollbackLeaves
    <3>5. \A w \in Windows : Pop(st[<<User, w>>]) = InWindow(store[<<User, w>>], w)
      <4>. SUFFICES ASSUME NEW w \in Windows
                    PROVE  Pop(st[<<User, w>>]) = InWindow(store[<<User, w>>], w)
        OBVIOUS
      <4>1. InWindow(store[<<User, w>>], w) \in SUBSET passed[User]
        BY <1>t DEF KeptIsPassed, InWindow
      <4>2. st[<<User, w>>] = InWindow(store[<<User, w>>], w) \cup {Entry(User)}
        BY <1>t, <3>2, <3>3
      <4>. QED
        BY <1>t, <4>1, <4>2, OwnIsTakenBack
    <3>6. \A w \in Windows : InWindow(store[<<User, w>>], w) \subseteq store[<<User, w>>]
      BY DEF InWindow
    <3>. QED
      BY <1>s, <3>1, <3>2, <3>3, <3>4, <3>5, <3>6
  <2>. QED
    BY <2>1, <2>2, <2>3
<1>4. RateTypeOK'
  BY <1>t, <1>1, <1>2, <1>3 DEF RateTypeOK
<1>5. PassedAreNumbered'
  BY <1>t, <1>1 DEF PassedAreNumbered
<1>6. KeptIsPassed'
  BY <1>t, <1>1, <1>3 DEF KeptIsPassed
<1>7. InWindowIsKept'
  <2>. SUFFICES ASSUME NEW s \in Subjects, NEW w \in Windows, s # User \/ ~slipped'
                PROVE  InWindow(passed[s], w)' \subseteq store'[<<s, w>>]
    BY DEF InWindowIsKept
  <2>1. InWindow(passed[s], w)' = InWindow(passed[s], w)
    BY <1>1 DEF InWindow
  <2>2. s # User \/ ~slipped
    BY <1>3
  <2>3. InWindow(store[<<s, w>>], w) = InWindow(passed[s], w)
    BY <2>2, WindowIsThePassed
  <2>4. InWindow(store[<<s, w>>], w) \subseteq store[<<s, w>>]
    BY DEF InWindow
  <2>. QED
    BY <1>3, <2>1, <2>3, <2>4
<1>. QED
  BY <1>2, <1>4, <1>5, <1>6, <1>7 DEF RateInv, LimitsHold

\* Time passes, or what is out of every window is forgotten.
LEMMA TimeKeeps ==
  ASSUME RateInv, Tick \/ PruneExpiredEntries
  PROVE  RateInv'
<1>t. RateTypeOK /\ PassedAreNumbered /\ KeptIsPassed /\ InWindowIsKept /\ LimitsHold
  BY DEF RateInv
<1>1. /\ UNCHANGED <<passed, answer, slipped>> /\ now' \in 0..MaxTime /\ now <= now'
  BY <1>t, RateAssumption DEF Tick, PruneExpiredEntries, RateTypeOK
<1>2. /\ store' \in [Keys -> SUBSET Entries]
      /\ \A s \in Subjects, w \in Windows :
           /\ store'[<<s, w>>] \subseteq store[<<s, w>>]
           /\ InWindow(store[<<s, w>>], w) \subseteq store'[<<s, w>>]
  <2>1. CASE Tick
    BY <1>t, <2>1 DEF Tick, RateTypeOK, InWindow
  <2>2. CASE PruneExpiredEntries
    <3>1. /\ store' = [k \in Keys |-> InWindow(store[k], "daily")] /\ store \in [Keys -> SUBSET Entries]
      BY <1>t, <2>2 DEF PruneExpiredEntries, RateTypeOK
    <3>2. \A k \in Keys : InWindow(store[k], "daily") \subseteq store[k] /\ store[k] \subseteq Entries
      BY <3>1 DEF InWindow
    <3>3. \A k \in Keys, w \in Windows : InWindow(store[k], w) \subseteq InWindow(store[k], "daily")
      <4>1. now \in Int /\ \A w \in Windows : Length[w] \in Int /\ Length[w] <= Length["daily"]
        BY <1>t, RateAssumption DEF RateTypeOK, Windows
      <4>2. \A t \in Int, w \in Windows : t > now - Length[w] => t > now - Length["daily"]
        BY <4>1 DEF Windows
      <4>3. \A k \in Keys : \A e \in store[k] : e.at \in Int
        BY <3>1 DEF Entries
      <4>. QED
        BY <4>2, <4>3 DEF InWindow
    <3>. QED
      BY <3>1, <3>2, <3>3, KeysAre
  <2>. QED
    BY <2>1, <2>2
<1>3. RateTypeOK'
  BY <1>t, <1>1, <1>2 DEF RateTypeOK
<1>4. PassedAreNumbered'
  <2>1. now \in Int /\ now' \in Int /\ \A s \in Subjects : \A e \in passed[s] : e.at \in Int
    BY <1>t, <1>1 DEF RateTypeOK, Entries
  <2>. QED
    BY <1>t, <1>1, <2>1 DEF PassedAreNumbered
<1>5. KeptIsPassed'
  BY <1>t, <1>1, <1>2 DEF KeptIsPassed
<1>6. InWindowIsKept'
  <2>. SUFFICES ASSUME NEW s \in Subjects, NEW w \in Windows, s # User \/ ~slipped
                PROVE  InWindow(passed[s], w)' \subseteq store'[<<s, w>>]
    BY <1>1 DEF InWindowIsKept
  <2>. QED
    BY <1>1, <1>2, LaterIsLess, WindowIsThePassed
<1>7. LimitsHold'
  <2>. SUFFICES ASSUME answer.ok, NEW w \in Windows
                PROVE  /\ Passed(answer.platform, w)' <= Limit[answer.platform][w]
                       /\ slipped \/ answer.tier \in Unlimited \/ Passed(User, w)' <= Limit[answer.tier][w]
    BY <1>1 DEF LimitsHold
  <2>1. /\ answer.platform \in Platforms /\ answer.tier \in Tiers
        /\ answer.platform \in Subjects /\ User \in Subjects
    BY DEF RateInv, Subjects
  <2>2. \A s \in Subjects : Passed(s, w)' \in Nat /\ Passed(s, w) \in Nat /\ Passed(s, w)' <= Passed(s, w)
    BY <1>1, LaterIsLess
  <2>3. \A a, b, c \in Nat : a <= b /\ b <= c => a <= c
    OBVIOUS
  <2>4. /\ Limit[answer.platform][w] \in Nat
        /\ answer.tier \notin Unlimited => Limit[answer.tier][w] \in Nat
    BY <2>1, RateAssumption
  <2>5. /\ Passed(answer.platform, w) <= Limit[answer.platform][w]
        /\ slipped \/ answer.tier \in Unlimited \/ Passed(User, w) <= Limit[answer.tier][w]
    BY <1>t DEF LimitsHold
  <2>6. Passed(answer.platform, w)' <= Limit[answer.platform][w]
    <3>1. PICK p \in Subjects : p = answer.platform
      BY <2>1
    <3>2. Passed(p, w)' \in Nat /\ Passed(p, w) \in Nat /\ Passed(p, w)' <= Passed(p, w)
      BY <2>2
    <3>3. Passed(p, w) <= Limit[p][w] /\ Limit[p][w] \in Nat
      BY <2>4, <2>5, <3>1
    <3>4. Passed(p, w)' <= Limit[p][w]
      BY <2>3, <3>2, <3>3
    <3>5. p = answer'.platform
      BY <1>1, <3>1
    <3>. QED
      BY <3>1, <3>4, <3>5 DEF Passed
  <2>7. ASSUME answer.tier \notin Unlimited, ~slipped
        PROVE  Passed(User, w)' <= Limit[answer.tier][w]
    BY <2>1, <2>2, <2>3, <2>4, <2>5, <2>7
  <2>. QED
    BY <2>6, <2>7
<1>. QED
  BY <1>1, <1>3, <1>4, <1>5, <1>6, <1>7 DEF RateInv

\* Every request, and the passing of time, keep RateInv.
LEMMA RateStep == RateInv /\ [RateNext]_rateVars => RateInv'
<1>1. ASSUME UNCHANGED rateVars, RateInv PROVE RateInv'
  <2>1. UNCHANGED <<now, store, passed, answer, slipped>>
    BY <1>1 DEF rateVars
  <2>2. \A s, w : InWindow(passed[s], w)' = InWindow(passed[s], w) /\ Passed(s, w)' = Passed(s, w)
    BY <2>1 DEF InWindow, Passed
  <2>3. RateTypeOK' /\ PassedAreNumbered' /\ KeptIsPassed'
    BY <1>1, <2>1 DEF RateInv, RateTypeOK, PassedAreNumbered, KeptIsPassed
  <2>4. InWindowIsKept' /\ LimitsHold'
    BY <1>1, <2>1, <2>2 DEF RateInv, InWindowIsKept, LimitsHold
  <2>. QED
    BY <1>1, <2>1, <2>3, <2>4 DEF RateInv
<1>. QED
  BY <1>1, AcceptKeeps, UnknownKeeps, RefusalKeeps, TimeKeeps DEF RateNext

\* No more requests count than were passed.
LEMMA PassedIsAll == RateInv => RateTypeOK /\ LimitsHold /\ OnlyPassedCounts
<1>. SUFFICES ASSUME RateInv PROVE OnlyPassedCounts
  BY DEF RateInv
<1>. SUFFICES ASSUME NEW s \in Subjects, NEW w \in Windows
              PROVE  PeekCount(s, w) <= Passed(s, w)
  BY DEF OnlyPassedCounts
<1>1. InWindow(store[<<s, w>>], w) \subseteq InWindow(passed[s], w) /\ InWindow(passed[s], w) \subseteq passed[s]
  BY DEF RateInv, KeptIsPassed, InWindow
<1>2. IsFiniteSet(InWindow(passed[s], w))
  BY <1>1, WindowsAreFinite DEF RateInv, PassedAreNumbered
<1>. QED
  BY <1>1, <1>2, WindowsAreFinite DEF PeekCount, Passed

-----------------------------------------------------------------------------
(* What a job tells of its progress is the present state, its end is told  *)
(* before the executor goes on to end the row, and stays.                  *)

\* STEP_ORDER has twelve places.
LEMMA NumberOfSteps == Len(STEP_ORDER) = 12
BY DEF STEP_ORDER

\* Each step has its place, and the last is the completed one's.
LEMMA PlacesOfSteps ==
  ASSUME NEW step \in ProgressSteps
  PROVE  /\ Place(step) \in -1..11
         /\ step = "failed" <=> Place(step) = -1
         /\ step = "completed" <=> Place(step) = 11
<1>1. CASE step = "failed"
  BY <1>1 DEF Place
<1>2. CASE step # "failed"
  <2>. DEFINE i == CHOOSE i \in 1..Len(STEP_ORDER) : STEP_ORDER[i] = step
  <2>1. \E j \in 1..12 : STEP_ORDER[j] = step
    BY <1>2 DEF ProgressSteps, Range, STEP_ORDER
  <2>2. i \in 1..12 /\ STEP_ORDER[i] = step
    BY <2>1, NumberOfSteps
  <2>3. Place(step) = i - 1
    BY <1>2 DEF Place
  <2>. HIDE DEF i
  <2>4. i = 12 <=> step = "completed"
    BY <2>2 DEF STEP_ORDER
  <2>. QED
    BY <1>2, <2>2, <2>3, <2>4
<1>. QED
  BY <1>1, <1>2

\* The steps that the executor sets are among them.
LEMMA StepNames ==
  {"initializing", "navigating", "filling", "uploading", "answering", "reviewing", "submitting",
   "awaiting", "completed", "failed"} \subseteq ProgressSteps
<1>1. /\ DOMAIN STEP_ORDER = 1..12 /\ STEP_ORDER[2] = "initializing" /\ STEP_ORDER[3] = "navigating"
      /\ STEP_ORDER[5] = "filling" /\ STEP_ORDER[6] = "uploading" /\ STEP_ORDER[7] = "answering"
      /\ STEP_ORDER[8] = "reviewing" /\ STEP_ORDER[9] = "submitting" /\ STEP_ORDER[11] = "awaiting"
      /\ STEP_ORDER[12] = "completed"
  BY DEF STEP_ORDER
<1>. QED
  BY <1>1 DEF ProgressSteps, Range

\* An action suggests its step, or none but the present one.
LEMMA InferredSteps ==
  ASSUME NEW variant, NEW thought, NEW step \in ProgressSteps
  PROVE  /\ InferStep(variant, thought, step) \in ProgressSteps
         /\ InferStep(variant, thought, step) # step => InferStep(variant, thought, step) \notin {"completed", "failed"}
BY StepNames DEF InferStep

\* An integral quotient does not fall when the dividend grows.
LEMMA DivKeepsUp ==
  ASSUME NEW a \in Nat, NEW b \in Nat, NEW d \in Nat \ {0}, a <= b
  PROVE  a \div d <= b \div d
<1>. DEFINE p == a \div d
<1>. DEFINE q == b \div d
<1>1. p \in Int /\ q \in Int /\ d * p <= a /\ b < d * q + d
  OBVIOUS
<1>. HIDE DEF p, q
<1>2. ASSUME q + 1 <= p PROVE d * (q + 1) <= d * p
  BY <1>1, <1>2
<1>3. d * (q + 1) = d * q + d
  BY <1>1
<1>4. p <= q
  BY <1>1, <1>2, <1>3
<1>. QED
  BY <1>4 DEF p, q

\* The percentage does not fall where neither the step's place nor the actions do.
LEMMA PercentGoesOn ==
  ASSUME NEW s \in ProgressSteps, NEW t \in ProgressSteps, NEW i \in Nat, NEW j \in Nat,
         Place(s) <= Place(t), i <= j
  PROVE  ~(Percent(t, j) < Percent(s, i))
<1>. DEFINE place(step) == IF step = "failed" THEN 0 ELSE Place(step)
            done(index) == IF index < ActionEstimate THEN index ELSE ActionEstimate
            sum(step, index) == 2 * (60 * place(step) * ActionEstimate + 40 * done(index) * 11) + 11 * ActionEstimate
            pct(step, index) == sum(step, index) \div (2 * 11 * ActionEstimate)
<1>1. ActionEstimate \in Nat \ {0}
  BY ProgressAssumption
<1>2. place(s) \in Nat /\ place(t) \in Nat /\ place(s) <= place(t)
  BY PlacesOfSteps
<1>3. done(i) \in Nat /\ done(j) \in Nat /\ done(i) <= done(j)
  BY <1>1
<1>4. \A step, index : Percent(step, index) =
        IF step = "completed" THEN 100 ELSE IF pct(step, index) < 99 THEN pct(step, index) ELSE 99
  BY NumberOfSteps DEF Percent
<1>5. sum(s, i) \in Nat /\ sum(t, j) \in Nat /\ sum(s, i) <= sum(t, j)
  <2>. HIDE DEF place, done
  <2>1. PICK u \in Nat, v \in Nat : u = place(s) * ActionEstimate /\ v = place(t) * ActionEstimate
    BY <1>1, <1>2
  <2>2. u <= v
    BY <1>1, <1>2, <2>1
  <2>3. 60 * place(s) * ActionEstimate = 60 * u /\ 60 * place(t) * ActionEstimate = 60 * v
    BY <1>1, <1>2, <2>1
  <2>. QED
    BY <1>1, <1>3, <2>1, <2>2, <2>3
<1>6. 2 * 11 * ActionEstimate \in Nat \ {0}
  BY <1>1
<1>7. pct(s, i) <= pct(t, j) /\ pct(s, i) \in Int /\ pct(t, j) \in Int
  <2>. HIDE DEF sum
  <2>. QED
    BY <1>5, <1>6, DivKeepsUp
<1>. HIDE DEF pct
<1>8. s = "completed" => t = "completed"
  BY PlacesOfSteps
<1>. QED
  BY <1>4, <1>7, <1>8

-----------------------------------------------------------------------------
EndPcs == {"ending", "flushing", "over", "stopped"}

\* The end of a job is the executor's: it comes with the last step, and once it is there
\* only a handler whose race was lost may go on.
EndIsTheExecutors ==
  /\ flow.pc \notin EndPcs => flow.end = "none" /\ ~flow.left /\ progress.step \notin {"completed", "failed"}
  /\ flow.left => flow.end \in {"none", "failed"}
  /\ progress.step = "completed" => flow.end = "completed"

\* The end is told, or on its way, by one whom the executor awaits.
EndIsOnItsWay ==
  flow.end # "none" =>
    \/ flow.end \in stored.told \cup stored.missed
    \/ flow.pc \notin {"over", "stopped"} /\ \E i \in 1..Len(emits) : emits[i].by = "executor" /\ emits[i].says.step = flow.end

IsLastForRedis(i) == emits[i].at = "redis" /\ \A k \in 1..Len(emits) : k > i => emits[k].at # "redis"

\* What was said last goes last into the stream.
StreamKeepsUp ==
  WithRedis =>
    /\ (\A i \in 1..Len(emits) : emits[i].at # "redis") => streamed.missed \/ streamed.says = said
    /\ \A i \in 1..Len(emits) : IsLastForRedis(i) => emits[i].says = said

\* The inductive invariant.
ProgressInv ==
  ProgressTypeOK /\ NothingIsWithheld /\ EndIsTheExecutors /\ EndIsOnItsWay /\ StreamKeepsUp

\* The tracker is new and has sent nothing.
LEMMA ProgressStart == ProgressInit => ProgressInv
<1>. SUFFICES ASSUME ProgressInit PROVE ProgressInv
  OBVIOUS
<1>1. "queued" \in ProgressSteps /\ 0 \in 0..MaxAgentActions /\ 0 \in 0..MaxHandlerSteps
  <2>1. STEP_ORDER[1] = "queued" /\ 1 \in DOMAIN STEP_ORDER
    BY DEF STEP_ORDER
  <2>. QED
    BY <2>1, ProgressAssumption DEF ProgressSteps, Range
<1>2. /\ progress = [step |-> "queued", index |-> 0, recent |-> FALSE, pending |-> FALSE]
      /\ emits = <<>> /\ said = Snapshot(progress) /\ streamed = [says |-> said, missed |-> FALSE]
      /\ stored = [told |-> {}, missed |-> {}]
      /\ flow = [pc |-> "queued", end |-> "none", steps |-> 0, act |-> "none", left |-> FALSE]
  BY DEF ProgressInit
<1>3. progress \in ProgressStates /\ flow \in FlowStates
  BY <1>1, <1>2 DEF ProgressStates, FlowStates
<1>4. said \in Snapshots
  BY <1>1, <1>2 DEF Snapshot, Snapshots
<1>5. emits \in Seq(EmitStates) /\ Len(emits) = 0
  BY <1>2, EmptySeq
<1>6. ProgressTypeOK
  BY <1>2, <1>3, <1>4, <1>5 DEF ProgressTypeOK
<1>7. streamed.says = said
  BY <1>2
<1>. QED
  BY <1>2, <1>5, <1>6, <1>7
     DEF ProgressInv, NothingIsWithheld, EndIsTheExecutors, EndIsOnItsWay, StreamKeepsUp, EndPcs

\* An emit says the present state, and is the last.
LEMMA EmitsThePresent ==
  ASSUME ProgressInv, NEW p \in ProgressStates, NEW caller \in {"executor", "handler", "event"},
         Emit(p, caller), UNCHANGED streamed
  PROVE  /\ progress' \in ProgressStates /\ progress'.step = p.step /\ progress'.index = p.index
         /\ emits' \in Seq(EmitStates) /\ said' \in Snapshots /\ Len(emits') = Len(emits) + 1
         /\ emits'[Len(emits) + 1].by = caller /\ emits'[Len(emits) + 1].says.step = p.step
         /\ \A i \in 1..Len(emits) : emits'[i] = emits[i]
         /\ NothingIsWithheld' /\ StreamKeepsUp'
<1>. DEFINE new == [says |-> Snapshot(p), by |-> caller, at |-> IF WithRedis THEN "redis" ELSE "row"]
<1>1. /\ progress' = [p EXCEPT !.recent = TRUE, !.pending = FALSE]
      /\ emits' = Append(emits, new) /\ said' = Snapshot(p)
  BY DEF Emit
<1>2. Snapshot(p) \in Snapshots /\ Snapshot(p).step = p.step
  BY DEF Snapshot, Snapshots, ProgressStates
<1>3. new \in EmitStates /\ new.by = caller /\ new.says = Snapshot(p) /\ (WithRedis => new.at = "redis")
  BY <1>2 DEF EmitStates
<1>. HIDE DEF new
<1>4. emits \in Seq(EmitStates) /\ Len(emits) \in Nat
  BY DEF ProgressInv, ProgressTypeOK
<1>5. /\ emits' \in Seq(EmitStates) /\ Len(emits') = Len(emits) + 1
      /\ emits'[Len(emits) + 1] = new /\ \A i \in 1..Len(emits) : emits'[i] = emits[i]
  BY <1>1, <1>3, <1>4, AppendProperties
<1>6. progress' \in ProgressStates /\ progress'.step = p.step /\ progress'.index = p.index
  BY <1>1 DEF ProgressStates
<1>7. NothingIsWithheld'
  BY <1>1, <1>6 DEF NothingIsWithheld, Snapshot
<1>8. StreamKeepsUp'
  <2>. SUFFICES ASSUME WithRedis
                PROVE  /\ \E i \in 1..Len(emits') : emits'[i].at = "redis"
                       /\ \A i \in 1..Len(emits') : IsLastForRedis(i)' => emits'[i].says = said'
    BY DEF StreamKeepsUp
  <2>1. Len(emits) + 1 \in 1..Len(emits') /\ emits'[Len(emits) + 1].at = "redis"
    BY <1>3, <1>4, <1>5
  <2>2. ASSUME NEW i \in 1..Len(emits'), IsLastForRedis(i)' PROVE i = Len(emits) + 1
    BY <1>4, <1>5, <2>1, <2>2 DEF IsLastForRedis
  <2>. QED
    BY <1>1, <1>3, <1>5, <2>1, <2>2
<1>. QED
  BY <1>1, <1>2, <1>3, <1>5, <1>6, <1>7, <1>8

\* An emit by an event, or one that the throttle holds back.
LEMMA ThrottledIsPending ==
  ASSUME ProgressInv, NEW p \in ProgressStates, EmitThrottled(p), UNCHANGED <<streamed, stored>>,
         p.pending = progress.pending
  PROVE  /\ progress' \in ProgressStates /\ progress'.step = p.step /\ progress'.index = p.index
         /\ emits' \in Seq(EmitStates) /\ said' \in Snapshots
         /\ Len(emits') \in Nat /\ Len(emits') >= Len(emits)
         /\ \A i \in 1..Len(emits) : emits'[i] = emits[i]
         /\ NothingIsWithheld' /\ StreamKeepsUp'
<1>0. emits \in Seq(EmitStates) /\ Len(emits) \in Nat /\ said \in Snapshots
  BY DEF ProgressInv, ProgressTypeOK
<1>1. CASE p.recent
  <2>1. progress' = [p EXCEPT !.pending = TRUE] /\ UNCHANGED <<emits, said>>
    BY <1>1 DEF EmitThrottled
  <2>2. progress' \in ProgressStates /\ progress'.step = p.step /\ progress'.index = p.index /\ progress'.pending
    BY <2>1 DEF ProgressStates
  <2>3. NothingIsWithheld' /\ StreamKeepsUp'
    BY <2>1, <2>2 DEF ProgressInv, NothingIsWithheld, StreamKeepsUp, IsLastForRedis
  <2>. QED
    BY <1>0, <2>1, <2>2, <2>3
<1>2. CASE ~p.recent
  <2>1. Emit(p, "event")
    BY <1>2 DEF EmitThrottled
  <2>. QED
    BY <1>0, <2>1, EmitsThePresent
<1>. QED
  BY <1>1, <1>2

\* Every step of a job and its emits keeps ProgressInv.
LEMMA ProgressStep ==
  ProgressInv /\ [ProgressNext]_progressVars => ProgressInv' /\ EndStays /\ PercentFalls
<1>. SUFFICES ASSUME ProgressInv, [ProgressNext]_progressVars PROVE ProgressInv' /\ EndStays /\ PercentFalls
  OBVIOUS
<1>t. /\ progress \in ProgressStates /\ emits \in Seq(EmitStates) /\ said \in Snapshots
      /\ streamed \in [says : Snapshots, missed : BOOLEAN]
      /\ stored \in [told : SUBSET EndSteps, missed : SUBSET EndSteps]
      /\ flow \in FlowStates /\ Len(emits) \in Nat
  BY DEF ProgressInv, ProgressTypeOK
<1>f. /\ progress.step \in ProgressSteps /\ progress.index \in Nat /\ progress.index \in 0..MaxAgentActions
      /\ flow.end \in {"none"} \cup EndSteps /\ flow.left \in BOOLEAN
  BY <1>t DEF ProgressStates, FlowStates
<1>i. EndIsTheExecutors /\ EndIsOnItsWay /\ StreamKeepsUp /\ NothingIsWithheld
  BY DEF ProgressInv
\* The percentage does not fall where step and actions go on.
<1>k. ASSUME progress' \in ProgressStates, Place(progress'.step) >= Place(progress.step),
             progress'.index \in Nat, progress'.index >= progress.index
      PROVE  PercentFalls
  <2>1. progress'.step \in ProgressSteps
    BY <1>k DEF ProgressStates
  <2>2. Place(progress.step) <= Place(progress'.step)
    BY <1>f, <1>k, <2>1, PlacesOfSteps
  <2>. QED
    BY <1>f, <1>k, <2>1, <2>2, PercentGoesOn DEF PercentFalls
\* A step that leaves the tracker's step and actions alone.
<1>u. ASSUME progress' \in ProgressStates, progress'.step = progress.step, progress'.index = progress.index
      PROVE  EndStays /\ PercentFalls
  <2>1. Place(progress'.step) >= Place(progress.step)
    BY <1>f, <1>u, PlacesOfSteps
  <2>. QED
    BY <1>f, <1>k, <1>u, <2>1 DEF EndStays
\* The end that is on its way stays so when another report is made.
<1>w. ASSUME Len(emits') \in Nat, Len(emits') >= Len(emits), \A i \in 1..Len(emits) : emits'[i] = emits[i],
             UNCHANGED stored, flow'.end = flow.end, flow'.pc \notin {"over", "stopped"} \/ flow'.pc = flow.pc
      PROVE  EndIsOnItsWay'
  <2>. SUFFICES ASSUME flow.end # "none", flow.end \notin stored.told \cup stored.missed
                PROVE  /\ flow'.pc \notin {"over", "stopped"}
                       /\ \E i \in 1..Len(emits') : emits'[i].by = "executor" /\ emits'[i].says.step = flow.end
    BY <1>w DEF EndIsOnItsWay
  <2>1. PICK i \in 1..Len(emits) : emits[i].by = "executor" /\ emits[i].says.step = flow.end
    BY <1>i DEF EndIsOnItsWay
  <2>2. i \in 1..Len(emits') /\ emits'[i] = emits[i]
    BY <1>t, <1>w, <2>1
  <2>. QED
    BY <1>i, <1>w, <2>1, <2>2 DEF EndIsOnItsWay
\* A step set by the executor or by the handler, who await it.
<1>s. ASSUME NEW step \in ProgressSteps, NEW caller \in {"executor", "handler"}, SetStep(step, caller),
             UNCHANGED <<streamed, stored>>
      PROVE  /\ progress' \in ProgressStates /\ progress'.step = step
             /\ emits' \in Seq(EmitStates) /\ said' \in Snapshots /\ Len(emits') = Len(emits) + 1
             /\ emits'[Len(emits) + 1].by = caller /\ emits'[Len(emits) + 1].says.step = step
             /\ \A i \in 1..Len(emits) : emits'[i] = emits[i]
             /\ NothingIsWithheld' /\ StreamKeepsUp' /\ PercentFalls
  <2>. DEFINE p == [progress EXCEPT !.step = step]
  <2>1. p \in ProgressStates /\ p.step = step /\ p.index = progress.index
    BY <1>t DEF ProgressStates
  <2>2. Emit(p, caller)
    BY <1>s DEF SetStep
  <2>. HIDE DEF p
  <2>3. /\ progress' \in ProgressStates /\ progress'.step = step /\ progress'.index = progress.index
        /\ emits' \in Seq(EmitStates) /\ said' \in Snapshots /\ Len(emits') = Len(emits) + 1
        /\ emits'[Len(emits) + 1].by = caller /\ emits'[Len(emits) + 1].says.step = step
        /\ \A i \in 1..Len(emits) : emits'[i] = emits[i]
        /\ NothingIsWithheld' /\ StreamKeepsUp'
    BY <1>s, <2>1, <2>2, EmitsThePresent
  <2>4. PercentFalls
    <3>1. CASE Place(step) < Place(progress.step)
      BY <1>s, <1>t, <2>3, <3>1 DEF PercentFalls
    <3>2. CASE ~(Place(step) < Place(progress.step))
      <4>1. Place(step) >= Place(progress.step)
        BY <1>f, <3>2, PlacesOfSteps
      <4>. QED
        BY <1>f, <1>k, <2>3, <4>1
    <3>. QED
      BY <3>1, <3>2
  <2>. QED
    BY <2>3, <2>4
<1>1. ASSUME NEW variant \in Variants, NEW thought \in Thoughts, OnActionStarted(variant, thought)
      PROVE  ProgressInv' /\ EndStays /\ PercentFalls
  <2>. DEFINE inferred == InferStep(variant, thought, progress.step)
              step == IF Place(inferred) > Place(progress.step) THEN inferred ELSE progress.step
              p == [progress EXCEPT !.index = @ + 1, !.step = step]
  <2>1. /\ flow.act = "idle" /\ progress.index < MaxAgentActions /\ EmitThrottled(p)
        /\ flow' = [flow EXCEPT !.act = "doing"] /\ UNCHANGED <<streamed, stored>>
    BY <1>1 DEF OnActionStarted
  <2>2. /\ step \in ProgressSteps /\ Place(step) >= Place(progress.step)
        /\ step # progress.step => step \notin {"completed", "failed"} /\ progress.step # "completed"
    <3>1. /\ inferred \in ProgressSteps /\ (inferred # progress.step => inferred \notin {"completed", "failed"})
      BY <1>f, InferredSteps
    <3>. HIDE DEF inferred
    <3>. QED
      BY <1>f, <3>1, PlacesOfSteps
  <2>. HIDE DEF step
  <2>3. PICK index \in 0..MaxAgentActions : index = progress.index + 1
    BY <1>f, <2>1, ProgressAssumption
  <2>4. p \in ProgressStates /\ p.step = step /\ p.index = index /\ p.pending = progress.pending
    BY <1>t, <2>2, <2>3 DEF ProgressStates
  <2>. HIDE DEF p
  <2>5. /\ progress' \in ProgressStates /\ progress'.step = step /\ progress'.index = index
        /\ emits' \in Seq(EmitStates) /\ said' \in Snapshots
        /\ Len(emits') \in Nat /\ Len(emits') >= Len(emits)
        /\ \A i \in 1..Len(emits) : emits'[i] = emits[i]
        /\ NothingIsWithheld' /\ StreamKeepsUp'
    BY <2>1, <2>4, ThrottledIsPending
  <2>6. /\ flow' \in FlowStates /\ flow'.pc = flow.pc /\ flow'.end = flow.end /\ flow'.left = flow.left
    BY <1>t, <2>1 DEF FlowStates
  <2>7. EndIsOnItsWay'
    BY <1>w, <2>1, <2>5, <2>6
  <2>8. EndIsTheExecutors'
    BY <1>i, <2>2, <2>5, <2>6 DEF EndIsTheExecutors
  <2>9. ProgressTypeOK'
    BY <1>t, <2>1, <2>5, <2>6 DEF ProgressTypeOK
  <2>10. EndStays
    BY <2>1, <2>2, <2>5 DEF EndStays
  <2>11. PercentFalls
    <3>1. index \in Nat /\ index >= progress.index
      BY <1>f, <2>3
    <3>. QED
      BY <1>k, <2>2, <2>5, <3>1
  <2>. QED
    BY <2>5, <2>7, <2>8, <2>9, <2>10, <2>11 DEF ProgressInv
<1>2. CASE OnActionDone
  <2>1. EmitThrottled(progress) /\ flow' = [flow EXCEPT !.act = "idle"] /\ UNCHANGED <<streamed, stored>>
    BY <1>2 DEF OnActionDone
  <2>2. /\ progress' \in ProgressStates /\ progress'.step = progress.step /\ progress'.index = progress.index
        /\ emits' \in Seq(EmitStates) /\ said' \in Snapshots
        /\ Len(emits') \in Nat /\ Len(emits') >= Len(emits)
        /\ \A i \in 1..Len(emits) : emits'[i] = emits[i]
        /\ NothingIsWithheld' /\ StreamKeepsUp'
    BY <1>t, <2>1, ThrottledIsPending
  <2>3. /\ flow' \in FlowStates /\ flow'.pc = flow.pc /\ flow'.end = flow.end /\ flow'.left = flow.left
    BY <1>t, <2>1 DEF FlowStates
  <2>4. EndIsOnItsWay'
    BY <1>w, <2>1, <2>2, <2>3
  <2>5. EndIsTheExecutors'
    BY <1>i, <2>2, <2>3 DEF EndIsTheExecutors
  <2>6. ProgressTypeOK'
    BY <1>t, <2>1, <2>2, <2>3 DEF ProgressTypeOK
  <2>. QED
    BY <1>u, <2>2, <2>4, <2>5, <2>6 DEF ProgressInv
<1>3. CASE ThrottleEnds
  <2>1. progress' = [progress EXCEPT !.recent = FALSE] /\ UNCHANGED <<emits, said, streamed, stored, flow>>
    BY <1>3 DEF ThrottleEnds
  <2>2. /\ progress' \in ProgressStates /\ progress'.step = progress.step /\ progress'.index = progress.index
        /\ progress'.pending = progress.pending
    BY <1>t, <2>1 DEF ProgressStates
  <2>3. NothingIsWithheld'
    BY <1>i, <2>1, <2>2 DEF NothingIsWithheld, Snapshot
  <2>4. EndIsTheExecutors' /\ EndIsOnItsWay' /\ StreamKeepsUp'
    BY <1>i, <2>1, <2>2 DEF EndIsTheExecutors, EndIsOnItsWay, StreamKeepsUp, IsLastForRedis
  <2>. QED
    BY <1>t, <1>u, <2>1, <2>2, <2>3, <2>4 DEF ProgressInv, ProgressTypeOK
<1>4. ASSUME NEW i \in 1..Len(emits), XAdd(i) PROVE ProgressInv' /\ EndStays /\ PercentFalls
  <2>1. /\ emits[i].at = "redis" /\ \A k \in 1..(i - 1) : emits[k].at # "redis"
        /\ emits' = [emits EXCEPT ![i].at = "row"]
        /\ streamed' \in {[says |-> emits[i].says, missed |-> FALSE], [streamed EXCEPT !.missed = TRUE]}
        /\ UNCHANGED <<progress, said, stored, flow>>
    BY <1>4 DEF XAdd
  <2>2. emits[i] \in EmitStates
    BY <1>t
  <2>p. PICK old \in EmitStates : old = emits[i]
    BY <2>2
  <2>. DEFINE new == [old EXCEPT !.at = "row"]
  <2>3. new \in EmitStates /\ new.at = "row" /\ new.by = old.by /\ new.says = old.says
    BY DEF EmitStates
  <2>4. emits' = [emits EXCEPT ![i] = new]
    BY <2>1, <2>p
  <2>. HIDE DEF new
  <2>5. /\ emits' \in Seq(EmitStates) /\ Len(emits') = Len(emits) /\ emits'[i] = new
        /\ \A k \in 1..Len(emits) : k # i => emits'[k] = emits[k]
    BY <1>t, <2>3, <2>4, ExceptSeq
  <2>6. \A k \in 1..Len(emits) : emits'[k].by = emits[k].by /\ emits'[k].says = emits[k].says
    BY <2>p, <2>3, <2>5
  <2>7. streamed' \in [says : Snapshots, missed : BOOLEAN] /\ (streamed'.says = emits[i].says \/ streamed'.missed)
    <3>1. PICK says \in Snapshots : says = emits[i].says
      BY <2>2 DEF EmitStates
    <3>2. CASE streamed' = [says |-> says, missed |-> FALSE]
      BY <3>1, <3>2
    <3>3. CASE streamed' = [streamed EXCEPT !.missed = TRUE]
      BY <1>t, <3>3
    <3>. QED
      BY <2>1, <3>1, <3>2, <3>3
  <2>8. EndIsOnItsWay' /\ EndIsTheExecutors' /\ NothingIsWithheld'
    BY <1>i, <2>1, <2>5, <2>6 DEF EndIsOnItsWay, EndIsTheExecutors, NothingIsWithheld
  <2>9. StreamKeepsUp'
    <3>. SUFFICES ASSUME WithRedis
                  PROVE  /\ (\A k \in 1..Len(emits) : emits'[k].at # "redis") => streamed'.missed \/ streamed'.says = said
                         /\ \A k \in 1..Len(emits) : IsLastForRedis(k)' => emits'[k].says = said
      BY <2>1, <2>5 DEF StreamKeepsUp
    <3>1. ASSUME \A k \in 1..Len(emits) : emits'[k].at # "redis"
          PROVE  streamed'.missed \/ streamed'.says = said
      <4>1. IsLastForRedis(i)
        BY <1>t, <2>1, <2>5, <3>1 DEF IsLastForRedis
      <4>. QED
        BY <1>i, <2>7, <4>1 DEF StreamKeepsUp
    <3>2. ASSUME NEW k \in 1..Len(emits), IsLastForRedis(k)'
          PROVE  emits'[k].says = said
      <4>1. k # i /\ emits[k].at = "redis" /\ \A j \in 1..Len(emits) : j > k => emits'[j].at # "redis"
        BY <2>3, <2>5, <3>2 DEF IsLastForRedis
      <4>2. k > i
        BY <1>t, <2>1, <4>1
      <4>3. IsLastForRedis(k)
        BY <1>t, <2>5, <4>1, <4>2 DEF IsLastForRedis
      <4>. QED
        BY <1>i, <2>6, <4>3 DEF StreamKeepsUp
    <3>. QED
      BY <3>1, <3>2
  <2>10. ProgressTypeOK'
    BY <1>t, <2>1, <2>5, <2>7 DEF ProgressTypeOK
  <2>. QED
    BY <1>t, <1>u, <2>1, <2>8, <2>9, <2>10 DEF ProgressInv
<1>5. ASSUME NEW i \in 1..Len(emits), InsertRow(i) PROVE ProgressInv' /\ EndStays /\ PercentFalls
  <2>. DEFINE end == {emits[i].says.step} \cap EndSteps
              at(k) == IF k < i THEN k ELSE k + 1
  <2>1. /\ emits[i].at = "row"
        /\ emits' = [k \in 1..(Len(emits) - 1) |-> IF k < i THEN emits[k] ELSE emits[k + 1]]
        /\ stored' \in {[stored EXCEPT !.told = @ \cup end], [stored EXCEPT !.missed = @ \cup end]}
        /\ UNCHANGED <<progress, said, streamed, flow>>
    BY <1>5 DEF InsertRow
  <2>2. Len(emits) - 1 \in Nat /\ \A k \in 1..(Len(emits) - 1) : at(k) \in 1..Len(emits)
    BY <1>t
  <2>3. \A k \in 1..(Len(emits) - 1) : emits'[k] = emits[at(k)]
    BY <2>1
  <2>4. emits' \in Seq(EmitStates) /\ Len(emits') = Len(emits) - 1
    <3>1. emits' \in [1..(Len(emits) - 1) -> EmitStates]
      <4>1. \A k \in 1..(Len(emits) - 1) : emits[at(k)] \in EmitStates
        BY <1>t, <2>2
      <4>. QED
        BY <2>1, <2>3, <4>1
    <3>. QED
      BY <2>2, <3>1
  <2>. HIDE DEF end
  <2>5. /\ stored' \in [told : SUBSET EndSteps, missed : SUBSET EndSteps]
        /\ stored'.told \cup stored'.missed = stored.told \cup stored.missed \cup end
    <3>1. end \subseteq EndSteps
      BY DEF end
    <3>. QED
      BY <1>t, <2>1, <3>1
  <2>6. \A j \in 1..Len(emits) : j # i => \E k \in 1..Len(emits') : at(k) = j
    <3>1. ASSUME NEW j \in 1..Len(emits), j < i PROVE \E k \in 1..Len(emits') : at(k) = j
      <4>1. j \in 1..Len(emits') /\ at(j) = j
        BY <1>t, <2>4, <3>1
      <4>. QED
        BY <4>1
    <3>2. ASSUME NEW j \in 1..Len(emits), j > i PROVE \E k \in 1..Len(emits') : at(k) = j
      <4>1. j - 1 \in 1..Len(emits') /\ at(j - 1) = j
        BY <1>t, <2>4, <3>2
      <4>. QED
        BY <4>1
    <3>. QED
      BY <1>t, <3>1, <3>2
  <2>7. EndIsOnItsWay'
    <3>. SUFFICES ASSUME flow.end # "none", flow.end \notin stored'.told \cup stored'.missed
                  PROVE  /\ flow.pc \notin {"over", "stopped"}
                         /\ \E k \in 1..Len(emits') : emits'[k].by = "executor" /\ emits'[k].says.step = flow.end
      BY <2>1 DEF EndIsOnItsWay
    <3>1. flow.end \notin stored.told \cup stored.missed /\ flow.end \notin end /\ flow.end \in EndSteps
      BY <1>f, <2>5
    <3>2. PICK j \in 1..Len(emits) : emits[j].by = "executor" /\ emits[j].says.step = flow.end
      BY <1>i, <3>1 DEF EndIsOnItsWay
    <3>3. j # i
      BY <3>1, <3>2 DEF end
    <3>4. PICK k \in 1..Len(emits') : at(k) = j
      BY <2>6, <3>3
    <3>5. emits'[k] = emits[j]
      BY <2>3, <2>4, <3>4
    <3>. QED
      BY <1>i, <3>1, <3>2, <3>5 DEF EndIsOnItsWay
  <2>8. StreamKeepsUp'
    <3>. SUFFICES ASSUME WithRedis
                  PROVE  /\ (\A k \in 1..Len(emits') : emits'[k].at # "redis") => streamed.missed \/ streamed.says = said
                         /\ \A k \in 1..Len(emits') : IsLastForRedis(k)' => emits'[k].says = said
      BY <2>1 DEF StreamKeepsUp
    <3>1. ASSUME \A k \in 1..Len(emits') : emits'[k].at # "redis"
          PROVE  streamed.missed \/ streamed.says = said
      <4>1. \A j \in 1..Len(emits) : emits[j].at # "redis"
        BY <2>1, <2>3, <2>4, <2>6, <3>1
      <4>. QED
        BY <1>i, <4>1 DEF StreamKeepsUp
    <3>2. ASSUME NEW k \in 1..Len(emits'), IsLastForRedis(k)'
          PROVE  emits'[k].says = said
      <4>1. PICK j \in 1..Len(emits) : j = at(k)
        BY <2>2, <2>4
      <4>2. emits'[k] = emits[j]
        BY <2>3, <2>4, <4>1
      <4>3. ASSUME NEW l \in 1..Len(emits), l > j PROVE emits[l].at # "redis"
        <5>1. CASE l = i
          BY <2>1, <5>1
        <5>2. CASE l # i
          <6>1. PICK m \in 1..Len(emits') : at(m) = l
            BY <2>6, <5>2
          <6>2. m > k
            BY <1>t, <2>4, <4>1, <4>3, <6>1
          <6>3. emits'[m] = emits[l]
            BY <2>3, <2>4, <6>1
          <6>. QED
            BY <3>2, <6>2, <6>3 DEF IsLastForRedis
        <5>. QED
          BY <5>1, <5>2
      <4>4. IsLastForRedis(j)
        BY <3>2, <4>2, <4>3 DEF IsLastForRedis
      <4>. QED
        BY <1>i, <4>2, <4>4 DEF StreamKeepsUp
    <3>. QED
      BY <3>1, <3>2
  <2>9. EndIsTheExecutors' /\ NothingIsWithheld'
    BY <1>i, <2>1 DEF EndIsTheExecutors, NothingIsWithheld
  <2>10. ProgressTypeOK'
    BY <1>t, <2>1, <2>4, <2>5 DEF ProgressTypeOK
  <2>. QED
    BY <1>t, <1>u, <2>1, <2>7, <2>8, <2>9, <2>10 DEF ProgressInv
\* A step of the flow alone.
<1>a. ASSUME UNCHANGED <<progress, emits, said, streamed, stored>>, flow' \in FlowStates,
             EndIsTheExecutors', EndIsOnItsWay'
      PROVE  ProgressInv' /\ EndStays /\ PercentFalls
  BY <1>a, <1>i, <1>t, <1>u DEF ProgressInv, ProgressTypeOK, NothingIsWithheld, StreamKeepsUp, IsLastForRedis
\* A step set before the end.
<1>b. ASSUME NEW step \in ProgressSteps \ {"completed", "failed"}, NEW caller \in {"executor", "handler"},
             SetStep(step, caller), UNCHANGED <<streamed, stored>>, flow' \in FlowStates, flow'.end = flow.end,
             flow'.left = flow.left, flow.pc \notin EndPcs \/ flow.left,
             (flow.pc \notin EndPcs /\ flow'.pc \notin EndPcs) \/ flow'.pc = flow.pc
      PROVE  ProgressInv' /\ EndStays /\ PercentFalls
  <2>1. /\ progress' \in ProgressStates /\ progress'.step = step
        /\ emits' \in Seq(EmitStates) /\ said' \in Snapshots /\ Len(emits') = Len(emits) + 1
        /\ \A i \in 1..Len(emits) : emits'[i] = emits[i]
        /\ NothingIsWithheld' /\ StreamKeepsUp' /\ PercentFalls
    BY <1>b, <1>s
  <2>2. EndIsTheExecutors'
    BY <1>i, <1>b, <2>1 DEF EndIsTheExecutors
  <2>3. EndIsOnItsWay'
    <3>1. Len(emits') \in Nat /\ Len(emits') >= Len(emits)
      BY <1>t, <2>1
    <3>2. flow'.pc \notin {"over", "stopped"} \/ flow'.pc = flow.pc
      BY <1>b DEF EndPcs
    <3>. QED
      BY <1>b, <1>w, <2>1, <3>1, <3>2
  <2>4. EndStays
    BY <1>b, <1>i DEF EndStays, EndIsTheExecutors
  <2>5. ProgressTypeOK'
    BY <1>b, <1>t, <2>1 DEF ProgressTypeOK
  <2>. QED
    BY <2>1, <2>2, <2>3, <2>4, <2>5 DEF ProgressInv
<1>6. CASE InitializingStep
  <2>1. /\ flow.pc = "queued" /\ SetStep("initializing", "executor")
        /\ flow' = [flow EXCEPT !.pc = "initializing"] /\ UNCHANGED <<streamed, stored>>
    BY <1>6 DEF InitializingStep
  <2>2. flow' \in FlowStates /\ flow'.pc = "initializing" /\ flow'.end = flow.end /\ flow'.left = flow.left
    BY <1>t, <2>1 DEF FlowStates
  <2>3. "initializing" \in ProgressSteps \ {"completed", "failed"}
    BY StepNames
  <2>. QED
    BY <1>b, <2>1, <2>2, <2>3 DEF EndPcs
<1>7. CASE NavigatingStep
  <2>1. /\ flow.pc = "initializing" /\ SetStep("navigating", "executor")
        /\ flow' = [flow EXCEPT !.pc = "navigating"] /\ UNCHANGED <<streamed, stored>>
    BY <1>7 DEF NavigatingStep
  <2>2. flow' \in FlowStates /\ flow'.pc = "navigating" /\ flow'.end = flow.end /\ flow'.left = flow.left
    BY <1>t, <2>1 DEF FlowStates
  <2>3. "navigating" \in ProgressSteps \ {"completed", "failed"}
    BY StepNames
  <2>. QED
    BY <1>b, <2>1, <2>2, <2>3 DEF EndPcs
<1>8. ASSUME NEW step \in HandlerSteps, HandlerStep(step) PROVE ProgressInv' /\ EndStays /\ PercentFalls
  <2>1. /\ flow.pc = "handling" \/ flow.left
        /\ flow.steps < MaxHandlerSteps /\ SetStep(step, "handler")
        /\ flow' = [flow EXCEPT !.steps = @ + 1] /\ UNCHANGED <<streamed, stored>>
    BY <1>8 DEF HandlerStep
  <2>2. PICK steps \in 0..MaxHandlerSteps : steps = flow.steps + 1
    <3>1. flow.steps \in 0..MaxHandlerSteps
      BY <1>t DEF FlowStates
    <3>. QED
      BY <2>1, <3>1, ProgressAssumption
  <2>3. flow' \in FlowStates /\ flow'.pc = flow.pc /\ flow'.end = flow.end /\ flow'.left = flow.left
    BY <1>t, <2>1, <2>2 DEF FlowStates
  <2>4. step \in ProgressSteps \ {"completed", "failed"}
    BY ProgressAssumption
  <2>. QED
    BY <1>b, <2>1, <2>3, <2>4 DEF EndPcs
<1>9. CASE Delegate
  <2>1. /\ flow.pc = "navigating" /\ flow' = [flow EXCEPT !.pc = "handling", !.act = "idle"]
        /\ UNCHANGED <<progress, emits, said, streamed, stored>>
    BY <1>9 DEF Delegate
  <2>2. flow' \in FlowStates /\ flow'.pc = "handling" /\ flow'.end = flow.end /\ flow'.left = flow.left
    BY <1>t, <2>1 DEF FlowStates
  <2>3. EndIsTheExecutors' /\ EndIsOnItsWay'
    BY <1>i, <2>1, <2>2 DEF EndIsTheExecutors, EndIsOnItsWay, EndPcs
  <2>. QED
    BY <1>a, <2>1, <2>2, <2>3
<1>10. CASE LeaveSilently
  <2>1. PICK left \in BOOLEAN : flow' = [flow EXCEPT !.pc = "over", !.left = left]
    BY <1>10 DEF LeaveSilently
  <2>2. /\ flow.pc \in {"queued", "initializing", "handling"}
        /\ UNCHANGED <<progress, emits, said, streamed, stored>>
    BY <1>10 DEF LeaveSilently
  <2>3. flow' \in FlowStates /\ flow'.pc = "over" /\ flow'.end = flow.end
    BY <1>t, <2>1 DEF FlowStates
  <2>4. EndIsTheExecutors' /\ EndIsOnItsWay'
    BY <1>i, <2>2, <2>3 DEF EndIsTheExecutors, EndIsOnItsWay, EndPcs
  <2>. QED
    BY <1>a, <2>2, <2>3, <2>4
\* The executor tells the end.
<1>e. ASSUME NEW end \in EndSteps, SetStep(end, "executor"), UNCHANGED <<streamed, stored>>, flow' \in FlowStates,
             flow.pc \notin EndPcs, flow'.pc = "ending", flow'.end = end, flow'.left => end = "failed"
      PROVE  ProgressInv' /\ EndStays /\ PercentFalls
  <2>0. end \in ProgressSteps
    BY StepNames DEF EndSteps
  <2>1. /\ progress' \in ProgressStates /\ progress'.step = end
        /\ emits' \in Seq(EmitStates) /\ said' \in Snapshots /\ Len(emits') = Len(emits) + 1
        /\ emits'[Len(emits) + 1].by = "executor" /\ emits'[Len(emits) + 1].says.step = end
        /\ NothingIsWithheld' /\ StreamKeepsUp' /\ PercentFalls
    BY <1>e, <1>s, <2>0
  <2>2. EndIsTheExecutors'
    BY <1>e, <2>1 DEF EndIsTheExecutors, EndPcs
  <2>3. EndIsOnItsWay'
    <3>1. Len(emits) + 1 \in 1..Len(emits')
      BY <1>t, <2>1
    <3>. QED
      BY <1>e, <2>1, <3>1 DEF EndIsOnItsWay
  <2>4. EndStays
    BY <1>e, <1>i DEF EndStays, EndIsTheExecutors
  <2>5. ProgressTypeOK'
    BY <1>e, <1>t, <2>1 DEF ProgressTypeOK
  <2>. QED
    BY <2>1, <2>2, <2>3, <2>4, <2>5 DEF ProgressInv
<1>11. ASSUME NEW end \in {"completed", "awaiting"}, Succeed(end) PROVE ProgressInv' /\ EndStays /\ PercentFalls
  <2>1. /\ flow.pc \in {"navigating", "handling"} /\ SetStep(end, "executor")
        /\ flow' = [flow EXCEPT !.pc = "ending", !.end = end] /\ UNCHANGED <<streamed, stored>>
    BY <1>11 DEF Succeed
  <2>2. end \in EndSteps
    BY DEF EndSteps
  <2>3. flow' \in FlowStates /\ flow'.pc = "ending" /\ flow'.end = end /\ flow'.left = flow.left
    BY <1>t, <2>1, <2>2 DEF FlowStates
  <2>4. flow.pc \notin EndPcs /\ ~flow.left
    BY <1>i, <2>1 DEF EndIsTheExecutors, EndPcs
  <2>. QED
    BY <1>e, <2>1, <2>2, <2>3, <2>4
<1>12. CASE Fail
  <2>1. PICK left \in BOOLEAN : flow' = [flow EXCEPT !.pc = "ending", !.end = "failed", !.left = left]
    BY <1>12 DEF Fail
  <2>2. /\ flow.pc \in {"initializing", "navigating", "handling"} /\ SetStep("failed", "executor")
        /\ UNCHANGED <<streamed, stored>>
    BY <1>12 DEF Fail
  <2>3. flow' \in FlowStates /\ flow'.pc = "ending" /\ flow'.end = "failed"
    BY <1>t, <2>1 DEF FlowStates, EndSteps
  <2>4. flow.pc \notin EndPcs /\ "failed" \in EndSteps
    BY <2>2 DEF EndPcs, EndSteps
  <2>. QED
    BY <1>e, <2>2, <2>3, <2>4
<1>13. CASE Flush
  <2>1. /\ flow.pc \in {"ending", "flushing"} /\ Awaited("executor") /\ UNCHANGED <<streamed, stored>>
    BY <1>13 DEF Flush
  <2>2. flow.end # "none" => flow.end \in stored.told \cup stored.missed
    BY <1>i, <2>1 DEF EndIsOnItsWay, Awaited
  <2>3. CASE Emit(progress, "executor") /\ flow' = [flow EXCEPT !.pc = "flushing"]
    <3>1. /\ progress' \in ProgressStates /\ progress'.step = progress.step /\ progress'.index = progress.index
          /\ emits' \in Seq(EmitStates) /\ said' \in Snapshots /\ NothingIsWithheld' /\ StreamKeepsUp'
      BY <1>t, <2>1, <2>3, EmitsThePresent
    <3>2. flow' \in FlowStates /\ flow'.pc = "flushing" /\ flow'.end = flow.end /\ flow'.left = flow.left
      BY <1>t, <2>3 DEF FlowStates
    <3>3. EndIsTheExecutors' /\ EndIsOnItsWay'
      BY <1>i, <2>1, <2>2, <3>1, <3>2 DEF EndIsTheExecutors, EndIsOnItsWay, EndPcs
    <3>4. ProgressTypeOK'
      BY <1>t, <2>1, <3>1, <3>2 DEF ProgressTypeOK
    <3>. QED
      BY <1>u, <3>1, <3>3, <3>4 DEF ProgressInv
  <2>4. CASE flow' = [flow EXCEPT !.pc = "over"] /\ UNCHANGED <<progress, emits, said>>
    <3>1. flow' \in FlowStates /\ flow'.pc = "over" /\ flow'.end = flow.end /\ flow'.left = flow.left
      BY <1>t, <2>4 DEF FlowStates
    <3>2. EndIsTheExecutors' /\ EndIsOnItsWay'
      BY <1>i, <2>1, <2>2, <2>4, <3>1 DEF EndIsTheExecutors, EndIsOnItsWay, EndPcs
    <3>. QED
      BY <1>a, <2>1, <2>4, <3>1, <3>2
  <2>. QED
    BY <1>13, <2>3, <2>4 DEF Flush
<1>14. CASE StopAdapter
  <2>1. /\ flow.pc = "over" /\ flow' = [flow EXCEPT !.pc = "stopped", !.act = "none"]
        /\ UNCHANGED <<progress, emits, said, streamed, stored>>
    BY <1>14 DEF StopAdapter
  <2>2. flow' \in FlowStates /\ flow'.pc = "stopped" /\ flow'.end = flow.end /\ flow'.left = flow.left
    BY <1>t, <2>1 DEF FlowStates
  <2>3. EndIsTheExecutors' /\ EndIsOnItsWay'
    BY <1>i, <2>1, <2>2 DEF EndIsTheExecutors, EndIsOnItsWay, EndPcs
  <2>. QED
    BY <1>a, <2>1, <2>2, <2>3
<1>15. CASE HandlerGivesUp
  <2>1. flow' = [flow EXCEPT !.left = FALSE] /\ UNCHANGED <<progress, emits, said, streamed, stored>>
    BY <1>15 DEF HandlerGivesUp
  <2>2. flow' \in FlowStates /\ flow'.pc = flow.pc /\ flow'.end = flow.end /\ ~flow'.left
    BY <1>t, <2>1 DEF FlowStates
  <2>3. EndIsTheExecutors' /\ EndIsOnItsWay'
    BY <1>i, <2>1, <2>2 DEF EndIsTheExecutors, EndIsOnItsWay, EndPcs
  <2>. QED
    BY <1>a, <2>1, <2>2, <2>3
<1>16. CASE UNCHANGED progressVars
  <2>1. EndIsTheExecutors' /\ EndIsOnItsWay'
    BY <1>i, <1>16 DEF progressVars, EndIsTheExecutors, EndIsOnItsWay
  <2>. QED
    BY <1>a, <1>t, <1>16, <2>1 DEF progressVars
<1>. QED
  BY <1>1, <1>2, <1>3, <1>4, <1>5, <1>6, <1>7, <1>8, <1>9, <1>10, <1>11, <1>12, <1>13, <1>14, <1>15, <1>16
     DEF ProgressNext

\* What the invariant says to the readers of the progress.
LEMMA ReadersAreTold == ProgressInv => ProgressTypeOK /\ NothingIsWithheld /\ StreamIsCurrent /\ EndIsStored
<1>. SUFFICES ASSUME ProgressInv PROVE StreamIsCurrent /\ EndIsStored
  BY DEF ProgressInv
<1>1. StreamIsCurrent
  <2>. SUFFICES ASSUME WithRedis, ~progress.pending, ~streamed.missed, \A i \in 1..Len(emits) : emits[i].at = "row"
                PROVE  streamed.says = Snapshot(progress)
    BY DEF StreamIsCurrent
  <2>. QED
    BY DEF ProgressInv, NothingIsWithheld, StreamKeepsUp
<1>2. EndIsStored
  BY DEF ProgressInv, EndIsOnItsWay, EndIsStored
<1>. QED
  BY <1>1, <1>2

\* The percentage and the end, over every step of a job.
THEOREM ProgressKeepsItsEnd == ProgressSpec => EndIsFinal /\ PercentKeepsUp
<1>1. ProgressInv /\ [ProgressNext]_progressVars => ProgressInv' /\ [EndStays]_progressVars /\ [PercentFalls]_progressVars
  BY ProgressStep
<1>. QED
  BY <1>1, ProgressStart, PTL DEF ProgressSpec, EndIsFinal, PercentKeepsUp

-----------------------------------------------------------------------------
(* VALET hears of a job's end what its last report says.                   *)

\* How a report's sendings relate to where it is.
Sendings(report) ==
  /\ report.ok <=> report.at = "acknowledged"
  /\ report.at = "sending" => report.arrived + report.late < report.sent
  /\ report.arrived + report.late <= report.sent
  /\ report.at = "backoff" => report.sent <= MAX_RETRIES
  /\ report.at = "given up" => report.sent = MAX_RETRIES + 1

\* The inductive invariant: where reports do not overlap, all but the last are through.
CallbackInv ==
  /\ CallbackTypeOK /\ LastWordIsLast
  /\ \A r \in Reports : Sendings(reports[r])
  /\ ~overlapping => \A r \in Reports : r < Len(reports) => reports[r].ok /\ reports[r].late = 0

\* Nothing was reported.
LEMMA CallbackStart == CallbackInit => CallbackInv
<1>. SUFFICES ASSUME CallbackInit PROVE CallbackInv
  OBVIOUS
<1>1. reports = <<>> /\ valet = "none" /\ overlapping = FALSE /\ Len(reports) = 0 /\ Reports = {}
  BY DEF CallbackInit, Reports
<1>2. CallbackTypeOK
  <2>1. reports \in Seq(CallbackReports)
    BY <1>1, EmptySeq
  <2>. QED
    BY <1>1, <2>1 DEF CallbackTypeOK
<1>3. LastWordIsLast
  BY <1>1 DEF LastWordIsLast
<1>. QED
  BY <1>1, <1>2, <1>3 DEF CallbackInv

\* What follows a failed attempt.
LEMMA NextAttempts ==
  ASSUME NEW report \in CallbackReports, report.arrived + report.late <= report.sent, ~report.ok
  PROVE  /\ NextAttempt(report) \in CallbackReports /\ Sendings(NextAttempt(report))
         /\ NextAttempt(report).status = report.status
         /\ NextAttempt(report).arrived = report.arrived
<1>. DEFINE at == IF report.sent <= MAX_RETRIES THEN "backoff" ELSE "given up"
<1>1. report.sent \in 1..(MAX_RETRIES + 1)
  BY DEF CallbackReports
<1>2. report.sent <= MAX_RETRIES \/ report.sent = MAX_RETRIES + 1
  BY <1>1, CallbackAssumption DEF CallbackAssumption
<1>3. NextAttempt(report) = [report EXCEPT !.at = at]
  BY DEF NextAttempt
<1>4. at \in {"backoff", "given up"} /\ (at = "backoff" => report.sent <= MAX_RETRIES)
      /\ (at = "given up" => report.sent = MAX_RETRIES + 1)
  BY <1>2
<1>. HIDE DEF at
<1>5. /\ NextAttempt(report) \in CallbackReports
      /\ NextAttempt(report).status = report.status /\ NextAttempt(report).at = at
      /\ NextAttempt(report).sent = report.sent /\ NextAttempt(report).arrived = report.arrived
      /\ NextAttempt(report).late = report.late /\ NextAttempt(report).ok = report.ok
  BY <1>3, <1>4 DEF CallbackReports
<1>. QED
  BY <1>4, <1>5 DEF Sendings

\* A step that goes on with one report, and VALET hears of it or does not.
LEMMA OneReportGoesOn ==
  ASSUME CallbackInv, NEW r \in Reports, NEW report \in CallbackReports, Sendings(report),
         reports' = [reports EXCEPT ![r] = report], UNCHANGED overlapping,
         report.status = reports[r].status,
         \/ UNCHANGED valet /\ report.arrived = reports[r].arrived
         \/ valet' = reports[r].status,
         reports[r].ok /\ reports[r].late = 0 => FALSE
  PROVE  CallbackInv'
<1>1. reports \in Seq(CallbackReports) /\ overlapping \in BOOLEAN
  BY DEF CallbackInv, CallbackTypeOK
<1>2. r \in 1..Len(reports) /\ Len(reports) \in Nat
  BY <1>1 DEF Reports
<1>3. /\ reports' \in Seq(CallbackReports) /\ Len(reports') = Len(reports)
      /\ reports'[r] = report /\ \A s \in Reports : s # r => reports'[s] = reports[s]
  BY <1>1, <1>2, ExceptSeq DEF Reports
<1>4. Reports' = Reports
  BY <1>3 DEF Reports
<1>5. \A s \in Reports : Sendings(reports'[s])
  BY <1>3 DEF CallbackInv
<1>6. reports[r] \in CallbackReports /\ \A s \in Reports : reports'[s].status = reports[s].status
  BY <1>1, <1>2, <1>3
<1>7. CallbackTypeOK'
  <2>1. valet' = valet \/ valet' = reports[r].status
    OBVIOUS
  <2>2. reports[r].status \in CallbackStatuses /\ valet \in {"none"} \cup CallbackStatuses
    BY <1>6 DEF CallbackInv, CallbackTypeOK, CallbackReports
  <2>3. valet' \in {"none"} \cup CallbackStatuses
    BY <2>1, <2>2
  <2>. QED
    BY <1>1, <1>3, <2>3 DEF CallbackTypeOK
<1>8. ASSUME ~overlapping
      PROVE  /\ r = Len(reports)
             /\ \A s \in Reports : s < Len(reports) => reports'[s].ok /\ reports'[s].late = 0
  <2>1. \A s \in Reports : s < Len(reports) => reports[s].ok /\ reports[s].late = 0
    BY <1>8 DEF CallbackInv
  <2>2. ~(r < Len(reports)) /\ r \in Reports
    BY <2>1
  <2>3. r = Len(reports)
    BY <2>2, <1>2
  <2>4. ASSUME NEW s \in Reports, s < Len(reports)
        PROVE  reports'[s].ok /\ reports'[s].late = 0
    <3>1. s # r
      BY <2>2, <2>4
    <3>2. reports'[s] = reports[s]
      BY <1>3, <3>1
    <3>. QED
      BY <2>1, <2>4, <3>2
  <2>. QED
    BY <2>3, <2>4
<1>9. LastWordIsLast'
  <2>. SUFFICES ASSUME ~overlapping, reports'[Len(reports')].arrived > 0
                PROVE  valet' = Last'
    BY DEF LastWordIsLast
  <2>0. r = Len(reports) /\ reports # <<>> /\ reports' # <<>>
    <3>0. r = Len(reports)
      BY <1>8
    <3>1. Len(reports) # 0
      BY <1>2
    <3>3. Len(reports') # 0
      BY <1>3, <3>1
    <3>2. Len(<<>>) = 0
      OBVIOUS
    <3>. QED
      BY <3>0, <3>1, <3>2, <3>3
  <2>1. Last' = report.status /\ Last = reports[r].status
    BY <1>3, <2>0 DEF Last
  <2>2. UNCHANGED valet /\ report.arrived = reports[r].arrived => valet = Last
    <3>1. reports'[Len(reports')] = report
      BY <1>3, <2>0
    <3>. QED
      BY <2>0, <3>1 DEF CallbackInv, LastWordIsLast
  <2>. QED
    BY <2>1, <2>2
<1>. QED
  BY <1>3, <1>4, <1>5, <1>7, <1>8, <1>9 DEF CallbackInv

\* Every step of the notifications keeps CallbackInv.
LEMMA CallbackStep == CallbackInv /\ [CallbackNext]_callbackVars => CallbackInv'
<1>. SUFFICES ASSUME CallbackInv, [CallbackNext]_callbackVars PROVE CallbackInv'
  OBVIOUS
<1>1. ASSUME NEW status \in CallbackStatuses, Notify(status) PROVE CallbackInv'
  <2>. DEFINE new == [status |-> status, at |-> "sending", sent |-> 1, arrived |-> 0, late |-> 0, ok |-> FALSE]
  <2>1. reports \in Seq(CallbackReports) /\ overlapping \in BOOLEAN /\ Len(reports) \in Nat
    BY DEF CallbackInv, CallbackTypeOK
  <2>2. new \in CallbackReports /\ Sendings(new) /\ new.status = status /\ new.arrived = 0
    BY CallbackAssumption DEF CallbackAssumption, CallbackReports, Sendings
  <2>3. reports' = Append(reports, new) /\ UNCHANGED valet
        /\ overlapping' = (overlapping \/ \E r \in Reports : ~reports[r].ok \/ reports[r].late > 0)
    BY <1>1 DEF Notify
  <2>. HIDE DEF new
  <2>4. /\ reports' \in Seq(CallbackReports) /\ Len(reports') = Len(reports) + 1
        /\ reports'[Len(reports) + 1] = new /\ \A r \in Reports : reports'[r] = reports[r]
    BY <2>1, <2>2, <2>3, AppendProperties DEF Reports
  <2>5. Reports' = Reports \cup {Len(reports) + 1} /\ \A r \in Reports : r < Len(reports')
    BY <2>1, <2>4 DEF Reports
  <2>6. CallbackTypeOK'
    BY <2>1, <2>3, <2>4 DEF CallbackInv, CallbackTypeOK
  <2>7. \A r \in Reports' : Sendings(reports'[r])
    BY <2>2, <2>4, <2>5 DEF CallbackInv
  <2>8. LastWordIsLast'
    BY <2>2, <2>4 DEF LastWordIsLast
  <2>9. ASSUME ~overlapping', NEW r \in Reports', r < Len(reports')
        PROVE  reports'[r].ok /\ reports'[r].late = 0
    <3>1. r \in Reports /\ reports'[r] = reports[r] /\ reports[r] \in CallbackReports
      BY <2>1, <2>4, <2>5, <2>9 DEF Reports
    <3>2. reports[r].ok /\ ~(reports[r].late > 0)
      BY <2>3, <2>9, <3>1
    <3>3. reports[r].late \in Nat
      BY <3>1 DEF CallbackReports
    <3>. QED
      BY <3>1, <3>2, <3>3
  <2>. QED
    BY <2>6, <2>7, <2>8, <2>9 DEF CallbackInv
<1>2. ASSUME NEW r \in Reports, SendWithRetry(r) \/ ArrivesLate(r) PROVE CallbackInv'
  <2>0. reports[r] \in CallbackReports /\ Sendings(reports[r])
    BY DEF CallbackInv, CallbackTypeOK, Reports
  <2>p. PICK report \in CallbackReports : report = reports[r]
    BY <2>0
  <2>t. Sendings(report)
    BY <2>0, <2>p
  <2>f. /\ report.sent \in 1..(MAX_RETRIES + 1) /\ report.arrived \in Nat /\ report.late \in Nat
        /\ report.ok \in BOOLEAN /\ MAX_RETRIES \in Nat
    BY CallbackAssumption DEF CallbackAssumption, CallbackReports
  <2>1. CASE Acknowledged(r)
    <3>. DEFINE new == [report EXCEPT !.at = "acknowledged", !.ok = TRUE, !.arrived = @ + 1]
    <3>1. /\ reports' = [reports EXCEPT ![r] = new] /\ UNCHANGED overlapping
          /\ valet' = report.status /\ report.at = "sending"
      BY <2>1, <2>p DEF Acknowledged, Arrives
    <3>n. PICK n \in Nat : n = report.arrived + 1
      BY <2>f
    <3>2. /\ new \in CallbackReports /\ new.status = report.status /\ new.at = "acknowledged" /\ new.ok
          /\ new.sent = report.sent /\ new.arrived = n /\ new.late = report.late
      BY <3>n DEF CallbackReports
    <3>. HIDE DEF new
    <3>3. Sendings(new)
      BY <2>t, <2>f, <3>n, <3>1, <3>2 DEF Sendings
    <3>. QED
      BY <2>p, <2>t, <3>1, <3>2, <3>3, OneReportGoesOn DEF Sendings
  <2>2. CASE NotAcknowledged(r)
    <3>. DEFINE new == [report EXCEPT !.arrived = @ + 1]
    <3>1. /\ UNCHANGED overlapping /\ report.at = "sending"
          /\ \/ valet' = report.status /\ reports' = [reports EXCEPT ![r] = NextAttempt(new)]
             \/ UNCHANGED valet /\ reports' = [reports EXCEPT ![r] = NextAttempt(report)]
      BY <2>2, <2>p DEF NotAcknowledged, Arrives
    <3>n. PICK n \in Nat : n = report.arrived + 1
      BY <2>f
    <3>2. /\ new \in CallbackReports /\ new.status = report.status /\ new.at = report.at /\ new.ok = report.ok
          /\ new.sent = report.sent /\ new.arrived = n /\ new.late = report.late
      BY <3>n DEF CallbackReports
    <3>. HIDE DEF new
    <3>3. /\ ~report.ok /\ report.arrived + report.late <= report.sent
          /\ new.arrived + new.late <= new.sent /\ ~new.ok
      BY <2>t, <2>f, <3>n, <3>1, <3>2 DEF Sendings
    <3>4. /\ NextAttempt(new) \in CallbackReports /\ Sendings(NextAttempt(new))
          /\ NextAttempt(new).status = report.status
      BY <3>2, <3>3, NextAttempts
    <3>5. /\ NextAttempt(report) \in CallbackReports /\ Sendings(NextAttempt(report))
          /\ NextAttempt(report).status = report.status /\ NextAttempt(report).arrived = report.arrived
      BY <2>t, <3>3, NextAttempts
    <3>. QED
      BY <2>p, <3>1, <3>3, <3>4, <3>5, OneReportGoesOn
  <2>3. CASE Aborted(r)
    <3>. DEFINE new == [report EXCEPT !.late = @ + 1]
    <3>1. /\ UNCHANGED <<valet, overlapping>> /\ report.at = "sending"
          /\ reports' = [reports EXCEPT ![r] = NextAttempt(new)]
      BY <2>3, <2>p DEF Aborted
    <3>n. PICK n \in Nat : n = report.late + 1
      BY <2>f
    <3>2. /\ new \in CallbackReports /\ new.status = report.status /\ new.at = report.at /\ new.ok = report.ok
          /\ new.sent = report.sent /\ new.arrived = report.arrived /\ new.late = n
      BY <3>n DEF CallbackReports
    <3>. HIDE DEF new
    <3>3. ~report.ok /\ new.arrived + new.late <= new.sent /\ ~new.ok
      BY <2>t, <2>f, <3>n, <3>1, <3>2 DEF Sendings
    <3>4. /\ NextAttempt(new) \in CallbackReports /\ Sendings(NextAttempt(new))
          /\ NextAttempt(new).status = report.status /\ NextAttempt(new).arrived = report.arrived
      BY <3>2, <3>3, NextAttempts
    <3>. QED
      BY <2>p, <3>1, <3>3, <3>4, OneReportGoesOn
  <2>4. CASE SendAgain(r)
    <3>. DEFINE new == [report EXCEPT !.at = "sending", !.sent = @ + 1]
    <3>1. /\ UNCHANGED <<valet, overlapping>> /\ report.at = "backoff"
          /\ reports' = [reports EXCEPT ![r] = new]
      BY <2>4, <2>p DEF SendAgain
    <3>2. report.sent + 1 \in 1..(MAX_RETRIES + 1) /\ ~report.ok
      BY <2>t, <2>f, <3>1 DEF Sendings
    <3>3. /\ new \in CallbackReports /\ new.status = report.status /\ new.at = "sending" /\ new.ok = report.ok
          /\ new.sent = report.sent + 1 /\ new.arrived = report.arrived /\ new.late = report.late
      BY <2>f, <3>2 DEF CallbackReports
    <3>. HIDE DEF new
    <3>4. Sendings(new)
      BY <2>t, <2>f, <3>1, <3>2, <3>3 DEF Sendings
    <3>. QED
      BY <2>p, <3>1, <3>2, <3>3, <3>4, OneReportGoesOn
  <2>5. CASE ArrivesLate(r)
    <3>. DEFINE new == [report EXCEPT !.late = @ - 1, !.arrived = @ + 1]
    <3>1. /\ UNCHANGED overlapping /\ valet' = report.status /\ report.late > 0
          /\ reports' = [reports EXCEPT ![r] = new]
      BY <2>5, <2>p DEF ArrivesLate, Arrives
    <3>2. PICK m \in Nat : m = report.late - 1
      BY <2>f, <3>1
    <3>n. PICK n \in Nat : n = report.arrived + 1
      BY <2>f
    <3>3. /\ new \in CallbackReports /\ new.status = report.status /\ new.at = report.at /\ new.ok = report.ok
          /\ new.sent = report.sent /\ new.arrived = n /\ new.late = m
      BY <3>2, <3>n DEF CallbackReports
    <3>. HIDE DEF new
    <3>4. report.late # 0 /\ n + m = report.arrived + report.late
      BY <2>f, <3>1, <3>2, <3>n
    <3>5. Sendings(new)
      BY <2>t, <3>3, <3>4 DEF Sendings
    <3>. QED
      BY <2>p, <3>1, <3>3, <3>4, <3>5, OneReportGoesOn
  <2>. QED
    BY <1>2, <2>1, <2>2, <2>3, <2>4, <2>5 DEF SendWithRetry
<1>3. CASE UNCHANGED callbackVars
  BY <1>3 DEF callbackVars, CallbackInv, CallbackTypeOK, LastWordIsLast, Last, Reports, Sendings
<1>. QED
  BY <1>1, <1>2, <1>3 DEF CallbackNext

\* What the invariant says of VALET's last word and of the attempts.
LEMMA WordsAreLast == CallbackInv => CallbackTypeOK /\ LastWordIsLast /\ AttemptsAddUp
BY DEF CallbackInv, Sendings, AttemptsAddUp

-----------------------------------------------------------------------------
(* The client's calls for one job: one of them creates it, none undoes its *)
(* end, and one that waits in vain has joined too late, or another removed *)
(* its channel.                                                            *)

\* A channel is that of a wait.
ChannelIsAWaits(c) == asking[c].channel # "none" => asking[c].op = "wait" /\ asking[c].pc \in {"waiting", "over"}

IsWaiting(c, channel) == Asking(c, "wait", "waiting") /\ asking[c].channel = channel

\* Who joined in time has the end of the job to come.
EndIsToCome(c) ==
  IsWaiting(c, "joined") /\ jobRow.status \in TERMINAL_STATUSES /\ ~asking[c].late
  => Len(asking[c].feed) > 0 /\ asking[c].feed[Len(asking[c].feed)] = jobRow.status

AnotherIsOver(c) == \E d \in JobCalls \ {c} : asking[d].op = "wait" /\ asking[d].pc = "over"

\* Whose channel is registered waits, or has waited.
RegisteredWaits ==
  registered # "none" => asking[registered].op = "wait" /\ asking[registered].pc \in {"waiting", "over"}

\* The inductive invariant.
ClientInv ==
  /\ ClientTypeOK /\ OneCreates /\ RegisteredWaits
  /\ jobRow.count = 0 => jobRow.status = "none"
  /\ \A c \in JobCalls :
       /\ asking[c].result = "created" => jobRow.count = 1 /\ Asking(c, "create", "over")
       /\ ChannelIsAWaits(c) /\ EndIsToCome(c)
       /\ IsWaiting(c, "removed") => AnotherIsOver(c)

\* No call was made.
LEMMA ClientStart == ClientInit => ClientInv
<1>. SUFFICES ASSUME ClientInit PROVE ClientInv
  OBVIOUS
<1>1. PICK ops \in [JobCalls -> Operations] : asking = [c \in JobCalls |-> [NewCall EXCEPT !.op = ops[c]]]
  BY DEF ClientInit
<1>2. NewCall \in AskStates /\ NewCall.channel = "none" /\ NewCall.result = "none"
  <2>1. <<>> \in Seq(RowStatuses) /\ 1 \in 1..MaxPolls
    BY EmptySeq, ClientAssumption
  <2>. QED
    BY <2>1 DEF NewCall, AskStates, Operations, Results
<1>3. \A c \in JobCalls : asking[c] \in AskStates /\ asking[c].channel = "none" /\ asking[c].result = "none"
  <2>. SUFFICES ASSUME NEW c \in JobCalls
                PROVE  asking[c] \in AskStates /\ asking[c].channel = "none" /\ asking[c].result = "none"
    OBVIOUS
  <2>1. asking[c] = [NewCall EXCEPT !.op = ops[c]] /\ ops[c] \in Operations
    BY <1>1
  <2>. QED
    BY <1>2, <2>1 DEF AskStates
<1>4. asking \in [JobCalls -> AskStates]
  BY <1>1, <1>3
<1>5. /\ jobRow \in [count : 0..1, status : RowStatuses, retries : Nat]
      /\ jobRow.count = 0 => jobRow.status = "none"
  <2>1. {"none", "running", "failed"} \subseteq RowStatuses
    BY DEF RowStatuses, TERMINAL_STATUSES, CANCELLABLE_STATUSES
  <2>2. CASE jobRow = Absent
    BY <2>1, <2>2 DEF Absent
  <2>3. ASSUME NEW s \in {"running", "failed"}, jobRow = [Absent EXCEPT !.count = 1, !.status = s]
        PROVE  /\ jobRow \in [count : 0..1, status : RowStatuses, retries : Nat]
               /\ jobRow.count = 0 => jobRow.status = "none"
    <3>1. jobRow = [count |-> 1, status |-> s, retries |-> 0]
      BY <2>3 DEF Absent
    <3>. QED
      BY <2>1, <3>1
  <2>. QED
    BY <2>2, <2>3 DEF ClientInit
<1>6. registered = "none" /\ updates = 0
  BY DEF ClientInit
<1>7. ClientTypeOK
  BY <1>4, <1>5, <1>6, ClientAssumption DEF ClientTypeOK
<1>. QED
  BY <1>3, <1>5, <1>6, <1>7 DEF ClientInv, OneCreates, RegisteredWaits, ChannelIsAWaits, EndIsToCome, IsWaiting

\* A call that comes back.
LEMMA CallComes ==
  ASSUME NEW call \in AskStates, NEW result \in Results
  PROVE  /\ Comes(call, result) \in AskStates
         /\ Comes(call, result).pc = "over" /\ Comes(call, result).result = result
         /\ Comes(call, result).op = call.op /\ Comes(call, result).channel = call.channel
BY DEF Comes, AskStates

\* An update of the row goes to the channels that have joined.
LEMMA AllHear ==
  ASSUME asking \in [JobCalls -> AskStates], NEW status \in RowStatuses, NEW c \in JobCalls
  PROVE  /\ Heard(status)[c] \in AskStates
         /\ Heard(status)[c].op = asking[c].op /\ Heard(status)[c].pc = asking[c].pc
         /\ Heard(status)[c].result = asking[c].result /\ Heard(status)[c].channel = asking[c].channel
         /\ Heard(status)[c].late = asking[c].late
         /\ asking[c].channel = "joined" =>
              Len(Heard(status)[c].feed) > 0 /\ Heard(status)[c].feed[Len(Heard(status)[c].feed)] = status
<1>1. PICK call \in AskStates : call = asking[c]
  OBVIOUS
<1>2. call.feed \in Seq(RowStatuses) /\ Len(call.feed) \in Nat
  BY DEF AskStates
<1>. DEFINE feed == Append(call.feed, status)
<1>3. feed \in Seq(RowStatuses) /\ Len(feed) > 0 /\ feed[Len(feed)] = status
  <2>1. /\ Append(call.feed, status) \in Seq(RowStatuses) /\ Len(Append(call.feed, status)) = Len(call.feed) + 1
        /\ Append(call.feed, status)[Len(call.feed) + 1] = status
    BY <1>2, AppendProperties
  <2>. QED
    BY <1>2, <2>1
<1>h. CASE call.channel = "joined"
  <2>1. Heard(status)[c] = [call EXCEPT !.feed = feed]
    BY <1>1, <1>h DEF Heard
  <2>. HIDE DEF feed
  <2>2. [call EXCEPT !.feed = feed] \in AskStates
    BY <1>3 DEF AskStates
  <2>. QED
    BY <1>1, <1>3, <2>1, <2>2 DEF AskStates
<1>5. CASE call.channel # "joined"
  BY <1>1, <1>5 DEF Heard
<1>. QED
  BY <1>1, <1>h, <1>5

\* What each call must keep for the invariant to go on.
LEMMA CallsGoOn ==
  ASSUME ClientInv, ClientTypeOK', RegisteredWaits', jobRow'.count = 0 => jobRow'.status = "none",
         \A c \in JobCalls :
           /\ asking'[c].op = asking[c].op
           /\ asking[c].pc = "over" => asking'[c].pc = "over"
           /\ ChannelIsAWaits(c)' /\ EndIsToCome(c)'
           /\ IsWaiting(c, "removed")' => IsWaiting(c, "removed") \/ AnotherIsOver(c)',
         \/ /\ jobRow'.count = jobRow.count
            /\ \A c \in JobCalls : asking'[c].result = "created" => asking[c].result = "created"
         \/ /\ jobRow.count = 0 /\ jobRow'.count = 1
            /\ \E c \in JobCalls :
                 /\ asking[c].op = "create" /\ asking'[c].pc = "over"
                 /\ \A d \in JobCalls \ {c} : asking'[d].result = asking[d].result
  PROVE  ClientInv'
<1>1. \A c \in JobCalls : IsWaiting(c, "removed")' => AnotherIsOver(c)'
  <2>. SUFFICES ASSUME NEW c \in JobCalls, IsWaiting(c, "removed"), AnotherIsOver(c) PROVE AnotherIsOver(c)'
    BY DEF ClientInv
  <2>. QED
    BY DEF AnotherIsOver
<1>2. /\ OneCreates'
      /\ \A c \in JobCalls : asking'[c].result = "created" => jobRow'.count = 1 /\ Asking(c, "create", "over")'
  BY DEF ClientInv, OneCreates, Asking
<1>. QED
  BY <1>1, <1>2 DEF ClientInv

\* A step of one call, the row as it is.
LEMMA OneCallGoesOn ==
  ASSUME ClientInv, NEW c \in JobCalls, NEW call \in AskStates, asking' = [asking EXCEPT ![c] = call],
         UNCHANGED <<jobRow, updates>>,
         registered' = registered \/ (registered' = c /\ call.op = "wait" /\ call.pc = "waiting"),
         call.op = asking[c].op, call.result # "created",
         asking[c].pc = "over" => call.pc = "over",
         asking[c].op = "wait" /\ asking[c].pc = "waiting" => call.pc \in {"waiting", "over"},
         call.channel # "none" => call.op = "wait" /\ call.pc \in {"waiting", "over"},
         call.pc = "waiting" /\ call.channel = "joined" /\ jobRow.status \in TERMINAL_STATUSES /\ ~call.late =>
           Len(call.feed) > 0 /\ call.feed[Len(call.feed)] = jobRow.status,
         call.pc = "waiting" => call.channel # "removed"
  PROVE  ClientInv'
<1>1. ClientTypeOK
  BY DEF ClientInv
<1>2. asking'[c] = call /\ \A d \in JobCalls : d # c => asking'[d] = asking[d]
  BY <1>1 DEF ClientTypeOK
<1>3. ClientTypeOK'
  BY <1>1 DEF ClientTypeOK
<1>4. \A d \in JobCalls :
        /\ asking'[d].op = asking[d].op
        /\ asking[d].pc = "over" => asking'[d].pc = "over"
        /\ asking'[d].result = "created" => asking[d].result = "created"
  BY <1>2
<1>5. \A d \in JobCalls : ChannelIsAWaits(d)' /\ EndIsToCome(d)' /\ (IsWaiting(d, "removed")' => IsWaiting(d, "removed"))
  BY <1>2 DEF ClientInv, ChannelIsAWaits, EndIsToCome, IsWaiting, Asking
<1>6. jobRow'.count = 0 => jobRow'.status = "none"
  BY DEF ClientInv
<1>7. RegisteredWaits'
  BY <1>1, <1>2 DEF ClientInv, ClientTypeOK, RegisteredWaits
<1>. QED
  BY <1>3, <1>4, <1>5, <1>6, <1>7, CallsGoOn

\* What a channel that is removed leaves of the calls.
LEMMA OneIsRemoved ==
  ASSUME ClientInv, NEW c \in JobCalls, NEW call \in AskStates, RemoveChannel([asking EXCEPT ![c] = call]),
         UNCHANGED <<jobRow, updates>>,
         asking[c].op = "wait", call.op = "wait", call.pc = "over", call.result # "created"
  PROVE  ClientInv'
<1>. DEFINE told == [asking EXCEPT ![c] = call]
<1>1. ClientTypeOK
  BY DEF ClientInv
<1>2. told \in [JobCalls -> AskStates] /\ told[c] = call /\ \A d \in JobCalls : d # c => told[d] = asking[d]
  BY <1>1 DEF ClientTypeOK
<1>. HIDE DEF told
<1>3. /\ registered' = "none"
      /\ \/ asking' = told
         \/ /\ registered \in JobCalls /\ registered # "none"
            /\ asking' = [told EXCEPT ![registered].channel = "removed", ![registered].feed = <<>>]
  BY <1>1 DEF RemoveChannel, told, ClientTypeOK
<1>4. /\ asking' \in [JobCalls -> AskStates]
      /\ \A d \in JobCalls :
           /\ asking'[d].op = told[d].op /\ asking'[d].pc = told[d].pc /\ asking'[d].result = told[d].result
           /\ asking'[d] = told[d] \/ (d = registered /\ registered # "none" /\ asking'[d].channel = "removed")
  <2>1. CASE asking' = told
    BY <1>2, <2>1
  <2>2. CASE /\ registered \in JobCalls /\ registered # "none"
             /\ asking' = [told EXCEPT ![registered].channel = "removed", ![registered].feed = <<>>]
    <3>1. PICK old \in AskStates : old = told[registered]
      BY <1>2, <2>2
    <3>. DEFINE new == [old EXCEPT !.channel = "removed", !.feed = <<>>]
    <3>2. /\ new \in AskStates /\ new.op = old.op /\ new.pc = old.pc /\ new.result = old.result
          /\ new.channel = "removed"
      BY EmptySeq DEF AskStates
    <3>3. asking' = [told EXCEPT ![registered] = new]
      BY <1>2, <2>2, <3>1
    <3>. HIDE DEF new
    <3>. QED
      BY <1>2, <2>2, <3>1, <3>2, <3>3
  <2>. QED
    BY <1>3, <2>1, <2>2
<1>5. ClientTypeOK'
  BY <1>1, <1>3, <1>4 DEF ClientTypeOK
<1>6. \A d \in JobCalls :
        /\ asking'[d].op = asking[d].op
        /\ asking[d].pc = "over" => asking'[d].pc = "over"
        /\ asking'[d].result = "created" => asking[d].result = "created"
  BY <1>2, <1>4
<1>7. \A d \in JobCalls : d # c => AnotherIsOver(d)'
  BY <1>2, <1>4 DEF AnotherIsOver
<1>8. ASSUME NEW d \in JobCalls
      PROVE  /\ ChannelIsAWaits(d)' /\ EndIsToCome(d)'
             /\ IsWaiting(d, "removed")' => AnotherIsOver(d)'
  <2>1. CASE d = c
    BY <1>2, <1>4, <2>1 DEF ChannelIsAWaits, EndIsToCome, IsWaiting, Asking
  <2>2. CASE d # c
    <3>1. told[d] = asking[d] /\ ChannelIsAWaits(d) /\ EndIsToCome(d)
      BY <1>2, <2>2 DEF ClientInv
    <3>2. CASE asking'[d] = asking[d]
      BY <1>7, <2>2, <3>1, <3>2 DEF ChannelIsAWaits, EndIsToCome, IsWaiting, Asking
    <3>3. CASE d = registered /\ registered # "none" /\ asking'[d].channel = "removed"
      <4>1. asking[d].op = "wait" /\ asking[d].pc \in {"waiting", "over"}
        BY <3>3 DEF ClientInv, RegisteredWaits
      <4>2. asking'[d].op = "wait" /\ asking'[d].pc \in {"waiting", "over"}
        BY <1>4, <3>1, <4>1
      <4>. QED
        BY <1>7, <2>2, <3>3, <4>2 DEF ChannelIsAWaits, EndIsToCome, IsWaiting
    <3>. QED
      BY <1>4, <3>1, <3>2, <3>3
  <2>. QED
    BY <2>1, <2>2
<1>9. jobRow'.count = 0 => jobRow'.status = "none"
  BY DEF ClientInv
<1>10. RegisteredWaits'
  BY <1>3 DEF RegisteredWaits
<1>. QED
  BY <1>5, <1>6, <1>8, <1>9, <1>10, CallsGoOn

\* An update of the row that the joined channels hear of.
LEMMA AllGoOn ==
  ASSUME ClientInv, NEW status \in RowStatuses, NEW told \in [JobCalls -> AskStates], asking' = told,
         UNCHANGED registered, updates' \in 0..MaxUpdates,
         jobRow.count = 1, jobRow' \in [count : 0..1, status : RowStatuses, retries : Nat],
         jobRow'.count = 1, jobRow'.status = status,
         \A c \in JobCalls :
           \/ told[c] = Heard(status)[c]
           \/ /\ asking[c].op # "wait" /\ told[c].op = asking[c].op /\ told[c].channel = "none"
              /\ told[c].pc = "over" /\ told[c].result # "created"
  PROVE  ClientInv'
<1>1. ClientTypeOK
  BY DEF ClientInv
<1>2. asking \in [JobCalls -> AskStates]
  BY <1>1 DEF ClientTypeOK
<1>3. ASSUME NEW c \in JobCalls
      PROVE  /\ asking'[c].op = asking[c].op
             /\ asking[c].pc = "over" => asking'[c].pc = "over"
             /\ asking[c].op = "wait" => asking'[c].pc = asking[c].pc
             /\ ChannelIsAWaits(c)' /\ EndIsToCome(c)'
             /\ IsWaiting(c, "removed")' => IsWaiting(c, "removed")
             /\ asking'[c].result = "created" => asking[c].result = "created"
  <2>1. ChannelIsAWaits(c)
    BY DEF ClientInv
  <2>2. CASE told[c] = Heard(status)[c]
    <3>1. /\ told[c].op = asking[c].op /\ told[c].pc = asking[c].pc /\ told[c].result = asking[c].result
          /\ told[c].channel = asking[c].channel
          /\ asking[c].channel = "joined" => Len(told[c].feed) > 0 /\ told[c].feed[Len(told[c].feed)] = status
      BY <1>2, <2>2, AllHear
    <3>. QED
      BY <2>1, <3>1 DEF ChannelIsAWaits, EndIsToCome, IsWaiting, Asking
  <2>3. CASE told[c] # Heard(status)[c]
    BY <2>3 DEF ChannelIsAWaits, EndIsToCome, IsWaiting, Asking
  <2>. QED
    BY <2>2, <2>3
<1>4. ClientTypeOK'
  BY <1>1 DEF ClientTypeOK
<1>5. RegisteredWaits'
  BY <1>1, <1>3 DEF ClientInv, ClientTypeOK, RegisteredWaits
<1>. QED
  BY <1>3, <1>4, <1>5, CallsGoOn

\* Every step of the calls, the worker and Realtime keeps ClientInv.
LEMMA ClientGoesOn == ClientInv /\ [ClientNext]_clientVars => ClientInv' /\ EndRespected
<1>. SUFFICES ASSUME ClientInv, [ClientNext]_clientVars PROVE ClientInv' /\ EndRespected
  OBVIOUS
<1>t. /\ jobRow \in [count : 0..1, status : RowStatuses, retries : Nat]
      /\ asking \in [JobCalls -> AskStates]
      /\ registered \in JobCalls \cup {"none"} /\ updates \in 0..MaxUpdates /\ updates \in Nat
      /\ jobRow.count \in {0, 1}
      /\ jobRow.count = 0 => jobRow.status = "none"
  BY ClientAssumption DEF ClientInv, ClientTypeOK
<1>e. ASSUME UNCHANGED jobRow PROVE EndRespected
  BY <1>e DEF EndRespected
\* A call that comes back with no more than its result.
<1>c. ASSUME NEW c \in JobCalls, NEW result \in Results \ {"created"}, Only(c, Comes(asking[c], result)),
             asking[c].pc # "over", asking[c].channel # "none" => asking[c].op = "wait"
      PROVE  ClientInv' /\ EndRespected
  <2>1. asking[c] \in AskStates
    BY <1>t
  <2>. DEFINE call == Comes(asking[c], result)
  <2>2. /\ call \in AskStates /\ call.pc = "over" /\ call.result = result /\ call.op = asking[c].op
        /\ call.channel = asking[c].channel
    BY <2>1, CallComes
  <2>3. asking' = [asking EXCEPT ![c] = call] /\ UNCHANGED <<jobRow, registered, updates>>
    BY <1>c DEF Only
  <2>. HIDE DEF call
  <2>. QED
    BY <1>c, <1>e, <2>2, <2>3, OneCallGoesOn
\* Not yet over, and without a channel: a call that goes on to read, write or sleep.
<1>g. ASSUME NEW c \in JobCalls, NEW call \in AskStates, Only(c, call), call.op = asking[c].op,
             asking[c].op # "wait", asking[c].pc # "over", call.channel = asking[c].channel,
             call.pc # "waiting", call.result # "created"
      PROVE  ClientInv' /\ EndRespected
  <2>1. asking' = [asking EXCEPT ![c] = call] /\ UNCHANGED <<jobRow, registered, updates>>
    BY <1>g DEF Only
  <2>2. call.channel = "none"
    BY <1>g DEF ClientInv, ChannelIsAWaits
  <2>. QED
    BY <1>e, <1>g, <2>1, <2>2, OneCallGoesOn
<1>r. {"duplicate", "cancelled", "refused", "retried", "resolved", "timeout", "error"} \subseteq Results \ {"created"}
  BY DEF Results
<1>w. ASSUME NEW c \in JobCalls PROVE asking[c].channel # "none" => asking[c].op = "wait"
  BY DEF ClientInv, ChannelIsAWaits
<1>p. ASSUME NEW c \in JobCalls PROVE \E call \in AskStates : call = asking[c]
  BY <1>t
<1>n. ASSUME NEW c \in JobCalls, asking[c].op # "create" \/ asking[c].pc # "over" PROVE asking[c].result # "created"
  BY <1>n DEF ClientInv, Asking
<1>1. ASSUME NEW c \in JobCalls, LookUpKey(c) PROVE ClientInv' /\ EndRespected
  <2>1. asking[c].op = "create" /\ asking[c].pc = "begin"
    BY <1>1 DEF LookUpKey, Asking
  <2>2. CASE jobRow.count > 0
    <3>1. Only(c, Comes(asking[c], "duplicate"))
      BY <1>1, <2>2 DEF LookUpKey
    <3>. QED
      BY <1>c, <1>r, <1>w, <2>1, <3>1
  <2>3. CASE ~(jobRow.count > 0)
    <3>1. PICK old \in AskStates : old = asking[c]
      BY <1>p
    <3>. DEFINE call == [old EXCEPT !.pc = "insert"]
    <3>2. call \in AskStates /\ call.op = old.op /\ call.pc = "insert" /\ call.channel = old.channel /\ call.result = old.result
      BY DEF AskStates
    <3>3. Only(c, call)
      BY <1>1, <2>3, <3>1 DEF LookUpKey
    <3>4. old.result # "created"
      BY <1>n, <2>1, <3>1
    <3>. HIDE DEF call
    <3>. QED
      BY <1>g, <2>1, <3>1, <3>2, <3>3, <3>4
  <2>. QED
    BY <2>2, <2>3
<1>2. ASSUME NEW c \in JobCalls, InsertJob(c) PROVE ClientInv' /\ EndRespected
  <2>1. asking[c].op = "create" /\ asking[c].pc = "insert"
    BY <1>2 DEF InsertJob, Asking
  <2>2. CASE jobRow.count > 0
    <3>1. Only(c, Comes(asking[c], "duplicate"))
      BY <1>2, <2>2 DEF InsertJob
    <3>. QED
      BY <1>c, <1>r, <1>w, <2>1, <3>1
  <2>3. CASE ~(jobRow.count > 0)
    <3>1. /\ jobRow' = [count |-> 1, status |-> "pending", retries |-> 0]
          /\ asking' = [asking EXCEPT ![c] = Comes(asking[c], "created")] /\ UNCHANGED <<registered, updates>>
      BY <1>2, <2>3 DEF InsertJob
    <3>2. PICK call \in AskStates : /\ call = Comes(asking[c], "created") /\ call.pc = "over" /\ call.result = "created"
                                    /\ call.op = asking[c].op /\ call.channel = asking[c].channel
      <4>1. asking[c] \in AskStates /\ "created" \in Results
        BY <1>t DEF Results
      <4>. QED
        BY <4>1, CallComes
    <3>3. asking'[c] = call /\ \A d \in JobCalls : d # c => asking'[d] = asking[d]
      BY <1>t, <3>1, <3>2
    <3>4. asking' \in [JobCalls -> AskStates]
      BY <1>t, <3>1, <3>2
    <3>5. jobRow'.count = 1 /\ jobRow'.status = "pending" /\ jobRow.count = 0 /\ jobRow.status = "none"
      BY <1>t, <2>3, <3>1
    <3>6. jobRow' \in [count : 0..1, status : RowStatuses, retries : Nat]
      BY <3>1 DEF RowStatuses, CANCELLABLE_STATUSES
    <3>7. ClientTypeOK'
      BY <1>t, <3>1, <3>4, <3>6 DEF ClientTypeOK
    <3>8. RegisteredWaits'
      BY <2>1, <3>1, <3>3 DEF ClientInv, ClientTypeOK, RegisteredWaits
    <3>9. "pending" \notin TERMINAL_STATUSES
      BY DEF TERMINAL_STATUSES
    <3>10. ASSUME NEW d \in JobCalls
           PROVE  /\ ChannelIsAWaits(d)' /\ EndIsToCome(d)'
                  /\ IsWaiting(d, "removed")' => IsWaiting(d, "removed")
                  /\ asking'[d].op = asking[d].op /\ (asking[d].pc = "over" => asking'[d].pc = "over")
      BY <1>w, <3>2, <3>3, <3>5, <3>9 DEF ClientInv, ChannelIsAWaits, EndIsToCome, IsWaiting, Asking
    <3>11. ClientInv'
      BY <2>1, <3>2, <3>3, <3>5, <3>7, <3>8, <3>10, CallsGoOn
    <3>. QED
      BY <3>5, <3>11 DEF EndRespected
  <2>. QED
    BY <2>2, <2>3
<1>3. ASSUME NEW c \in JobCalls, ReadJob(c) PROVE ClientInv' /\ EndRespected
  <2>1. asking[c].op \in {"cancel", "retry"} /\ asking[c].pc = "begin"
    BY <1>3 DEF ReadJob, Asking
  <2>2. CASE Only(c, [asking[c] EXCEPT !.pc = "write", !.saw = jobRow.retries])
    <3>1. PICK old \in AskStates : old = asking[c]
      BY <1>p
    <3>. DEFINE call == [old EXCEPT !.pc = "write", !.saw = jobRow.retries]
    <3>2. call \in AskStates /\ call.op = old.op /\ call.pc = "write" /\ call.channel = old.channel /\ call.result = old.result
      BY <1>t DEF AskStates
    <3>3. Only(c, call)
      BY <2>2, <3>1
    <3>4. old.result # "created"
      BY <1>n, <2>1, <3>1
    <3>. HIDE DEF call
    <3>. QED
      BY <1>g, <2>1, <3>1, <3>2, <3>3, <3>4
  <2>3. CASE \E result \in {"error", "refused"} : Only(c, Comes(asking[c], result))
    BY <1>c, <1>r, <1>w, <2>1, <2>3
  <2>. QED
    BY <1>3, <2>2, <2>3 DEF ReadJob
\* The row is written, and the channels hear of it.
<1>u. ASSUME NEW c \in JobCalls, NEW status \in RowStatuses, NEW retries \in Nat,
             NEW result \in Results \ {"created"},
             Write(status, retries, c, Comes(asking[c], result)), jobRow.status # "none",
             asking[c].op # "wait"
      PROVE  ClientInv' /\ jobRow'.status = status
  <2>1. PICK call \in AskStates : /\ call = Comes(asking[c], result) /\ call.pc = "over" /\ call.result = result
                                  /\ call.op = asking[c].op /\ call.channel = asking[c].channel
    <3>1. asking[c] \in AskStates
      BY <1>t
    <3>. QED
      BY <3>1, CallComes
  <2>2. /\ jobRow' = [jobRow EXCEPT !.status = status, !.retries = retries] /\ UNCHANGED <<registered, updates>>
        /\ asking' = [Heard(status) EXCEPT ![c] = call]
    BY <1>u, <2>1 DEF Write
  <2>3. Heard(status) \in [JobCalls -> AskStates]
    <3>1. \A d \in JobCalls : Heard(status)[d] \in AskStates
      BY <1>t, AllHear
    <3>2. Heard(status) = [d \in JobCalls |-> Heard(status)[d]]
      BY DEF Heard
    <3>. QED
      BY <3>1, <3>2
  <2>4. PICK told \in [JobCalls -> AskStates] : asking' = told /\ told[c] = call /\ \A d \in JobCalls : d # c => told[d] = Heard(status)[d]
    BY <2>2, <2>3
  <2>5. /\ jobRow.count = 1 /\ jobRow' \in [count : 0..1, status : RowStatuses, retries : Nat]
        /\ jobRow'.count = 1 /\ jobRow'.status = status
    BY <1>t, <1>u, <2>2
  <2>6. call.channel = "none"
    BY <1>u, <1>w, <2>1
  <2>7. updates' \in 0..MaxUpdates
    BY <1>t, <2>2
  <2>. QED
    BY <1>u, <2>1, <2>2, <2>4, <2>5, <2>6, <2>7, AllGoOn
<1>4. ASSUME NEW c \in JobCalls, Cancel(c) PROVE ClientInv' /\ EndRespected
  <2>1. asking[c].op = "cancel" /\ asking[c].pc = "write"
    BY <1>4 DEF Cancel, Asking
  <2>2. CASE jobRow.status \in CANCELLABLE_STATUSES
    <3>1. Write("cancelled", jobRow.retries, c, Comes(asking[c], "cancelled"))
      BY <1>4, <2>2 DEF Cancel
    <3>2. "cancelled" \in RowStatuses /\ jobRow.status # "none" /\ jobRow.retries \in Nat
      BY <1>t, <2>2 DEF RowStatuses, TERMINAL_STATUSES, CANCELLABLE_STATUSES
    <3>. QED
      BY <1>r, <1>u, <2>1, <2>2, <3>1, <3>2 DEF EndRespected
  <2>3. CASE jobRow.status \notin CANCELLABLE_STATUSES
    <3>1. Only(c, Comes(asking[c], "refused"))
      BY <1>4, <2>3 DEF Cancel
    <3>. QED
      BY <1>c, <1>r, <1>w, <2>1, <3>1
  <2>. QED
    BY <2>2, <2>3
<1>5. ASSUME NEW c \in JobCalls, Retry(c) PROVE ClientInv' /\ EndRespected
  <2>1. asking[c].op = "retry" /\ asking[c].pc = "write"
    BY <1>5 DEF Retry, Asking
  <2>2. CASE jobRow.status \in {"failed", "cancelled"}
    <3>1. Write("pending", asking[c].saw + 1, c, Comes(asking[c], "retried"))
      BY <1>5, <2>2 DEF Retry
    <3>2. "pending" \in RowStatuses
      BY DEF RowStatuses, CANCELLABLE_STATUSES
    <3>3. asking[c].saw + 1 \in Nat
      <4>1. asking[c] \in AskStates
        BY <1>t
      <4>2. asking[c].saw \in Nat
        BY <4>1 DEF AskStates
      <4>. QED
        BY <4>2
    <3>4. jobRow.status # "none"
      BY <2>2
    <3>. QED
      BY <1>r, <1>u, <2>1, <2>2, <3>1, <3>2, <3>3, <3>4 DEF EndRespected
  <2>3. CASE jobRow.status \notin {"failed", "cancelled"}
    <3>1. Only(c, Comes(asking[c], "refused"))
      BY <1>5, <2>3 DEF Retry
    <3>. QED
      BY <1>c, <1>r, <1>w, <2>1, <3>1
  <2>. QED
    BY <2>2, <2>3
<1>6. ASSUME NEW c \in JobCalls, Subscribe(c) PROVE ClientInv' /\ EndRespected
  <2>1. PICK old \in AskStates : old = asking[c]
    BY <1>p
  <2>. DEFINE isLate == jobRow.status \in TERMINAL_STATUSES
              call == [old EXCEPT !.pc = "waiting", !.channel = "joining", !.late = isLate]
  <2>2. /\ asking[c].op = "wait" /\ asking[c].pc = "begin" /\ registered' = c /\ UNCHANGED <<jobRow, updates>>
        /\ asking' = [asking EXCEPT ![c] = call]
    BY <1>t, <1>6, <2>1 DEF Subscribe, Asking
  <2>3. isLate \in BOOLEAN
    OBVIOUS
  <2>. HIDE DEF isLate
  <2>4. /\ call \in AskStates /\ call.op = old.op /\ call.pc = "waiting" /\ call.channel = "joining"
        /\ call.result = old.result
    BY <2>3 DEF AskStates
  <2>5. old.result # "created"
    BY <1>n, <2>1, <2>2
  <2>. HIDE DEF call
  <2>. QED
    BY <1>e, <2>1, <2>2, <2>4, <2>5, OneCallGoesOn
<1>7. ASSUME NEW c \in JobCalls, Join(c) PROVE ClientInv' /\ EndRespected
  <2>1. PICK old \in AskStates : old = asking[c]
    BY <1>p
  <2>. DEFINE isLate == jobRow.status \in TERMINAL_STATUSES
              call == [old EXCEPT !.channel = "joined", !.late = isLate]
  <2>2. /\ asking[c].channel = "joining" /\ UNCHANGED <<jobRow, registered, updates>>
        /\ asking' = [asking EXCEPT ![c] = call]
    BY <1>7, <2>1 DEF Join, Only
  <2>3. isLate \in BOOLEAN
    OBVIOUS
  <2>4. /\ call \in AskStates /\ call.op = old.op /\ call.pc = old.pc /\ call.channel = "joined"
        /\ call.result = old.result /\ call.late = isLate
    <3>. HIDE DEF isLate
    <3>. QED
      BY <2>3 DEF AskStates
  <2>5. old.op = "wait" /\ old.pc \in {"waiting", "over"}
    BY <2>1, <2>2 DEF ClientInv, ChannelIsAWaits
  <2>6. old.result # "created"
    BY <1>n, <2>1, <2>5
  <2>. HIDE DEF call
  <2>. QED
    BY <1>e, <2>1, <2>2, <2>4, <2>5, <2>6, OneCallGoesOn
<1>8. ASSUME NEW c \in JobCalls, ChannelFails(c) PROVE ClientInv' /\ EndRespected
  <2>1. PICK old \in AskStates : old = asking[c]
    BY <1>p
  <2>. DEFINE failed == [old EXCEPT !.channel = "failed"]
  <2>2. failed \in AskStates /\ failed.op = old.op /\ failed.channel = "failed" /\ "error" \in Results
    BY DEF AskStates, Results
  <2>3. /\ asking[c].op = "wait" /\ asking[c].pc = "waiting" /\ UNCHANGED <<jobRow, registered, updates>>
        /\ asking' = [asking EXCEPT ![c] = Comes(failed, "error")]
    BY <1>8, <2>1 DEF ChannelFails, Asking, Only
  <2>. HIDE DEF failed
  <2>4. PICK call \in AskStates : /\ call = Comes(failed, "error") /\ call.pc = "over" /\ call.result = "error"
                                  /\ call.op = old.op
    BY <2>2, CallComes
  <2>. QED
    BY <1>e, <2>1, <2>3, <2>4, OneCallGoesOn
<1>9. ASSUME NEW c \in JobCalls, OnUpdate(c) PROVE ClientInv' /\ EndRespected
  <2>1. PICK old \in AskStates : old = asking[c]
    BY <1>p
  <2>. DEFINE call == [old EXCEPT !.feed = Tail(old.feed)]
  <2>2. /\ old.channel = "joined" /\ old.feed # <<>> /\ UNCHANGED <<jobRow, updates>>
        /\ \/ /\ Head(old.feed) \in TERMINAL_STATUSES
              /\ RemoveChannel([asking EXCEPT ![c] = IF call.pc = "waiting" THEN Comes(call, "resolved") ELSE call])
           \/ /\ Head(old.feed) \notin TERMINAL_STATUSES
              /\ asking' = [asking EXCEPT ![c] = call] /\ UNCHANGED registered
    BY <1>9, <2>1 DEF OnUpdate
  <2>3. /\ old.feed \in Seq(RowStatuses) /\ Tail(old.feed) \in Seq(RowStatuses)
        /\ Len(old.feed) \in Nat /\ Len(old.feed) # 0 /\ Len(Tail(old.feed)) = Len(old.feed) - 1
        /\ Head(old.feed) = old.feed[1]
        /\ \A k \in 1..(Len(old.feed) - 1) : Tail(old.feed)[k] = old.feed[k + 1]
    <3>1. old.feed \in Seq(RowStatuses)
      BY DEF AskStates
    <3>. QED
      BY <2>2, <3>1, HeadTailProperties
  <2>4. /\ call \in AskStates /\ call.op = old.op /\ call.pc = old.pc /\ call.channel = "joined"
        /\ call.result = old.result /\ call.late = old.late /\ call.feed = Tail(old.feed)
    BY <2>2, <2>3 DEF AskStates
  <2>5. old.op = "wait" /\ old.pc \in {"waiting", "over"} /\ old.result # "created"
    BY <1>n, <2>1, <2>2 DEF ClientInv, ChannelIsAWaits
  <2>. HIDE DEF call
  <2>6. CASE Head(old.feed) \in TERMINAL_STATUSES
    <3>1. PICK done \in AskStates : /\ done = (IF call.pc = "waiting" THEN Comes(call, "resolved") ELSE call)
                                    /\ done.op = "wait" /\ done.pc = "over" /\ done.result # "created"
      <4>1. /\ Comes(call, "resolved") \in AskStates /\ Comes(call, "resolved").pc = "over"
            /\ Comes(call, "resolved").result = "resolved" /\ Comes(call, "resolved").op = call.op
        BY <1>r, <2>4, CallComes
      <4>. QED
        BY <2>4, <2>5, <4>1
    <3>2. RemoveChannel([asking EXCEPT ![c] = done])
      BY <2>2, <2>6, <3>1
    <3>. QED
      BY <1>e, <2>1, <2>2, <2>5, <3>1, <3>2, OneIsRemoved
  <2>7. CASE Head(old.feed) \notin TERMINAL_STATUSES
    <3>1. ASSUME call.pc = "waiting", jobRow.status \in TERMINAL_STATUSES, ~call.late
          PROVE  Len(call.feed) > 0 /\ call.feed[Len(call.feed)] = jobRow.status
      <4>1. Len(old.feed) > 0 /\ old.feed[Len(old.feed)] = jobRow.status
        BY <2>1, <2>2, <2>4, <2>5, <3>1 DEF ClientInv, EndIsToCome, IsWaiting, Asking
      <4>2. Len(old.feed) # 1
        BY <2>3, <2>7, <3>1, <4>1
      <4>3. PICK n \in Nat : n = Len(old.feed)
        BY <2>3
      <4>4. n # 0 /\ n # 1
        BY <2>3, <4>2, <4>3
      <4>5. n - 1 \in 1..(n - 1) /\ n - 1 + 1 = n /\ n - 1 > 0
        BY <4>4
      <4>6. Tail(old.feed)[n - 1] = old.feed[n]
        BY <2>3, <4>3, <4>5
      <4>7. Len(call.feed) = n - 1
        BY <2>3, <2>4, <4>3
      <4>. QED
        BY <2>4, <4>1, <4>3, <4>5, <4>6, <4>7
    <3>2. asking' = [asking EXCEPT ![c] = call] /\ UNCHANGED registered
      BY <2>2, <2>7
    <3>. QED
      BY <1>e, <2>1, <2>2, <2>4, <2>5, <3>1, <3>2, OneCallGoesOn
  <2>. QED
    BY <2>6, <2>7
<1>10. ASSUME NEW c \in JobCalls, WaitTimesOut(c) PROVE ClientInv' /\ EndRespected
  <2>1. /\ asking[c].op = "wait" /\ UNCHANGED <<jobRow, updates>>
        /\ RemoveChannel([asking EXCEPT ![c] = Comes(asking[c], "timeout")])
    BY <1>10 DEF WaitTimesOut, Asking
  <2>2. PICK call \in AskStates : /\ call = Comes(asking[c], "timeout") /\ call.pc = "over"
                                  /\ call.result = "timeout" /\ call.op = asking[c].op
    <3>1. asking[c] \in AskStates
      BY <1>t
    <3>2. "timeout" \in Results
      BY DEF Results
    <3>. QED
      BY <3>1, <3>2, CallComes
  <2>. QED
    BY <1>e, <2>1, <2>2, OneIsRemoved
<1>11. ASSUME NEW c \in JobCalls, Poll(c) PROVE ClientInv' /\ EndRespected
  <2>1. asking[c].op = "poll" /\ asking[c].pc = "begin"
    BY <1>11 DEF Poll, Asking
  <2>2. CASE Only(c, [asking[c] EXCEPT !.pc = "asleep"])
    <3>1. PICK old \in AskStates : old = asking[c]
      BY <1>p
    <3>. DEFINE call == [old EXCEPT !.pc = "asleep"]
    <3>2. call \in AskStates /\ call.op = old.op /\ call.pc = "asleep" /\ call.channel = old.channel /\ call.result = old.result
      BY DEF AskStates
    <3>3. Only(c, call) /\ old.result # "created"
      BY <1>n, <2>1, <2>2, <3>1
    <3>. HIDE DEF call
    <3>. QED
      BY <1>g, <2>1, <3>1, <3>2, <3>3
  <2>3. CASE \E result \in {"error", "resolved"} : Only(c, Comes(asking[c], result))
    BY <1>c, <1>r, <1>w, <2>1, <2>3
  <2>. QED
    BY <1>11, <2>2, <2>3 DEF Poll
<1>12. ASSUME NEW c \in JobCalls, PollAgain(c) PROVE ClientInv' /\ EndRespected
  <2>1. asking[c].op = "poll" /\ asking[c].pc = "asleep"
    BY <1>12 DEF PollAgain, Asking
  <2>2. CASE asking[c].polls # MaxPolls
    <3>1. PICK old \in AskStates : old = asking[c]
      BY <1>p
    <3>p. PICK polls \in 1..MaxPolls : polls = old.polls + 1
      <4>1. old.polls \in 1..MaxPolls
        BY DEF AskStates
      <4>. QED
        BY <2>2, <3>1, <4>1, ClientAssumption
    <3>. DEFINE call == [old EXCEPT !.pc = "begin", !.polls = polls]
    <3>2. call \in AskStates /\ call.op = old.op /\ call.pc = "begin" /\ call.channel = old.channel /\ call.result = old.result
      BY DEF AskStates
    <3>3. Only(c, call) /\ old.result # "created"
      BY <1>12, <1>n, <2>1, <2>2, <3>1, <3>p DEF PollAgain
    <3>. HIDE DEF call
    <3>. QED
      BY <1>g, <2>1, <3>1, <3>2, <3>3
  <2>3. CASE asking[c].polls = MaxPolls
    <3>1. Only(c, Comes(asking[c], "timeout"))
      BY <1>12, <2>3 DEF PollAgain
    <3>. QED
      BY <1>c, <1>r, <1>w, <2>1, <3>1
  <2>. QED
    BY <2>2, <2>3
<1>13. ASSUME NEW status \in RowStatuses, WorkerUpdates(status) PROVE ClientInv' /\ EndRespected
  <2>1. /\ status \in WorkerSteps(jobRow.status) /\ updates' = updates + 1 /\ updates < MaxUpdates
        /\ jobRow' = [jobRow EXCEPT !.status = status] /\ asking' = Heard(status) /\ UNCHANGED registered
    BY <1>13 DEF WorkerUpdates
  <2>2. jobRow.status # "none" /\ status # "cancelled"
    BY <2>1 DEF WorkerSteps
  <2>3. updates' \in 0..MaxUpdates /\ updates' # updates
    BY <1>t, <2>1, ClientAssumption
  <2>4. PICK told \in [JobCalls -> AskStates] : told = Heard(status)
    <3>1. \A d \in JobCalls : Heard(status)[d] \in AskStates
      BY <1>t, AllHear
    <3>2. Heard(status) = [d \in JobCalls |-> Heard(status)[d]]
      BY DEF Heard
    <3>. QED
      BY <3>1, <3>2
  <2>5. /\ jobRow.count = 1 /\ jobRow' \in [count : 0..1, status : RowStatuses, retries : Nat]
        /\ jobRow'.count = 1 /\ jobRow'.status = status
    BY <1>t, <2>1, <2>2
  <2>6. ClientInv'
    BY <2>1, <2>3, <2>4, <2>5, AllGoOn
  <2>. QED
    BY <2>2, <2>3, <2>5, <2>6 DEF EndRespected
<1>14. CASE UNCHANGED clientVars
  <2>1. ClientInv'
    BY <1>14 DEF clientVars, ClientInv, ClientTypeOK, OneCreates, RegisteredWaits, ChannelIsAWaits, EndIsToCome,
                 IsWaiting, Asking, AnotherIsOver
  <2>. QED
    BY <1>e, <1>14, <2>1 DEF clientVars
<1>. QED
  BY <1>1, <1>2, <1>3, <1>4, <1>5, <1>6, <1>7, <1>8, <1>9, <1>10, <1>11, <1>12, <1>13, <1>14
     DEF ClientNext, ClientStep, Wait

\* What the invariant says to those who call.
LEMMA CallersAreTold == ClientInv => ClientTypeOK /\ OneCreates /\ SilenceHasReason
<1>. SUFFICES ASSUME ClientInv PROVE SilenceHasReason
  BY DEF ClientInv
<1>. SUFFICES ASSUME NEW c \in JobCalls, Asking(c, "wait", "waiting"), asking[c].channel \in {"joined", "removed"},
                     asking[c].feed = <<>>, jobRow.status \in TERMINAL_STATUSES, ~asking[c].late
              PROVE  asking[c].channel = "removed" /\ AnotherIsOver(c)
  BY DEF SilenceHasReason, AnotherIsOver
<1>1. Len(asking[c].feed) = 0
  BY EmptySeq
<1>. QED
  BY <1>1 DEF ClientInv, EndIsToCome, IsWaiting

\* In every step of the client and of the worker, an end is respected.
THEOREM EndsAreRespected == ClientSpec => CallsRespectTheEnd
<1>1. ClientInv /\ [ClientNext]_clientVars => ClientInv' /\ [EndRespected]_clientVars
  BY ClientGoesOn
<1>. QED
  BY <1>1, ClientStart, PTL DEF ClientSpec, CallsRespectTheEnd

-----------------------------------------------------------------------------
(* What a deploy tells of its end is so, unless two have met; and two meet *)
(* only when both had looked at currentDeploy before either set it.        *)

Running(c) == [state |-> "running", by |-> c]

\* Before it starts the services, a call has the first of them before it, and what it
\* removes has a name.
StartsWithFirst(call) ==
  /\ call.pc \in {"idle", "body", "pull", "list", "next", "drain", "stop", "remove"} => call.i = 1
  /\ call.pc \in {"drain", "stop", "remove"} => call.target \in Targets

\* Until then, whatever there is, the call has still to remove.
Clears(call, held) ==
  call.pc \in {"next", "drain", "stop", "remove"} =>
    \A n \in Names : held[n] # NoContainer =>
      \/ \E t \in call.todo : t.name = n /\ t.by = held[n].by
      \/ call.pc # "next" /\ call.target.name = n /\ call.target.by = held[n].by

\* From then on there is what it has started, up to where it is, and nothing else.
Stage(c, pc) ==
  CASE pc = "create" -> NoContainer
    [] pc = "start"  -> [state |-> "created", by |-> c]
    [] OTHER -> Running(c)
Before(call) == IF call.i = 1 THEN {} ELSE {"api"}
Builds(c, call, held) ==
  call.pc \in {"create", "start", "health", "giveup"} =>
    \A n \in Names : held[n] = IF n = StartOrder[call.i] THEN Stage(c, call.pc)
                               ELSE IF n \in Before(call) THEN Running(c) ELSE NoContainer
\* And no worker drains: the one that was told to is gone, and no poll has met it.
HeardWell(call) ==
  call.heard # "draining" /\ (call.heard = "working" => StartOrder[call.i] = "worker")
Refreshed(call, drains) ==
  /\ call.pc \in {"create", "start", "health", "giveup"} => ~drains
  /\ call.pc = "giveup" => HeardWell(call)

\* Only what runs listens, and where nobody does there is nothing to drain.
ListenersRun ==
  /\ \A s \in Services : listening[s] # Vacant => containers[listening[s]].state = "running"
  /\ listening["worker"] = Vacant => pickup = NoPickup

\* Until two have met, a call at work has the variable to itself, and whoever came late
\* was refused.
OneAtWork ==
  \A c \in Calls : /\ AtDeploy(c) => currentDeploy = c
                   /\ c \in late => calls[c].pc \notin {"idle", "body"}

DeployInv ==
  /\ DeployTypeOK /\ ListenersRun
  /\ \A c \in Calls : StartsWithFirst(calls[c])
  /\ ~raced => OneAtWork
  /\ ~raced => \A c \in Calls : /\ Clears(calls[c], containers)
                                /\ Builds(c, calls[c], containers)
                                /\ Refreshed(calls[c], pickup.draining)

\* The word of a deploy that ends: what its result says of what there is.
KeepsWord(c, call, result) ==
  /\ result = "success" =>
       \A n \in Names : containers[n] = (IF n \in Services THEN Running(c) ELSE NoContainer)
  /\ result = "unhealthy" =>
       containers[StartOrder[call.i]] = Running(c) /\ HeardWell(call)

\* The services and containers there are.
LEMMA NamesAre ==
  /\ Names = {"api", "worker", "api-1", "worker-1"} /\ Services = {"api", "worker"}
  /\ Composed = [s \in Services |-> IF s = "api" THEN "api-1" ELSE "worker-1"]
  /\ StartOrder[1] = "api" /\ StartOrder[2] = "worker" /\ Len(StartOrder) = 2
  /\ Vacant \notin Names /\ NoContainer \in Containers
<1>1. Composed["api"] = "api-1" /\ Composed["worker"] = "worker-1"
  BY DEF Composed, Services
<1>2. Names = {"api", "worker", "api-1", "worker-1"}
  BY <1>1 DEF Names, Services
<1>3. NoContainer \in Containers
  BY DEF NoContainer, Containers, Owners
<1>4. StartOrder[1] = "api" /\ StartOrder[2] = "worker" /\ Len(StartOrder) = 2
  BY DEF StartOrder
<1>. QED
  BY <1>2, <1>3, <1>4 DEF Composed, Services, Vacant

\* The host's part of the invariant.
HostIsWell ==
  /\ containers \in [Names -> Containers] /\ listening \in [Services -> Names \cup {Vacant}]
  /\ \A s \in Services : listening[s] \in {Vacant, s, Composed[s]}
  /\ pickup \in [draining : BOOLEAN, job : BOOLEAN] /\ ListenersRun

\* A step of one call at work.
LEMMA CallGoesOn ==
  ASSUME DeployInv, NEW c \in Calls, AtDeploy(c), NEW call \in DeployCalls,
         calls' = [calls EXCEPT ![c] = call], call.pc \notin {"idle", "body"},
         UNCHANGED <<late, raced, serverDeaths>>,
         currentDeploy' = (IF call.pc \in AtWorkPcs THEN currentDeploy ELSE "null"),
         HostIsWell', StartsWithFirst(call),
         ~raced => /\ Clears(call, containers') /\ Builds(c, call, containers')
                   /\ Refreshed(call, pickup'.draining) /\ KeepsWord(c, calls[c], call.pc)
  PROVE  DeployInv' /\ MeetOnlyByRace /\ TellsTheTruth
<1>t. /\ DeployTypeOK /\ calls \in [Calls -> DeployCalls] /\ currentDeploy \in Calls \cup {"null"}
      /\ ~raced => OneAtWork
  BY DEF DeployInv, DeployTypeOK
<1>1. calls'[c] = call /\ \A d \in Calls : d # c => calls'[d] = calls[d]
  BY <1>t
<1>2. DeployTypeOK'
  BY <1>t DEF DeployTypeOK, HostIsWell
<1>3. \A d \in Calls : StartsWithFirst(calls'[d])
  BY <1>1 DEF DeployInv
<1>4. ASSUME ~raced, NEW d \in Calls, d # c PROVE calls[d].pc \notin AtWorkPcs
  BY <1>t, <1>4 DEF OneAtWork, AtDeploy
<1>5. ~raced => OneAtWork'
  BY <1>t, <1>1, <1>4 DEF OneAtWork, AtDeploy
<1>6. ~raced => \A d \in Calls : /\ Clears(calls'[d], containers')
                                 /\ Builds(d, calls'[d], containers')
                                 /\ Refreshed(calls'[d], pickup'.draining)
  BY <1>1, <1>4 DEF Clears, Builds, Refreshed, AtWorkPcs
<1>7. MeetOnlyByRace
  BY <1>1 DEF MeetOnlyByRace, AtDeploy, AtWorkPcs
<1>8. TellsTheTruth
  <2>1. ASSUME NEW d \in Calls, NEW result \in {"success", "unhealthy"}, ReturnsNow(d, result)
        PROVE  d = c /\ call.pc = result
    BY <1>1, <2>1 DEF ReturnsNow, AtDeploy, AtWorkPcs
  <2>. QED
    BY <2>1 DEF TellsTheTruth, KeepsWord, HeardWell, Running, Service
<1>. QED
  BY <1>2, <1>3, <1>5, <1>6, <1>7, <1>8 DEF DeployInv, HostIsWell

\* A step of the host, the calls stay where they are.
LEMMA HostGoesOn ==
  ASSUME DeployInv, UNCHANGED <<containers, calls, currentDeploy, late, raced, serverDeaths>>,
         listening' \in [Services -> Names \cup {Vacant}],
         \A s \in Services : listening'[s] \in {Vacant, s, Composed[s]},
         pickup' \in [draining : BOOLEAN, job : BOOLEAN], ListenersRun',
         pickup'.draining => pickup.draining
  PROVE  DeployInv' /\ MeetOnlyByRace /\ TellsTheTruth
<1>1. DeployTypeOK'
  BY DEF DeployInv, DeployTypeOK
<1>2. ~raced => OneAtWork'
  BY DEF DeployInv, OneAtWork, AtDeploy
<1>3. ~raced => \A c \in Calls : /\ Clears(calls[c], containers) /\ Builds(c, calls[c], containers)
                                 /\ Refreshed(calls[c], pickup'.draining)
  BY DEF DeployInv, Refreshed
<1>4. MeetOnlyByRace /\ TellsTheTruth
  BY DEF MeetOnlyByRace, TellsTheTruth, ReturnsNow, AtDeploy, AtWorkPcs
<1>. QED
  BY <1>1, <1>2, <1>3, <1>4 DEF DeployInv

\* Where a process ends: its port is free, and what else listens runs on.
LEMMA SilenceKeeps ==
  ASSUME DeployInv, NEW n \in Names, Silence(n), \A m \in Names : m # n => containers'[m] = containers[m]
  PROVE  /\ listening' \in [Services -> Names \cup {Vacant}]
         /\ \A s \in Services : listening'[s] \in {Vacant, s, Composed[s]}
         /\ pickup' \in [draining : BOOLEAN, job : BOOLEAN] /\ ListenersRun'
         /\ pickup'.draining => pickup.draining
<1>1. /\ listening \in [Services -> Names \cup {Vacant}] /\ pickup \in [draining : BOOLEAN, job : BOOLEAN]
      /\ \A s \in Services : listening[s] \in {Vacant, s, Composed[s]}
      /\ \A s \in Services : listening[s] # Vacant => containers[listening[s]].state = "running"
      /\ listening["worker"] = Vacant => pickup = NoPickup
  BY DEF DeployInv, DeployTypeOK, ListenersRun
<1>2. /\ listening' = [s \in Services |-> IF listening[s] = n THEN Vacant ELSE listening[s]]
      /\ pickup' = (IF listening["worker"] = n THEN NoPickup ELSE pickup)
  BY DEF Silence
<1>3. NoPickup \in [draining : BOOLEAN, job : BOOLEAN] /\ ~NoPickup.draining /\ "worker" \in Services
  BY DEF NoPickup, Services
<1>4. /\ listening' \in [Services -> Names \cup {Vacant}]
      /\ \A s \in Services : listening'[s] \in {Vacant, s, Composed[s]}
  BY <1>1, <1>2
<1>5. pickup' \in [draining : BOOLEAN, job : BOOLEAN] /\ (pickup'.draining => pickup.draining)
  BY <1>1, <1>2, <1>3
<1>6. ListenersRun'
  <2>1. \A s \in Services : listening'[s] # Vacant =>
          listening'[s] = listening[s] /\ listening[s] # n /\ listening[s] \in Names
    BY <1>1, <1>2
  <2>2. listening'["worker"] = Vacant => pickup' = NoPickup
    BY <1>1, <1>2, <1>3
  <2>3. \A s \in Services : listening'[s] # Vacant => containers'[listening'[s]].state = "running"
    BY <1>1, <2>1
  <2>. QED
    BY <2>2, <2>3 DEF ListenersRun
<1>. QED
  BY <1>4, <1>5, <1>6

\* The instance as it was before any deploy.
LEMMA DeployStart == DeployInit => DeployInv
<1>. SUFFICES ASSUME DeployInit PROVE DeployInv
  OBVIOUS
<1>1. PICK old \in {Composed, [s \in Services |-> s]} :
        /\ containers = [n \in Names |-> IF \E s \in Services : old[s] = n
                                         THEN [state |-> "running", by |-> "old"] ELSE NoContainer]
        /\ listening = old
  BY DEF DeployInit
<1>2. /\ pickup \in [draining : BOOLEAN, job : BOOLEAN] /\ calls = [c \in Calls |-> IdleCall]
      /\ currentDeploy = "null" /\ late = {} /\ raced = FALSE /\ serverDeaths \in 0..MaxServerDeaths
  <2>1. 0 \in 0..MaxServerDeaths
    BY DeployAssumption
  <2>2. pickup \in [draining : {FALSE}, job : BOOLEAN]
    BY DEF DeployInit
  <2>3. pickup \in [draining : BOOLEAN, job : BOOLEAN]
    BY <2>2
  <2>. QED
    BY <2>1, <2>3 DEF DeployInit
<1>3. /\ old \in [Services -> Names \cup {Vacant}]
      /\ \A s \in Services : old[s] \in {s, Composed[s]} /\ old[s] \in Names /\ old[s] # Vacant
  BY <1>1, NamesAre
<1>4. containers \in [Names -> Containers]
  <2>1. [state |-> "running", by |-> "old"] \in Containers
    BY DEF Containers, Owners
  <2>. QED
    BY <1>1, <2>1, NamesAre
<1>5. IdleCall \in DeployCalls /\ IdleCall.pc = "idle" /\ IdleCall.i = 1
  BY DEF IdleCall, DeployCalls
<1>6. DeployTypeOK
  BY <1>1, <1>2, <1>3, <1>4, <1>5 DEF DeployTypeOK
<1>7. ListenersRun
  <2>1. \A s \in Services : containers[listening[s]].state = "running" /\ listening[s] # Vacant
    BY <1>1, <1>3
  <2>. QED
    BY <2>1, NamesAre DEF ListenersRun
<1>8. \A c \in Calls : StartsWithFirst(calls[c]) /\ Clears(calls[c], containers)
                       /\ Builds(c, calls[c], containers) /\ Refreshed(calls[c], pickup.draining)
  BY <1>2, <1>5 DEF StartsWithFirst, Clears, Builds, Refreshed
<1>9. OneAtWork
  BY <1>2, <1>5 DEF OneAtWork, AtDeploy, AtWorkPcs
<1>. QED
  BY <1>6, <1>7, <1>8, <1>9 DEF DeployInv

\* A request for a deploy.
LEMMA AskKeeps ==
  ASSUME DeployInv, NEW c \in Calls, AskDeploy(c)
  PROVE  DeployInv' /\ MeetOnlyByRace /\ TellsTheTruth
<1>t. /\ DeployTypeOK /\ calls \in [Calls -> DeployCalls] /\ late \subseteq Calls
      /\ (~raced => OneAtWork)
  BY DEF DeployInv, DeployTypeOK
<1>1. PICK pc \in {"refused", "body"} :
        /\ pc = (IF currentDeploy # "null" THEN "refused" ELSE "body")
        /\ calls' = [calls EXCEPT ![c].pc = pc]
  BY DEF AskDeploy, CallAt
<1>2. /\ calls[c].pc = "idle" /\ late' = (IF OthersAtDeploy(c) THEN late \cup {c} ELSE late)
      /\ UNCHANGED <<containers, images, listening, pickup, currentDeploy, raced, serverDeaths>>
  BY DEF AskDeploy, UnchangedHost
<1>3. PICK call \in DeployCalls : call = [calls[c] EXCEPT !.pc = pc]
  BY <1>t DEF DeployCalls
<1>4. call.pc = pc /\ call.i = calls[c].i
  BY <1>t, <1>3 DEF DeployCalls
<1>5. calls' = [calls EXCEPT ![c] = call]
  BY <1>t, <1>1, <1>3
<1>6. calls'[c] = call /\ \A d \in Calls : d # c => calls'[d] = calls[d]
  BY <1>t, <1>5
<1>7. DeployTypeOK'
  BY <1>t, <1>2, <1>5 DEF DeployTypeOK
<1>8. ListenersRun'
  BY <1>2 DEF DeployInv, ListenersRun
<1>9. \A d \in Calls : StartsWithFirst(calls'[d])
  BY <1>2, <1>4, <1>6 DEF DeployInv, StartsWithFirst
<1>10. ~raced => \A d \in Calls : /\ Clears(calls'[d], containers) /\ Builds(d, calls'[d], containers)
                                  /\ Refreshed(calls'[d], pickup.draining)
  BY <1>4, <1>6 DEF DeployInv, Clears, Builds, Refreshed
<1>11. ASSUME ~raced PROVE OneAtWork'
  <2>1. OthersAtDeploy(c) => pc = "refused"
    BY <1>1, <1>t, <1>11, DeployAssumption DEF OthersAtDeploy, OneAtWork
  <2>2. c \notin late
    BY <1>t, <1>2, <1>11 DEF OneAtWork
  <2>. QED
    BY <1>t, <1>2, <1>4, <1>6, <1>11, <2>1, <2>2 DEF OneAtWork, AtDeploy, AtWorkPcs
<1>12. MeetOnlyByRace /\ TellsTheTruth
  BY <1>2, <1>4, <1>6 DEF MeetOnlyByRace, TellsTheTruth, ReturnsNow, AtDeploy, AtWorkPcs
<1>. QED
  BY <1>2, <1>7, <1>8, <1>9, <1>10, <1>11, <1>12 DEF DeployInv

\* The check of currentDeploy, and its setting.
LEMMA BeginKeeps ==
  ASSUME DeployInv, NEW c \in Calls, BeginDeploy(c)
  PROVE  DeployInv' /\ MeetOnlyByRace /\ TellsTheTruth
<1>t. /\ DeployTypeOK /\ calls \in [Calls -> DeployCalls] /\ late \subseteq Calls
      /\ raced \in BOOLEAN /\ currentDeploy \in Calls \cup {"null"} /\ (~raced => OneAtWork)
  BY DEF DeployInv, DeployTypeOK
<1>1. PICK pc \in {"refused", "pull"} :
        /\ calls' = [calls EXCEPT ![c].pc = pc]
        /\ \/ /\ pc = "pull" /\ currentDeploy' = c
              /\ raced' = (raced \/ (OthersAtDeploy(c) /\ c \notin late))
           \/ pc = "refused" /\ UNCHANGED <<currentDeploy, raced>>
  BY DEF BeginDeploy, CallAt
<1>2. /\ calls[c].pc = "body"
      /\ UNCHANGED <<containers, images, listening, pickup, late, serverDeaths>>
  BY DEF BeginDeploy, UnchangedHost
<1>3. PICK call \in DeployCalls : call = [calls[c] EXCEPT !.pc = pc]
  BY <1>t DEF DeployCalls, AtWorkPcs
<1>4. call.pc = pc /\ call.i = calls[c].i
  BY <1>t, <1>3 DEF DeployCalls
<1>5. calls' = [calls EXCEPT ![c] = call]
  BY <1>t, <1>1, <1>3
<1>6. calls'[c] = call /\ \A d \in Calls : d # c => calls'[d] = calls[d]
  BY <1>t, <1>5
<1>r. raced' \in BOOLEAN /\ (~raced' => ~raced) /\ currentDeploy' \in Calls \cup {"null"}
  BY <1>t, <1>1
<1>7. DeployTypeOK'
  BY <1>t, <1>r, <1>2, <1>5 DEF DeployTypeOK
<1>8. ListenersRun'
  BY <1>2 DEF DeployInv, ListenersRun
<1>9. \A d \in Calls : StartsWithFirst(calls'[d])
  BY <1>2, <1>4, <1>6 DEF DeployInv, StartsWithFirst
<1>10. ~raced => \A d \in Calls : /\ Clears(calls'[d], containers) /\ Builds(d, calls'[d], containers)
                                  /\ Refreshed(calls'[d], pickup.draining)
  BY <1>4, <1>6 DEF DeployInv, Clears, Builds, Refreshed
<1>n. ~raced => c \notin late
  BY <1>t, <1>2 DEF OneAtWork
<1>11. ASSUME ~raced' PROVE OneAtWork'
  <2>1. pc = "pull" => ~OthersAtDeploy(c)
    BY <1>1, <1>n, <1>r, <1>11
  <2>2. \A d \in Calls : d # c => (AtDeploy(d)' <=> AtDeploy(d))
    BY <1>6 DEF AtDeploy
  <2>. QED
    BY <1>t, <1>1, <1>2, <1>4, <1>6, <1>r, <1>11, <2>1, <2>2
    DEF OneAtWork, OthersAtDeploy, AtDeploy, AtWorkPcs
<1>12. MeetOnlyByRace
  BY <1>1, <1>2, <1>4, <1>6, <1>n DEF MeetOnlyByRace
<1>13. TellsTheTruth
  BY <1>2, <1>4, <1>6 DEF TellsTheTruth, ReturnsNow, AtDeploy, AtWorkPcs
<1>. QED
  BY <1>2, <1>r, <1>7, <1>8, <1>9, <1>10, <1>11, <1>12, <1>13 DEF DeployInv

\* What is left of a call that is over.
LEMMA EndedIsACall ==
  ASSUME NEW how \in {"success", "failed", "unhealthy", "lost"}
  PROVE  Ended(how) \in DeployCalls /\ Ended(how).pc = how /\ Ended(how).i = 1
<1>1. IdleCall = [pc |-> "idle", todo |-> {}, target |-> NoTarget, i |-> 1, heard |-> "nothing"]
  BY DEF IdleCall
<1>2. Ended(how) = [pc |-> how, todo |-> {}, target |-> NoTarget, i |-> 1, heard |-> "nothing"]
  BY <1>1 DEF Ended
<1>. QED
  BY <1>2 DEF DeployCalls

\* The death of the server.
LEMMA DeathKeeps ==
  ASSUME DeployInv, ServerDies
  PROVE  DeployInv' /\ MeetOnlyByRace /\ TellsTheTruth
<1>t. /\ DeployTypeOK /\ calls \in [Calls -> DeployCalls] /\ (~raced => OneAtWork)
  BY DEF DeployInv, DeployTypeOK
<1>1. /\ calls' = [c \in Calls |-> IF AtDeploy(c) \/ calls[c].pc = "body"
                                   THEN Ended("lost") ELSE calls[c]]
      /\ currentDeploy' = "null"
      /\ UNCHANGED <<containers, images, listening, pickup, late, raced>>
  BY DEF ServerDies, UnchangedHost
<1>2. \A c \in Calls : calls'[c] \in DeployCalls /\ (calls'[c].pc = "lost" \/ calls'[c] = calls[c])
  BY <1>t, <1>1, EndedIsACall
<1>3. \A c \in Calls : ~AtDeploy(c)' /\ calls'[c].pc # "body"
  BY <1>t, <1>1, EndedIsACall DEF AtDeploy, AtWorkPcs
<1>4. DeployTypeOK'
  <2>1. calls' \in [Calls -> DeployCalls]
    BY <1>1, <1>2
  <2>2. serverDeaths' \in 0..MaxServerDeaths
    BY <1>t, DeployAssumption DEF ServerDies, DeployTypeOK
  <2>. QED
    BY <1>t, <1>1, <2>1, <2>2 DEF DeployTypeOK
<1>5. ListenersRun'
  BY <1>1 DEF DeployInv, ListenersRun
<1>6. \A c \in Calls : StartsWithFirst(calls'[c])
  BY <1>2 DEF DeployInv, StartsWithFirst
<1>7. ~raced => OneAtWork'
  BY <1>t, <1>1, <1>2, <1>3 DEF OneAtWork
<1>8. \A c \in Calls : /\ Clears(calls'[c], containers) /\ Builds(c, calls'[c], containers)
                       /\ Refreshed(calls'[c], pickup.draining)
  BY <1>3 DEF Clears, Builds, Refreshed, AtDeploy, AtWorkPcs
<1>9. MeetOnlyByRace /\ TellsTheTruth
  BY <1>2, <1>3 DEF MeetOnlyByRace, TellsTheTruth, ReturnsNow, AtDeploy, AtWorkPcs
<1>. QED
  BY <1>1, <1>4, <1>5, <1>6, <1>7, <1>8, <1>9 DEF DeployInv

\* A call that goes from one place to the next.
LEMMA NextPlace ==
  ASSUME DeployInv, NEW c \in Calls, NEW pc \in AtWorkPcs \cup {"success", "failed", "unhealthy"},
         CallAt(c, pc)
  PROVE  \E call \in DeployCalls :
           /\ calls' = [calls EXCEPT ![c] = call] /\ call.pc = pc
           /\ call.i = calls[c].i /\ call.todo = calls[c].todo /\ call.target = calls[c].target
<1>1. calls \in [Calls -> DeployCalls]
  BY DEF DeployInv, DeployTypeOK
<1>2. PICK call \in DeployCalls : call = [calls[c] EXCEPT !.pc = pc]
  BY <1>1 DEF DeployCalls
<1>3. /\ call.pc = pc /\ call.i = calls[c].i /\ call.todo = calls[c].todo /\ call.target = calls[c].target
  BY <1>1, <1>2 DEF DeployCalls
<1>4. calls' = [calls EXCEPT ![c] = call]
  BY <1>1, <1>2 DEF CallAt
<1>. QED
  BY <1>3, <1>4

\* Whatever a call has done to the host, it may fail.
LEMMA FailureKeeps ==
  ASSUME DeployInv, NEW c \in Calls, AtDeploy(c), DockerRefuses(c), HostIsWell',
         UNCHANGED <<late, raced, serverDeaths>>
  PROVE  DeployInv' /\ MeetOnlyByRace /\ TellsTheTruth
<1>1. PICK call \in DeployCalls : calls' = [calls EXCEPT ![c] = call] /\ call.pc = "failed"
  BY EndedIsACall DEF DockerRefuses, DeployReturns
<1>2. currentDeploy' = (IF call.pc \in AtWorkPcs THEN currentDeploy ELSE "null")
  BY <1>1 DEF DockerRefuses, DeployReturns, AtWorkPcs
<1>3. /\ StartsWithFirst(call) /\ Clears(call, containers') /\ Builds(c, call, containers')
      /\ Refreshed(call, pickup'.draining) /\ KeepsWord(c, calls[c], call.pc)
  BY <1>1 DEF StartsWithFirst, Clears, Builds, Refreshed, KeepsWord
<1>. QED
  BY <1>1, <1>2, <1>3, CallGoesOn

\* Who leaves the containers alone leaves them well.
LEMMA HostStays ==
  ASSUME DeployInv, UNCHANGED <<containers, listening, pickup>>
  PROVE  HostIsWell'
BY DEF DeployInv, DeployTypeOK, HostIsWell, ListenersRun

\* Up to the list of what there is.
LEMMA PullKeeps ==
  ASSUME DeployInv, NEW c \in Calls, NoEcrAuth(c) \/ PullImage(c)
  PROVE  DeployInv' /\ MeetOnlyByRace /\ TellsTheTruth
<1>1. /\ calls[c].pc = "pull" /\ AtDeploy(c) /\ UNCHANGED <<containers, listening, pickup, late, raced, serverDeaths>>
  BY DEF NoEcrAuth, PullImage, UnchangedHost, AtDeploy, AtWorkPcs
<1>2. HostIsWell'
  BY <1>1, HostStays
<1>3. CASE DockerRefuses(c)
  BY <1>1, <1>2, <1>3, FailureKeeps
<1>4. CASE CallAt(c, "list") /\ UNCHANGED currentDeploy
  <2>1. PICK call \in DeployCalls : calls' = [calls EXCEPT ![c] = call] /\ call.pc = "list" /\ call.i = calls[c].i
    BY <1>4, NextPlace DEF AtWorkPcs
  <2>2. StartsWithFirst(call)
    BY <1>1, <2>1 DEF DeployInv, StartsWithFirst
  <2>3. /\ Clears(call, containers') /\ Builds(c, call, containers')
        /\ Refreshed(call, pickup'.draining) /\ KeepsWord(c, calls[c], call.pc)
    BY <2>1 DEF Clears, Builds, Refreshed, KeepsWord
  <2>4. currentDeploy' = (IF call.pc \in AtWorkPcs THEN currentDeploy ELSE "null")
    BY <1>4, <2>1 DEF AtWorkPcs
  <2>. QED
    BY <1>1, <1>2, <2>1, <2>2, <2>3, <2>4, CallGoesOn
<1>. QED
  BY <1>3, <1>4 DEF NoEcrAuth, PullImage, DockerRefuses

\* The list of the containers of the old version.
LEMMA ListKeeps ==
  ASSUME DeployInv, NEW c \in Calls, ListContainers(c)
  PROVE  DeployInv' /\ MeetOnlyByRace /\ TellsTheTruth
<1>t. calls \in [Calls -> DeployCalls] /\ containers \in [Names -> Containers]
  BY DEF DeployInv, DeployTypeOK
<1>1. /\ calls[c].pc = "list" /\ AtDeploy(c) /\ UNCHANGED <<containers, listening, pickup, late, raced, serverDeaths>>
  BY DEF ListContainers, UnchangedHost, AtDeploy, AtWorkPcs
<1>2. HostIsWell'
  BY <1>1, HostStays
<1>3. CASE DockerRefuses(c)
  BY <1>1, <1>2, <1>3, FailureKeeps
<1>4. CASE /\ calls' = [calls EXCEPT ![c].pc = "next", ![c].todo = Listed(Names)]
           /\ UNCHANGED currentDeploy
  <2>1. PICK listed \in SUBSET Targets : listed = Listed(Names)
    <3>1. \A n \in Names : [name |-> n, by |-> containers[n].by, up |-> containers[n].state = "running"] \in Targets
      BY <1>t DEF Containers, Targets
    <3>. QED
      BY <3>1 DEF Listed, Present
  <2>2. ASSUME NEW n \in Names, containers[n] # NoContainer
        PROVE  \E t \in listed : t.name = n /\ t.by = containers[n].by
    <3>1. PICK t : t = [name |-> n, by |-> containers[n].by, up |-> containers[n].state = "running"]
      OBVIOUS
    <3>2. t \in listed /\ t.name = n /\ t.by = containers[n].by
      BY <2>1, <2>2, <3>1 DEF Listed, Present
    <3>. QED
      BY <3>2
  <2>3. PICK call \in DeployCalls : call = [calls[c] EXCEPT !.pc = "next", !.todo = listed]
    BY <1>t DEF DeployCalls, AtWorkPcs
  <2>4. call.pc = "next" /\ call.todo = listed /\ call.i = calls[c].i
    BY <1>t, <2>3 DEF DeployCalls
  <2>5. calls' = [calls EXCEPT ![c] = call]
    BY <1>t, <1>4, <2>1, <2>3
  <2>6. StartsWithFirst(call)
    BY <1>1, <2>4 DEF DeployInv, StartsWithFirst
  <2>7. Clears(call, containers')
    BY <1>1, <2>2, <2>4 DEF Clears
  <2>8. Builds(c, call, containers') /\ Refreshed(call, pickup'.draining) /\ KeepsWord(c, calls[c], call.pc)
    BY <2>4 DEF Builds, Refreshed, KeepsWord
  <2>9. currentDeploy' = (IF call.pc \in AtWorkPcs THEN currentDeploy ELSE "null")
    BY <1>4, <2>4 DEF AtWorkPcs
  <2>. QED
    BY <1>1, <1>2, <2>4, <2>5, <2>6, <2>7, <2>8, <2>9, CallGoesOn
<1>. QED
  BY <1>3, <1>4 DEF ListContainers

\* On to the next container of the list.
LEMMA NextKeeps ==
  ASSUME DeployInv, NEW c \in Calls, NextContainer(c)
  PROVE  DeployInv' /\ MeetOnlyByRace /\ TellsTheTruth
<1>t. calls \in [Calls -> DeployCalls] /\ containers \in [Names -> Containers]
  BY DEF DeployInv, DeployTypeOK
<1>1. /\ calls[c].pc = "next" /\ AtDeploy(c)
      /\ UNCHANGED <<containers, listening, pickup, currentDeploy, late, raced, serverDeaths>>
  BY DEF NextContainer, UnchangedHost, UnchangedServer, AtDeploy, AtWorkPcs
<1>2. HostIsWell'
  BY <1>1, HostStays
<1>3. PICK t \in calls[c].todo :
        calls' = [calls EXCEPT
          ![c].todo = @ \ {t}, ![c].target = t,
          ![c].pc = IF ~t.up THEN "remove" ELSE IF IsWorker(t.name) THEN "drain" ELSE "stop"]
  BY DEF NextContainer
<1>4. PICK pc \in {"remove", "drain", "stop"} :
        pc = (IF ~t.up THEN "remove" ELSE IF IsWorker(t.name) THEN "drain" ELSE "stop")
  OBVIOUS
<1>5. t \in Targets
  BY <1>t DEF DeployCalls
<1>6. PICK call \in DeployCalls : call = [calls[c] EXCEPT !.pc = pc, !.todo = @ \ {t}, !.target = t]
  BY <1>t, <1>5 DEF DeployCalls, AtWorkPcs
<1>7. call.pc = pc /\ call.todo = calls[c].todo \ {t} /\ call.target = t /\ call.i = calls[c].i
  BY <1>t, <1>6 DEF DeployCalls
<1>8. calls' = [calls EXCEPT ![c] = call]
  BY <1>t, <1>3, <1>4, <1>6 DEF DeployCalls
<1>9. StartsWithFirst(call)
  BY <1>1, <1>5, <1>7 DEF DeployInv, StartsWithFirst
<1>10. ~raced => Clears(call, containers')
  BY <1>1, <1>7 DEF DeployInv, Clears
<1>11. Builds(c, call, containers') /\ Refreshed(call, pickup'.draining) /\ KeepsWord(c, calls[c], call.pc)
  BY <1>7 DEF Builds, Refreshed, KeepsWord
<1>12. currentDeploy' = (IF call.pc \in AtWorkPcs THEN currentDeploy ELSE "null")
  BY <1>1, <1>7 DEF AtWorkPcs
<1>. QED
  BY <1>1, <1>2, <1>7, <1>8, <1>9, <1>10, <1>11, <1>12, CallGoesOn

\* The drain of a worker.
LEMMA DrainKeeps ==
  ASSUME DeployInv, NEW c \in Calls, DrainWorker(c)
  PROVE  DeployInv' /\ MeetOnlyByRace /\ TellsTheTruth
<1>1. /\ calls[c].pc = "drain" /\ AtDeploy(c) /\ CallAt(c, "stop")
      /\ UNCHANGED <<containers, listening, currentDeploy, late, raced, serverDeaths>>
  BY DEF DrainWorker, UnchangedServer, AtDeploy, AtWorkPcs
<1>2. HostIsWell'
  <2>1. Drained \in [draining : BOOLEAN, job : BOOLEAN]
    BY DEF DeployInv, DeployTypeOK, Drained
  <2>2. /\ pickup' \in [draining : BOOLEAN, job : BOOLEAN]
        /\ listening["worker"] = Vacant => pickup' = pickup
    BY <2>1 DEF DrainWorker, DeployInv, DeployTypeOK
  <2>3. ListenersRun'
    BY <1>1, <2>2 DEF DeployInv, ListenersRun
  <2>. QED
    BY <1>1, <2>2, <2>3 DEF DeployInv, DeployTypeOK, HostIsWell
<1>3. PICK call \in DeployCalls :
        /\ calls' = [calls EXCEPT ![c] = call] /\ call.pc = "stop"
        /\ call.i = calls[c].i /\ call.todo = calls[c].todo /\ call.target = calls[c].target
  BY <1>1, NextPlace DEF AtWorkPcs
<1>4. StartsWithFirst(call)
  BY <1>1, <1>3 DEF DeployInv, StartsWithFirst
<1>5. ~raced => Clears(call, containers')
  BY <1>1, <1>3 DEF DeployInv, Clears
<1>6. Builds(c, call, containers') /\ Refreshed(call, pickup'.draining) /\ KeepsWord(c, calls[c], call.pc)
  BY <1>3 DEF Builds, Refreshed, KeepsWord
<1>7. currentDeploy' = (IF call.pc \in AtWorkPcs THEN currentDeploy ELSE "null")
  BY <1>1, <1>3 DEF AtWorkPcs
<1>. QED
  BY <1>1, <1>2, <1>3, <1>4, <1>5, <1>6, <1>7, CallGoesOn

\* The stop and the removal of a container.
LEMMA StopKeeps ==
  ASSUME DeployInv, NEW c \in Calls, StopContainer(c) \/ RemoveContainer(c)
  PROVE  DeployInv' /\ MeetOnlyByRace /\ TellsTheTruth
<1>t. calls \in [Calls -> DeployCalls] /\ containers \in [Names -> Containers]
  BY DEF DeployInv, DeployTypeOK
<1>1. /\ calls[c].pc \in {"stop", "remove"} /\ AtDeploy(c) /\ UNCHANGED <<late, raced, serverDeaths>>
  BY DEF StopContainer, RemoveContainer, AtDeploy, AtWorkPcs
<1>2. CASE DockerRefuses(c) /\ UNCHANGED <<containers, listening, pickup>>
  BY <1>1, <1>2, HostStays, FailureKeeps
<1>n. PICK n \in Names : n = Target(c) /\ n = calls[c].target.name
  BY <1>1 DEF DeployInv, StartsWithFirst, Target, Targets
<1>3. ASSUME NEW pc \in {"remove", "next"}, calls[c].pc = (IF pc = "remove" THEN "stop" ELSE "remove"),
             CallAt(c, pc), UNCHANGED currentDeploy,
             IF IsThere(c)
               THEN /\ \/ pc = "remove" /\ containers' = [containers EXCEPT ![n].state = "exited"]
                       \/ pc = "next" /\ containers' = [containers EXCEPT ![n] = NoContainer]
                    /\ Silence(n)
               ELSE UNCHANGED <<containers, listening, pickup>>
      PROVE  DeployInv' /\ MeetOnlyByRace /\ TellsTheTruth
  <2>1. PICK call \in DeployCalls :
          /\ calls' = [calls EXCEPT ![c] = call] /\ call.pc = pc
          /\ call.i = calls[c].i /\ call.todo = calls[c].todo /\ call.target = calls[c].target
    BY <1>3, NextPlace DEF AtWorkPcs
  <2>2. StartsWithFirst(call)
    BY <1>1, <2>1 DEF DeployInv, StartsWithFirst
  <2>3. Builds(c, call, containers') /\ Refreshed(call, pickup'.draining) /\ KeepsWord(c, calls[c], call.pc)
    BY <2>1 DEF Builds, Refreshed, KeepsWord
  <2>4. currentDeploy' = (IF call.pc \in AtWorkPcs THEN currentDeploy ELSE "null")
    BY <1>3, <2>1 DEF AtWorkPcs
  <2>5. ASSUME IsThere(c)
        PROVE  /\ containers' \in [Names -> Containers]
               /\ \A m \in Names : m # n => containers'[m] = containers[m]
               /\ containers'[n].by = containers[n].by \/ containers'[n] = NoContainer
               /\ pc = "next" => containers'[n] = NoContainer
    <3>1. CASE pc = "remove" /\ containers' = [containers EXCEPT ![n].state = "exited"]
      <4>1. PICK old \in Containers : old = containers[n]
        BY <1>t
      <4>2. PICK x \in Containers : x = [old EXCEPT !.state = "exited"]
        BY DEF Containers
      <4>3. x.by = old.by
        BY <4>2 DEF Containers
      <4>4. containers' = [containers EXCEPT ![n] = x]
        BY <1>t, <3>1, <4>1, <4>2
      <4>. QED
        BY <1>t, <3>1, <4>1, <4>3, <4>4
    <3>2. CASE pc = "next" /\ containers' = [containers EXCEPT ![n] = NoContainer]
      BY <1>t, <3>2, NamesAre
    <3>. QED
      BY <1>3, <2>5, <3>1, <3>2
  <2>6. HostIsWell'
    <3>1. CASE IsThere(c)
      <4>1. Silence(n)
        BY <1>3, <3>1
      <4>. QED
        BY <2>5, <3>1, <4>1, SilenceKeeps DEF HostIsWell
    <3>2. CASE ~IsThere(c)
      BY <1>3, <3>2, HostStays
    <3>. QED
      BY <3>1, <3>2
  <2>7. ASSUME ~raced PROVE Clears(call, containers')
    <3>. SUFFICES ASSUME NEW m \in Names, containers'[m] # NoContainer
                  PROVE  \/ \E t \in call.todo : t.name = m /\ t.by = containers'[m].by
                         \/ call.pc # "next" /\ call.target.name = m /\ call.target.by = containers'[m].by
      BY DEF Clears
    <3>1. Clears(calls[c], containers)
      BY <2>7 DEF DeployInv
    <3>2. CASE IsThere(c) /\ m = n
      <4>1. pc # "next" /\ containers'[n].by = containers[n].by /\ containers[n].by = calls[c].target.by
        BY <1>n, <2>5, <3>2 DEF IsThere
      <4>. QED
        BY <1>n, <2>1, <3>2, <4>1
    <3>3. CASE ~IsThere(c) \/ m # n
      <4>1. containers'[m] = containers[m]
        BY <1>3, <2>5, <3>3
      <4>2. \/ \E t \in calls[c].todo : t.name = m /\ t.by = containers[m].by
            \/ calls[c].target.name = m /\ calls[c].target.by = containers[m].by
        BY <1>1, <3>1, <4>1 DEF Clears
      <4>3. ~(calls[c].target.name = m /\ calls[c].target.by = containers[m].by)
        BY <1>n, <3>3 DEF IsThere
      <4>. QED
        BY <2>1, <4>1, <4>2, <4>3
    <3>. QED
      BY <3>2, <3>3
  <2>. QED
    BY <1>1, <2>1, <2>2, <2>3, <2>4, <2>6, <2>7, CallGoesOn
<1>. QED
  BY <1>2, <1>3, <1>n DEF StopContainer, RemoveContainer

\* From what is removed to what is started.
LEMMA BuildBegins ==
  ASSUME DeployInv, NEW c \in Calls, BeginStart(c)
  PROVE  DeployInv' /\ MeetOnlyByRace /\ TellsTheTruth
<1>t. calls \in [Calls -> DeployCalls] /\ containers \in [Names -> Containers]
  BY DEF DeployInv, DeployTypeOK
<1>1. /\ calls[c].pc = "next" /\ calls[c].todo = {} /\ AtDeploy(c) /\ CallAt(c, "create")
      /\ UNCHANGED <<containers, listening, pickup, currentDeploy, late, raced, serverDeaths>>
  BY DEF BeginStart, UnchangedHost, UnchangedServer, AtDeploy, AtWorkPcs
<1>2. HostIsWell'
  BY <1>1, HostStays
<1>3. PICK call \in DeployCalls : /\ calls' = [calls EXCEPT ![c] = call] /\ call.pc = "create"
                                  /\ call.i = calls[c].i
  BY <1>1, NextPlace DEF AtWorkPcs
<1>4. call.i = 1
  BY <1>1, <1>3 DEF DeployInv, StartsWithFirst
<1>5. ASSUME ~raced PROVE \A n \in Names : containers[n] = NoContainer
  BY <1>1, <1>5 DEF DeployInv, Clears
<1>6. ASSUME ~raced PROVE Builds(c, call, containers')
  BY <1>1, <1>3, <1>4, <1>5, <1>6 DEF Builds, Stage, Before
<1>7. ASSUME ~raced PROVE Refreshed(call, pickup'.draining)
  <2>1. listening["worker"] \in Names \cup {Vacant} /\ "worker" \in Services
    BY DEF DeployInv, DeployTypeOK, Services
  <2>2. listening["worker"] = Vacant
    BY <1>5, <1>7, <2>1 DEF DeployInv, ListenersRun, NoContainer
  <2>3. pickup = NoPickup
    BY <2>2 DEF DeployInv, ListenersRun
  <2>. QED
    BY <1>1, <1>3, <2>3 DEF Refreshed, NoPickup
<1>8. /\ Clears(call, containers') /\ KeepsWord(c, calls[c], call.pc) /\ StartsWithFirst(call)
      /\ currentDeploy' = (IF call.pc \in AtWorkPcs THEN currentDeploy ELSE "null")
  BY <1>1, <1>3 DEF Clears, KeepsWord, StartsWithFirst, AtWorkPcs
<1>. QED
  BY <1>1, <1>2, <1>3, <1>6, <1>7, <1>8, CallGoesOn

\* The service that a call starts is one of the two, and has a container's name.
LEMMA ServiceIs ==
  ASSUME DeployInv, NEW c \in Calls
  PROVE  /\ calls[c].i \in 1..2 /\ Service(c) = StartOrder[calls[c].i]
         /\ Service(c) \in Names /\ Service(c) \in Services
<1>1. calls[c] \in DeployCalls
  BY DEF DeployInv, DeployTypeOK
<1>2. calls[c].i = 1 \/ calls[c].i = 2
  BY <1>1 DEF DeployCalls
<1>. QED
  BY <1>1, <1>2, NamesAre DEF DeployCalls, Service

\* A container that does not run changes, or none: who listens is left alone.
LEMMA NobodyIsSilenced ==
  ASSUME DeployInv, NEW n \in Names, NEW x \in Containers, containers' = [containers EXCEPT ![n] = x],
         UNCHANGED <<listening, pickup>>,
         containers[n].state # "running" \/ x.state = "running"
  PROVE  HostIsWell'
<1>t. /\ containers \in [Names -> Containers] /\ listening \in [Services -> Names \cup {Vacant}]
      /\ DeployTypeOK /\ ListenersRun
  BY DEF DeployInv, DeployTypeOK
<1>1. containers' \in [Names -> Containers]
  BY <1>t
<1>2. containers'[n] = x /\ \A m \in Names : m # n => containers'[m] = containers[m]
  BY <1>t
<1>3. \A s \in Services : listening[s] # Vacant => containers'[listening[s]].state = "running"
  BY <1>t, <1>2 DEF ListenersRun
<1>4. ListenersRun'
  BY <1>t, <1>3 DEF ListenersRun
<1>. QED
  BY <1>t, <1>1, <1>4 DEF DeployTypeOK, HostIsWell

\* The creation of a container.
LEMMA CreateKeeps ==
  ASSUME DeployInv, NEW c \in Calls, CreateContainer(c)
  PROVE  DeployInv' /\ MeetOnlyByRace /\ TellsTheTruth
<1>t. calls \in [Calls -> DeployCalls] /\ containers \in [Names -> Containers]
  BY DEF DeployInv, DeployTypeOK
<1>1. /\ calls[c].pc = "create" /\ AtDeploy(c)
      /\ UNCHANGED <<listening, pickup, late, raced, serverDeaths>>
  BY DEF CreateContainer, AtDeploy, AtWorkPcs
<1>2. CASE DockerRefuses(c) /\ UNCHANGED containers
  BY <1>1, <1>2, HostStays, FailureKeeps
<1>3. CASE /\ containers[Service(c)] = NoContainer
           /\ containers' = [containers EXCEPT ![Service(c)] = [state |-> "created", by |-> c]]
           /\ (CallAt(c, "start") /\ UNCHANGED currentDeploy) \/ DockerRefuses(c)
  <2>1. PICK x \in Containers : x = [state |-> "created", by |-> c]
    BY DEF Containers, Owners
  <2>2. HostIsWell'
    <3>1. PICK n \in Names : n = Service(c)
      BY ServiceIs
    <3>2. containers' = [containers EXCEPT ![n] = x] /\ containers[n].state # "running"
      BY <1>3, <2>1, <3>1 DEF NoContainer
    <3>. QED
      BY <1>1, <3>2, NobodyIsSilenced
  <2>3. CASE DockerRefuses(c)
    BY <1>1, <2>2, <2>3, FailureKeeps
  <2>4. CASE CallAt(c, "start") /\ UNCHANGED currentDeploy
    <3>1. PICK call \in DeployCalls : /\ calls' = [calls EXCEPT ![c] = call] /\ call.pc = "start"
                                      /\ call.i = calls[c].i
      BY <2>4, NextPlace DEF AtWorkPcs
    <3>2. ASSUME ~raced PROVE Builds(c, call, containers')
      <4>1. Builds(c, calls[c], containers)
        BY <3>2 DEF DeployInv
      <4>2. Service(c) = StartOrder[call.i] /\ Service(c) \in Names /\ Before(call) = Before(calls[c])
        BY <3>1, ServiceIs DEF Before
      <4>3. /\ containers'[Service(c)] = x
            /\ \A n \in Names : n # Service(c) => containers'[n] = containers[n]
        BY <1>t, <1>3, <2>1, <4>2
      <4>. QED
        BY <1>1, <2>1, <3>1, <4>1, <4>2, <4>3 DEF Builds, Stage
    <3>3. ~raced => Refreshed(call, pickup'.draining)
      BY <1>1, <3>1 DEF DeployInv, Refreshed
    <3>4. /\ Clears(call, containers') /\ KeepsWord(c, calls[c], call.pc) /\ StartsWithFirst(call)
          /\ currentDeploy' = (IF call.pc \in AtWorkPcs THEN currentDeploy ELSE "null")
      BY <2>4, <3>1 DEF Clears, KeepsWord, StartsWithFirst, AtWorkPcs
    <3>. QED
      BY <1>1, <2>2, <3>1, <3>2, <3>3, <3>4, CallGoesOn
  <2>. QED
    BY <1>3, <2>3, <2>4
<1>. QED
  BY <1>2, <1>3 DEF CreateContainer

\* The start of a container.
LEMMA StartKeeps ==
  ASSUME DeployInv, NEW c \in Calls, StartContainer(c)
  PROVE  DeployInv' /\ MeetOnlyByRace /\ TellsTheTruth
<1>t. calls \in [Calls -> DeployCalls] /\ containers \in [Names -> Containers]
  BY DEF DeployInv, DeployTypeOK
<1>1. /\ calls[c].pc = "start" /\ AtDeploy(c)
      /\ UNCHANGED <<listening, pickup, late, raced, serverDeaths>>
  BY DEF StartContainer, AtDeploy, AtWorkPcs
<1>2. CASE DockerRefuses(c) /\ UNCHANGED containers
  BY <1>1, <1>2, HostStays, FailureKeeps
<1>3. CASE /\ containers' = [containers EXCEPT ![Service(c)].state = "running"]
           /\ (CallAt(c, "health") /\ UNCHANGED currentDeploy) \/ DockerRefuses(c)
  <2>1. PICK old \in Containers : old = containers[Service(c)]
    BY <1>t, ServiceIs
  <2>2. PICK x \in Containers : x = [old EXCEPT !.state = "running"]
    BY DEF Containers
  <2>3. x.state = "running" /\ x.by = old.by /\ x = [state |-> "running", by |-> old.by]
    BY <2>2 DEF Containers
  <2>4. containers' = [containers EXCEPT ![Service(c)] = x]
    BY <1>t, <1>3, <2>1, <2>2
  <2>5. HostIsWell'
    <3>1. PICK n \in Names : n = Service(c)
      BY ServiceIs
    <3>2. containers' = [containers EXCEPT ![n] = x] /\ x.state = "running"
      BY <2>3, <2>4, <3>1
    <3>. QED
      BY <1>1, <3>2, NobodyIsSilenced
  <2>6. CASE DockerRefuses(c)
    BY <1>1, <2>5, <2>6, FailureKeeps
  <2>7. CASE CallAt(c, "health") /\ UNCHANGED currentDeploy
    <3>1. PICK call \in DeployCalls : /\ calls' = [calls EXCEPT ![c] = call] /\ call.pc = "health"
                                      /\ call.i = calls[c].i
      BY <2>7, NextPlace DEF AtWorkPcs
    <3>2. ASSUME ~raced PROVE Builds(c, call, containers')
      <4>1. Builds(c, calls[c], containers)
        BY <3>2 DEF DeployInv
      <4>2. Service(c) = StartOrder[call.i] /\ Service(c) \in Names /\ Before(call) = Before(calls[c])
        BY <3>1, ServiceIs DEF Before
      <4>3. /\ containers'[Service(c)] = x
            /\ \A n \in Names : n # Service(c) => containers'[n] = containers[n]
        BY <1>t, <2>4, <4>2
      <4>4. old = [state |-> "created", by |-> c]
        BY <1>1, <2>1, <3>1, <4>1, <4>2 DEF Builds, Stage
      <4>5. x = Running(c)
        BY <2>3, <4>4 DEF Running
      <4>. QED
        BY <1>1, <3>1, <4>1, <4>2, <4>3, <4>5 DEF Builds, Stage
    <3>3. ~raced => Refreshed(call, pickup'.draining)
      BY <1>1, <3>1 DEF DeployInv, Refreshed
    <3>4. /\ Clears(call, containers') /\ KeepsWord(c, calls[c], call.pc) /\ StartsWithFirst(call)
          /\ currentDeploy' = (IF call.pc \in AtWorkPcs THEN currentDeploy ELSE "null")
      BY <2>7, <3>1 DEF Clears, KeepsWord, StartsWithFirst, AtWorkPcs
    <3>. QED
      BY <1>1, <2>5, <3>1, <3>2, <3>3, <3>4, CallGoesOn
  <2>. QED
    BY <1>3, <2>6, <2>7
<1>. QED
  BY <1>2, <1>3 DEF StartContainer

\* The wait for a healthy service.
LEMMA HealthKeeps ==
  ASSUME DeployInv, NEW c \in Calls, WaitForHealthy(c) \/ HealthTimesOut(c)
  PROVE  DeployInv' /\ MeetOnlyByRace /\ TellsTheTruth
<1>t. calls \in [Calls -> DeployCalls] /\ containers \in [Names -> Containers]
  BY DEF DeployInv, DeployTypeOK
<1>1. /\ calls[c].pc \in {"health", "giveup"} /\ AtDeploy(c)
      /\ UNCHANGED <<containers, listening, pickup, late, raced, serverDeaths>>
  BY DEF WaitForHealthy, HealthTimesOut, UnchangedHost, AtDeploy, AtWorkPcs
<1>2. HostIsWell'
  BY <1>1, HostStays
<1>3. /\ calls[c].i \in 1..2 /\ Service(c) = StartOrder[calls[c].i] /\ Service(c) \in Names
      /\ Len(StartOrder) = 2
  BY ServiceIs, NamesAre
<1>4. ASSUME ~raced
      PROVE  \A n \in Names : containers[n] = IF n = Service(c) \/ n \in Before(calls[c])
                                              THEN Running(c) ELSE NoContainer
  BY <1>1, <1>3, <1>4 DEF DeployInv, Builds, Stage
<1>5. ~raced => ~pickup.draining
  BY <1>1 DEF DeployInv, Refreshed
<1>6. CASE calls[c].pc = "health" /\ ServiceIsUp(c) /\ calls[c].i < Len(StartOrder)
  <2>1. calls[c].i = 1
    BY <1>3, <1>6
  <2>o. PICK old \in DeployCalls : old = calls[c]
    BY <1>t
  <2>2. PICK call \in DeployCalls : call = [old EXCEPT !.pc = "create", !.i = 2]
    <3>1. 2 \in 1..2 /\ "create" \in AtWorkPcs
      BY DEF AtWorkPcs
    <3>. QED
      BY <3>1 DEF DeployCalls
  <2>3. call.pc = "create" /\ call.i = 2
    BY <2>2 DEF DeployCalls
  <2>4. calls' = [calls EXCEPT ![c] = call] /\ currentDeploy' = currentDeploy
    <3>1. calls' = [calls EXCEPT ![c].pc = "create", ![c].i = @ + 1] /\ currentDeploy' = currentDeploy
      BY <1>6 DEF ServiceIsUp
    <3>2. calls'[c] = [old EXCEPT !.pc = "create", !.i = @ + 1] /\ old.i = 1
      BY <1>t, <2>o, <2>1, <3>1
    <3>3. calls'[c] = call
      BY <2>2, <3>2 DEF DeployCalls
    <3>. QED
      BY <1>t, <3>1, <3>3
  <2>5. ASSUME ~raced PROVE Builds(c, call, containers')
    BY <1>1, <1>3, <1>4, <2>1, <2>3, <2>5, NamesAre DEF Builds, Stage, Before
  <2>6. ~raced => Refreshed(call, pickup'.draining)
    BY <1>1, <1>5, <2>3 DEF Refreshed
  <2>7. /\ Clears(call, containers') /\ KeepsWord(c, calls[c], call.pc) /\ StartsWithFirst(call)
        /\ currentDeploy' = (IF call.pc \in AtWorkPcs THEN currentDeploy ELSE "null")
    BY <2>3, <2>4 DEF Clears, KeepsWord, StartsWithFirst, AtWorkPcs
  <2>. QED
    BY <1>1, <1>2, <2>3, <2>4, <2>5, <2>6, <2>7, CallGoesOn
<1>7. ASSUME NEW result \in {"success", "unhealthy"}, DeployReturns(c, result),
             ~raced => KeepsWord(c, calls[c], result)
      PROVE  DeployInv' /\ MeetOnlyByRace /\ TellsTheTruth
  <2>1. PICK call \in DeployCalls : calls' = [calls EXCEPT ![c] = call] /\ call.pc = result
    BY <1>7, EndedIsACall DEF DeployReturns
  <2>2. /\ StartsWithFirst(call) /\ Clears(call, containers') /\ Builds(c, call, containers')
        /\ Refreshed(call, pickup'.draining)
        /\ currentDeploy' = (IF call.pc \in AtWorkPcs THEN currentDeploy ELSE "null")
    BY <1>7, <2>1 DEF StartsWithFirst, Clears, Builds, Refreshed, DeployReturns, AtWorkPcs
  <2>. QED
    BY <1>1, <1>2, <1>7, <2>1, <2>2, CallGoesOn
<1>8. CASE calls[c].pc = "health" /\ ServiceIsUp(c) /\ ~(calls[c].i < Len(StartOrder))
  <2>1. calls[c].i = 2
    BY <1>3, <1>8
  <2>2. ASSUME ~raced PROVE KeepsWord(c, calls[c], "success")
    BY <1>3, <1>4, <2>1, <2>2, NamesAre DEF KeepsWord, Before
  <2>3. DeployReturns(c, "success")
    BY <1>8 DEF ServiceIsUp
  <2>. QED
    BY <1>7, <2>2, <2>3
<1>9. ASSUME calls[c].pc = "health", NEW heard \in Polls(Service(c)), UNCHANGED currentDeploy,
             calls' = [calls EXCEPT ![c].pc = "giveup", ![c].heard = heard]
      PROVE  DeployInv' /\ MeetOnlyByRace /\ TellsTheTruth
  <2>1. heard \in {"nothing", "working", "draining"}
    BY <1>9 DEF Polls
  <2>2. ~raced => heard # "draining" /\ (heard = "working" => Service(c) = "worker")
    <3>1. Service(c) \in {"api", "worker"}
      BY <1>3, NamesAre
    <3>. QED
      BY <1>5, <1>9, <3>1 DEF Polls, IsHealthy
  <2>o. PICK old \in DeployCalls : old = calls[c]
    BY <1>t
  <2>3. PICK call \in DeployCalls : call = [old EXCEPT !.pc = "giveup", !.heard = heard]
    <3>1. "giveup" \in AtWorkPcs
      BY DEF AtWorkPcs
    <3>. QED
      BY <2>1, <3>1 DEF DeployCalls
  <2>4. call.pc = "giveup" /\ call.heard = heard /\ call.i = calls[c].i
    BY <2>o, <2>3 DEF DeployCalls
  <2>5. calls' = [calls EXCEPT ![c] = call]
    BY <1>9, <1>t, <2>o, <2>3
  <2>6. ASSUME ~raced PROVE Builds(c, call, containers')
    BY <1>1, <1>3, <1>4, <2>4, <2>6 DEF Builds, Stage, Before
  <2>7. ~raced => Refreshed(call, pickup'.draining)
    BY <1>1, <1>3, <1>5, <2>2, <2>4 DEF Refreshed, HeardWell
  <2>8. /\ Clears(call, containers') /\ KeepsWord(c, calls[c], call.pc) /\ StartsWithFirst(call)
        /\ currentDeploy' = (IF call.pc \in AtWorkPcs THEN currentDeploy ELSE "null")
    BY <1>9, <2>4 DEF Clears, KeepsWord, StartsWithFirst, AtWorkPcs
  <2>. QED
    BY <1>1, <1>2, <2>4, <2>5, <2>6, <2>7, <2>8, CallGoesOn
<1>10. CASE HealthTimesOut(c)
  <2>1. calls[c].pc = "giveup" /\ DeployReturns(c, "unhealthy")
    BY <1>10 DEF HealthTimesOut
  <2>2. ASSUME ~raced PROVE KeepsWord(c, calls[c], "unhealthy")
    BY <1>3, <1>4, <2>1, <2>2 DEF KeepsWord, DeployInv, Refreshed
  <2>. QED
    BY <1>7, <2>1, <2>2
<1>. QED
  BY <1>6, <1>8, <1>9, <1>10 DEF WaitForHealthy, ServiceIsUp

\* What processes do meanwhile.
LEMMA HostKeeps ==
  ASSUME DeployInv,
         (\E n \in Names : Listen(n)) \/ (\E s \in Services : ProcessDies(s)) \/ WorkerTakesJob \/ WorkerEndsJob
  PROVE  DeployInv' /\ MeetOnlyByRace /\ TellsTheTruth
<1>t. /\ DeployTypeOK /\ ListenersRun /\ listening \in [Services -> Names \cup {Vacant}]
      /\ pickup \in [draining : BOOLEAN, job : BOOLEAN] /\ "worker" \in Services
      /\ \A s \in Services : listening[s] \in {Vacant, s, Composed[s]}
  BY DEF DeployInv, DeployTypeOK, Services
<1>1. ASSUME NEW n \in Names, Listen(n) PROVE DeployInv' /\ MeetOnlyByRace /\ TellsTheTruth
  <2>1. /\ containers[n].state = "running" /\ listening[ServiceOf(n)] = Vacant
        /\ listening' = [listening EXCEPT ![ServiceOf(n)] = n]
        /\ UNCHANGED <<containers, calls, pickup, currentDeploy, late, raced, serverDeaths>>
    BY <1>1 DEF Listen, UnchangedServer
  <2>2. ServiceOf(n) \in Services /\ n \in {ServiceOf(n), Composed[ServiceOf(n)]}
    BY NamesAre DEF ServiceOf, IsWorker
  <2>3. /\ listening' \in [Services -> Names \cup {Vacant}]
        /\ \A s \in Services : listening'[s] \in {Vacant, s, Composed[s]}
        /\ \A s \in Services : listening'[s] = n \/ listening'[s] = listening[s]
        /\ \A s \in Services : listening'[s] = Vacant => listening[s] = Vacant
    BY <1>t, <2>1, <2>2, NamesAre
  <2>4. ListenersRun'
    BY <1>t, <2>1, <2>3 DEF ListenersRun
  <2>. QED
    BY <1>t, <2>1, <2>3, <2>4, HostGoesOn
<1>2. ASSUME NEW s \in Services, ProcessDies(s) PROVE DeployInv' /\ MeetOnlyByRace /\ TellsTheTruth
  <2>1. PICK n \in Names : n = listening[s] /\ Silence(n)
    BY <1>t, <1>2 DEF ProcessDies
  <2>2. UNCHANGED <<containers, calls, currentDeploy, late, raced, serverDeaths>>
    BY <1>2 DEF ProcessDies, UnchangedServer
  <2>. QED
    BY <2>1, <2>2, SilenceKeeps, HostGoesOn
<1>3. ASSUME WorkerTakesJob \/ WorkerEndsJob PROVE DeployInv' /\ MeetOnlyByRace /\ TellsTheTruth
  <2>1. UNCHANGED <<containers, calls, listening, currentDeploy, late, raced, serverDeaths>>
    BY <1>3 DEF WorkerTakesJob, WorkerEndsJob, UnchangedServer
  <2>2. pickup' \in [draining : BOOLEAN, job : BOOLEAN] /\ (pickup'.draining => pickup.draining)
    BY <1>t, <1>3 DEF WorkerTakesJob, WorkerEndsJob
  <2>3. listening["worker"] # Vacant
    BY <1>t, <1>3 DEF WorkerTakesJob, WorkerEndsJob, ListenersRun, NoPickup
  <2>4. ListenersRun'
    BY <1>t, <2>1, <2>3 DEF ListenersRun
  <2>. QED
    BY <1>t, <2>1, <2>2, <2>4, HostGoesOn
<1>. QED
  BY <1>1, <1>2, <1>3

\* A step keeps the invariant, and the word of every deploy.
LEMMA DeployStep ==
  DeployInv /\ [DeployNext]_deployVars => DeployInv' /\ MeetOnlyByRace /\ TellsTheTruth
<1>1. ASSUME DeployInv, UNCHANGED deployVars PROVE DeployInv' /\ MeetOnlyByRace /\ TellsTheTruth
  <2>1. UNCHANGED <<containers, calls, listening, pickup, currentDeploy, late, raced, serverDeaths>>
    BY <1>1 DEF deployVars
  <2>2. HostIsWell'
    BY <1>1, <2>1, HostStays
  <2>. QED
    BY <1>1, <2>1, <2>2, HostGoesOn DEF HostIsWell
<1>2. ASSUME DeployInv, NEW c \in Calls, ExecuteDeploy(c) PROVE DeployInv' /\ MeetOnlyByRace /\ TellsTheTruth
  BY <1>2, BeginKeeps, PullKeeps, ListKeeps, NextKeeps, DrainKeeps, StopKeeps, BuildBegins, CreateKeeps,
     StartKeeps, HealthKeeps
  DEF ExecuteDeploy
<1>. QED
  BY <1>1, <1>2, AskKeeps, HostKeeps, DeathKeeps DEF DeployNext

\* Two deploys meet only by the race on currentDeploy, and a deploy that met none tells the
\* truth of what it leaves: for any number of calls, of whatever images.
THEOREM WordsAreKept == DeploySpec => DeploysKeepTheirWord
<1>1. DeployInv /\ [DeployNext]_deployVars => DeployInv' /\ [MeetOnlyByRace /\ TellsTheTruth]_deployVars
  BY DeployStep
<1>. QED
  BY <1>1, DeployStart, PTL DEF DeploySpec, DeploysKeepTheirWord
=============================================================================
