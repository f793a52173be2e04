-------------------------- MODULE GovernanceProofs ---------------------------
(***************************************************************************)
(* Machine-checked proofs about the rate windows, the refusals and the     *)
(* pages, for every set of requests, every policy and any number of        *)
(* operations.                                                             *)
(*                                                                         *)
(* The windows alone do not say how often a subject was admitted: a window *)
(* is replaced, or removed by compaction, and with it what it counted.     *)
(* The inductive invariant ties each window to the committed attempts: it  *)
(* counts the ones since its start, no later part of them exceeds a limit, *)
(* and neither does any part of the ones that a stretch of time reaching   *)
(* into the window can hold from before its start.  A removed window       *)
(* leaves the last time it was used, too long ago to be in one stretch     *)
(* with anything still to come.                                            *)
(*                                                                         *)
(* A cursor alone does not say what was given out before it.  The          *)
(* invariant of a reader does: all that matched and stands before the      *)
(* cursor was seen, and nothing behind it was.  Records are only appended  *)
(* after the snapshot and removed, connections only move to the front of   *)
(* their order, so the tables keep it while the reader waits.              *)
(***************************************************************************)
EXTENDS Governance, FiniteSetTheorems, FunctionTheorems, SequenceTheorems, TLAPS

-----------------------------------------------------------------------------
(* Sets of attempts.                                                       *)

Verdicts == {"admitted", "refused"}

From(A, s, verdict, u) == {a \in A : a.verdict = verdict /\ s \in a.subjects /\ a.at >= u}

Between(A, s, t, u) ==
    {a \in A : a.verdict = "admitted" /\ s \in a.subjects /\ t <= a.at /\ a.at < u}

Stretch(A, s, t) ==
    {a \in A : a.verdict = "admitted" /\ s \in a.subjects /\ t <= a.at /\ a.at <= t + WindowMs}

Within(X) == X # {} => \E a \in X : Cardinality(X) <= a.limit
Twice(X) == X # {} => \E a \in X : Cardinality(X) <= 2 * a.limit

AttemptsSound(A, most) ==
    /\ IsFiniteSet(A)
    /\ \A a \in A : a.number \in Nat /\ a.number <= most /\ a.at \in Nat /\ a.limit \in Nat

WindowRow == [started : Nat, ends : Nat, accepted : Nat, rejected : Nat, last : Nat, expires : Nat]

\* What is known of a window before an attempt at a time counts in it.
Loaded(A, s, w, at) ==
    /\ w.started \in Nat /\ w.ends = w.started + WindowMs
    /\ w.started <= at /\ at <= w.ends
    /\ \A a \in A : s \in a.subjects => a.at <= at
    /\ w.accepted = Cardinality(From(A, s, "admitted", w.started))
    /\ w.rejected = Cardinality(From(A, s, "refused", w.started))
    /\ \A u \in Nat : u >= w.started => Within(From(A, s, "admitted", u))
    /\ \A t \in Nat : t + WindowMs >= w.started => Within(Between(A, s, t, w.started))

Window(A, s, w) ==
    /\ w \in WindowRow /\ Loaded(A, s, w, w.last)
    /\ w.expires = w.last + RetentionMs
    /\ \E most \in Limits : w.accepted <= most

\* What is left of a subject without a window.
Gone(A, s, time) ==
    \/ \A a \in A : s \notin a.subjects
    \/ \E last \in Nat :
          /\ last + RetentionMs < time
          /\ \A a \in A : s \in a.subjects => a.at <= last
          /\ Within(From(A, s, "admitted", last))

LEMMA PartsAreFinite ==
    ASSUME NEW A, IsFiniteSet(A), NEW s, NEW t, NEW u, NEW verdict
    PROVE  /\ IsFiniteSet(From(A, s, verdict, u)) /\ Cardinality(From(A, s, verdict, u)) \in Nat
           /\ IsFiniteSet(Between(A, s, t, u)) /\ Cardinality(Between(A, s, t, u)) \in Nat
           /\ IsFiniteSet(Stretch(A, s, t)) /\ Cardinality(Stretch(A, s, t)) \in Nat
<1>1. /\ From(A, s, verdict, u) \subseteq A /\ Between(A, s, t, u) \subseteq A
      /\ Stretch(A, s, t) \subseteq A
  BY DEF From, Between, Stretch
<1> QED
  BY <1>1, FS_Subset, FS_CardinalityType

\* A part that is empty, or equal to one within a limit, is within a limit.
LEMMA EmptyWithin == Within({}) /\ Twice({})
BY DEF Within, Twice

\* An attempt at the latest time joins every part that reaches that time.
LEMMA FromGrows ==
    ASSUME NEW A, NEW n, NEW s, NEW u \in Nat, s \in n.subjects, n.at \in Nat, n.at >= u,
           n \notin A, IsFiniteSet(A)
    PROVE  /\ From(A \cup {n}, s, n.verdict, u) = From(A, s, n.verdict, u) \cup {n}
           /\ Cardinality(From(A \cup {n}, s, n.verdict, u)) = Cardinality(From(A, s, n.verdict, u)) + 1
<1>1. From(A \cup {n}, s, n.verdict, u) = From(A, s, n.verdict, u) \cup {n}
  BY DEF From
<1>2. n \notin From(A, s, n.verdict, u)
  BY DEF From
<1> QED
  BY <1>1, <1>2, PartsAreFinite, FS_AddElement

LEMMA OtherVerdictStays ==
    ASSUME NEW A, NEW n, NEW s, NEW u, NEW verdict, verdict # n.verdict
    PROVE  From(A \cup {n}, s, verdict, u) = From(A, s, verdict, u)
BY DEF From

\* An attempt that does not concern a subject leaves its parts alone.
LEMMA OthersStay ==
    ASSUME NEW A, NEW n, NEW s, s \notin n.subjects
    PROVE  /\ \A verdict, u : From(A \cup {n}, s, verdict, u) = From(A, s, verdict, u)
           /\ \A t, u : Between(A \cup {n}, s, t, u) = Between(A, s, t, u)
           /\ \A t : Stretch(A \cup {n}, s, t) = Stretch(A, s, t)
BY DEF From, Between, Stretch

LEMMA OthersKeep ==
    ASSUME NEW A, NEW n, NEW s, s \notin n.subjects
    PROVE  /\ \A w : Window(A, s, w) => Window(A \cup {n}, s, w)
           /\ \A time : Gone(A, s, time) => Gone(A \cup {n}, s, time)
<1>1. /\ \A verdict, u : From(A \cup {n}, s, verdict, u) = From(A, s, verdict, u)
      /\ \A t, u : Between(A \cup {n}, s, t, u) = Between(A, s, t, u)
  BY OthersStay
<1>2. \A v : (\A a \in A : s \in a.subjects => a.at <= v)
                => \A a \in A \cup {n} : s \in a.subjects => a.at <= v
  OBVIOUS
<1>3. (\A a \in A : s \notin a.subjects) => \A a \in A \cup {n} : s \notin a.subjects
  OBVIOUS
<1>4. \A w, at : Loaded(A, s, w, at) => Loaded(A \cup {n}, s, w, at)
  BY <1>1, <1>2 DEF Loaded
<1>5. \A w : Window(A, s, w) => Window(A \cup {n}, s, w)
  BY <1>4 DEF Window
<1>6. \A time : Gone(A, s, time) => Gone(A \cup {n}, s, time)
  BY <1>1, <1>2, <1>3 DEF Gone
<1> QED
  BY <1>5, <1>6

-----------------------------------------------------------------------------
(* Loading a window.                                                       *)

\* The parts of a fresh window.
LEMMA FreshLoaded ==
    ASSUME NEW A, IsFiniteSet(A), NEW s, NEW at \in Nat,
           \A a \in A : a.at \in Nat /\ (s \in a.subjects => a.at < at),
           \A t \in Nat : t + WindowMs >= at => Within(Between(A, s, t, at))
    PROVE  Loaded(A, s, FreshWindow(at), at)
<1> DEFINE w == FreshWindow(at)
<1>1. /\ w.started = at /\ w.ends = at + WindowMs /\ w.accepted = 0 /\ w.rejected = 0
  BY DEF FreshWindow
<1> HIDE DEF w
<1>2. \A verdict : \A u \in Nat : u >= at => From(A, s, verdict, u) = {}
  BY DEF From
<1>3. Cardinality({}) = 0
  BY FS_EmptySet
<1>4. at <= at + WindowMs /\ at >= at
  BY PolicyAssumption
<1>5. From(A, s, "admitted", at) = {} /\ From(A, s, "refused", at) = {}
  BY <1>4, <1>2
<1>6. \A u \in Nat : u >= at => Within(From(A, s, "admitted", u))
  BY <1>2, EmptyWithin
<1>7. \A a \in A : s \in a.subjects => a.at <= at
  OBVIOUS
<1>8. Loaded(A, s, w, at)
  BY <1>1, <1>3, <1>4, <1>5, <1>6, <1>7 DEF Loaded
<1> QED
  BY <1>8 DEF w

\* A window that is still running, one that has ended, and none at all.
LEMMA RunningLoaded ==
    ASSUME NEW A, NEW s, NEW w, NEW at \in Nat, Window(A, s, w), w.last <= at, at <= w.ends,
           \A a \in A : a.at \in Nat
    PROVE  Loaded(A, s, w, at)
<1>1. \A a \in A : s \in a.subjects => a.at <= at
  BY DEF Window, WindowRow, Loaded
<1>2. w.started <= at
  BY DEF Window, WindowRow, Loaded
<1> QED
  BY <1>1, <1>2 DEF Window, Loaded

LEMMA EndedLoaded ==
    ASSUME NEW A, IsFiniteSet(A), NEW s, NEW w, NEW at \in Nat, Window(A, s, w), ~(at <= w.ends),
           \A a \in A : a.at \in Nat
    PROVE  Loaded(A, s, FreshWindow(at), at)
<1>1. /\ w.started \in Nat /\ w.ends = w.started + WindowMs /\ w.last \in Nat /\ w.last <= w.ends
      /\ \A a \in A : s \in a.subjects => a.at <= w.last
      /\ \A u \in Nat : u >= w.started => Within(From(A, s, "admitted", u))
  BY DEF Window, WindowRow, Loaded
<1>2. \A a \in A : s \in a.subjects => a.at < at
  BY <1>1, PolicyAssumption
<1>3. ASSUME NEW t \in Nat, t + WindowMs >= at PROVE Within(Between(A, s, t, at))
  <2>1. t >= w.started
    BY <1>1, <1>3, PolicyAssumption
  <2>2. Between(A, s, t, at) = From(A, s, "admitted", t)
    BY <1>2 DEF Between, From
  <2> QED
    BY <1>1, <2>1, <2>2
<1> QED
  BY <1>2, <1>3, FreshLoaded

LEMMA GoneLoaded ==
    ASSUME NEW A, IsFiniteSet(A), NEW s, NEW at \in Nat, NEW time \in Nat,
           Gone(A, s, time), at + MaxSkew >= time,
           \A a \in A : a.at \in Nat
    PROVE  Loaded(A, s, FreshWindow(at), at)
<1>1. CASE \A a \in A : s \notin a.subjects
  <2>1. \A t \in Nat : Between(A, s, t, at) = {}
    BY <1>1 DEF Between
  <2>2. \A t \in Nat : Within(Between(A, s, t, at))
    BY <2>1, EmptyWithin
  <2> QED
    BY <1>1, <2>2, FreshLoaded
<1>2. CASE \E last \in Nat :
             /\ last + RetentionMs < time
             /\ \A a \in A : s \in a.subjects => a.at <= last
             /\ Within(From(A, s, "admitted", last))
  <2>1. PICK last \in Nat : /\ last + RetentionMs < time
                            /\ \A a \in A : s \in a.subjects => a.at <= last
                            /\ Within(From(A, s, "admitted", last))
    BY <1>2
  <2>2. last + WindowMs <= at /\ last < at
    BY <2>1, PolicyAssumption, DelayAssumption
  <2>3. \A a \in A : s \in a.subjects => a.at < at
    BY <2>1, <2>2
  <2>4. ASSUME NEW t \in Nat, t + WindowMs >= at PROVE Within(Between(A, s, t, at))
    <3>1. t >= last
      BY <2>2, <2>4, PolicyAssumption
    <3>2. CASE t = last
      <4>1. Between(A, s, t, at) = From(A, s, "admitted", last)
        BY <2>3, <3>2 DEF Between, From
      <4> QED
        BY <2>1, <4>1
    <3>3. CASE t > last
      <4>1. Between(A, s, t, at) = {}
        BY <2>1, <3>3 DEF Between
      <4> QED
        BY <4>1, EmptyWithin
    <3> QED
      BY <3>1, <3>2, <3>3
  <2> QED
    BY <2>3, <2>4, FreshLoaded
<1> QED
  BY <1>1, <1>2 DEF Gone

-----------------------------------------------------------------------------
(* Counting an attempt in a loaded window.                                 *)

Counts(w, new, at, admitted) ==
    /\ new \in WindowRow
    /\ new.started = w.started /\ new.ends = w.ends
    /\ new.accepted = IF admitted THEN w.accepted + 1 ELSE w.accepted
    /\ new.rejected = IF admitted THEN w.rejected ELSE w.rejected + 1
    /\ new.last = at /\ new.expires = at + RetentionMs

LEMMA CountedWindow ==
    ASSUME NEW A, NEW most \in Nat, AttemptsSound(A, most), NEW n, n \notin A, NEW s \in n.subjects,
           n.at \in Nat, n.limit \in Limits, n.verdict \in Verdicts,
           NEW w, NEW new, Loaded(A, s, w, n.at), Counts(w, new, n.at, n.verdict = "admitted"),
           n.verdict = "admitted" => w.accepted < n.limit,
           \E m \in Limits : w.accepted <= m
    PROVE  Window(A \cup {n}, s, new)
<1> DEFINE B == A \cup {n}
<1>0. /\ w.started \in Nat /\ w.ends = w.started + WindowMs /\ n.at >= w.started /\ n.at <= w.ends
      /\ \A a \in A : s \in a.subjects => a.at <= n.at
      /\ w.accepted = Cardinality(From(A, s, "admitted", w.started))
      /\ w.rejected = Cardinality(From(A, s, "refused", w.started))
      /\ \A u \in Nat : u >= w.started => Within(From(A, s, "admitted", u))
      /\ \A t \in Nat : t + WindowMs >= w.started => Within(Between(A, s, t, w.started))
  <2>1. n.at >= w.started
    BY DEF Loaded
  <2> QED
    BY <2>1 DEF Loaded
<1>1. IsFiniteSet(A) /\ n.limit \in Nat
  BY PolicyAssumption DEF AttemptsSound
<1>2. w.accepted \in Nat /\ w.rejected \in Nat
  BY <1>0, <1>1, PartsAreFinite
<1>3. /\ Cardinality(From(B, s, n.verdict, w.started)) = Cardinality(From(A, s, n.verdict, w.started)) + 1
      /\ \A verdict : verdict # n.verdict =>
            From(B, s, verdict, w.started) = From(A, s, verdict, w.started)
  <2>1. IsFiniteSet(A) /\ n.at >= w.started /\ n \notin A /\ w.started \in Nat
    BY <1>0, <1>1
  <2>2. Cardinality(From(B, s, n.verdict, w.started)) = Cardinality(From(A, s, n.verdict, w.started)) + 1
    BY <2>1, FromGrows
  <2> QED
    BY <2>2, OtherVerdictStays
<1>4. /\ new.accepted = Cardinality(From(B, s, "admitted", w.started))
      /\ new.rejected = Cardinality(From(B, s, "refused", w.started))
  <2>1. CASE n.verdict = "admitted"
    BY <1>0, <1>3, <2>1 DEF Counts
  <2>2. CASE n.verdict = "refused"
    BY <1>0, <1>3, <2>2 DEF Counts
  <2> QED
    BY <2>1, <2>2 DEF Verdicts
<1>5. \A a \in B : s \in a.subjects => a.at <= n.at
  BY <1>0
<1>6. ASSUME NEW u \in Nat, u >= w.started PROVE Within(From(B, s, "admitted", u))
  <2>1. CASE n.verdict = "refused" \/ ~(n.at >= u)
    <3>1. From(B, s, "admitted", u) = From(A, s, "admitted", u)
      BY <2>1 DEF From
    <3> QED
      BY <1>0, <1>6, <3>1
  <2>2. CASE n.verdict = "admitted" /\ n.at >= u
    <3>1. /\ From(B, s, "admitted", u) = From(A, s, "admitted", u) \cup {n}
          /\ Cardinality(From(B, s, "admitted", u)) = Cardinality(From(A, s, "admitted", u)) + 1
      <4>1. IsFiniteSet(A) /\ n.at >= u /\ n \notin A
        BY <1>1, <2>2
      <4>2. /\ From(B, s, n.verdict, u) = From(A, s, n.verdict, u) \cup {n}
            /\ Cardinality(From(B, s, n.verdict, u)) = Cardinality(From(A, s, n.verdict, u)) + 1
        BY <4>1, FromGrows
      <4> QED
        BY <2>2, <4>2
    <3>2. From(A, s, "admitted", u) \subseteq From(A, s, "admitted", w.started)
      BY <1>0, <1>6 DEF From, AttemptsSound
    <3>3. /\ Cardinality(From(A, s, "admitted", u)) <= w.accepted
          /\ Cardinality(From(A, s, "admitted", u)) \in Nat
      <4>1. /\ IsFiniteSet(From(A, s, "admitted", w.started))
            /\ Cardinality(From(A, s, "admitted", u)) \in Nat
        BY <1>1, PartsAreFinite
      <4> QED
        BY <1>0, <3>2, <4>1, FS_Subset
    <3>4. Cardinality(From(B, s, "admitted", u)) <= n.limit
      BY <1>1, <1>2, <2>2, <3>1, <3>3
    <3> QED
      BY <3>1, <3>4 DEF Within
  <2> QED
    BY <2>1, <2>2 DEF Verdicts
<1>7. ASSUME NEW t \in Nat, t + WindowMs >= w.started PROVE Within(Between(B, s, t, w.started))
  <2>1. Between(B, s, t, w.started) = Between(A, s, t, w.started)
    BY <1>0 DEF Between
  <2> QED
    BY <1>0, <1>7, <2>1
<1>8. \E m \in Limits : new.accepted <= m
  <2>1. CASE n.verdict = "admitted"
    <3>1. new.accepted <= n.limit
      BY <1>1, <1>2, <2>1 DEF Counts
    <3> QED
      BY <3>1
  <2>2. CASE n.verdict # "admitted"
    BY <2>2 DEF Counts
  <2> QED
    BY <2>1, <2>2
<1> HIDE DEF B
<1>9. Loaded(B, s, new, n.at)
  BY <1>0, <1>4, <1>5, <1>6, <1>7 DEF Loaded, Counts
<1>10. Window(B, s, new)
  BY <1>8, <1>9 DEF Window, Counts
<1> QED
  BY <1>10 DEF B

\* The attempts of one stretch fall into the window they reach and what is
\* before its start.
LEMMA CountedStretch ==
    ASSUME NEW A, NEW most \in Nat, AttemptsSound(A, most), NEW n, n \notin A, NEW s \in n.subjects,
           n.at \in Nat, n.limit \in Limits, n.verdict \in Verdicts,
           NEW w, Loaded(A, s, w, n.at),
           n.verdict = "admitted" => w.accepted < n.limit,
           NEW t \in Nat, Twice(Stretch(A, s, t))
    PROVE  Twice(Stretch(A \cup {n}, s, t))
<1> DEFINE B == A \cup {n}
           late == From(A, s, "admitted", w.started)
           early == Between(A, s, t, w.started)
           X == Stretch(B, s, t)
<1>0. /\ w.started \in Nat /\ w.ends = w.started + WindowMs /\ n.at >= w.started /\ n.at <= w.ends
      /\ \A a \in A : s \in a.subjects => a.at <= n.at
      /\ w.accepted = Cardinality(late)
      /\ t + WindowMs >= w.started => Within(early)
  <2>1. n.at >= w.started
    BY DEF Loaded
  <2> QED
    BY <2>1 DEF Loaded
<1>1. IsFiniteSet(A) /\ n.limit \in Nat /\ (\A a \in A : a.at \in Nat /\ a.limit \in Nat)
  BY PolicyAssumption DEF AttemptsSound
<1>2. CASE ~(n.verdict = "admitted" /\ t <= n.at /\ n.at <= t + WindowMs)
  <2>1. X = Stretch(A, s, t)
    BY <1>2 DEF Stretch
  <2> QED
    BY <2>1
<1>3. CASE n.verdict = "admitted" /\ t <= n.at /\ n.at <= t + WindowMs
  <2>1. t + WindowMs >= w.started
    BY <1>0, <1>3, PolicyAssumption
  <2>2. X \subseteq early \cup (late \cup {n}) /\ early \subseteq X /\ n \in X
    <3>1. n \in X
      BY <1>3 DEF Stretch
    <3>2. early \subseteq X
      BY <1>0, <1>1, <1>3, <2>1, PolicyAssumption DEF Stretch, Between
    <3>3. X \subseteq early \cup (late \cup {n})
      BY <1>0, <1>1 DEF Stretch, Between, From
    <3> QED
      BY <3>1, <3>2, <3>3
  <2>3. /\ IsFiniteSet(early) /\ Cardinality(early) \in Nat
        /\ IsFiniteSet(late) /\ Cardinality(late) \in Nat
    BY <1>1, PartsAreFinite
  <2>4. IsFiniteSet(B)
    BY <1>1, FS_AddElement
  <2>5. IsFiniteSet(X) /\ Cardinality(X) \in Nat
    BY <2>4, PartsAreFinite
  <2>6. n \notin late
    BY DEF From
  <2>7. IsFiniteSet(late \cup {n}) /\ Cardinality(late \cup {n}) = Cardinality(late) + 1
    BY <2>3, <2>6, FS_AddElement
  <2>8. \A a \in early : a.limit \in Nat
    BY <1>1 DEF Between
  <2> HIDE DEF X, early, late, B
  <2>9. Cardinality(late \cup {n}) <= n.limit
    BY <1>0, <1>1, <1>3, <2>3, <2>7
  <2>10. /\ IsFiniteSet(early \cup (late \cup {n}))
         /\ Cardinality(early \cup (late \cup {n})) =
              Cardinality(early) + Cardinality(late \cup {n}) - Cardinality(early \cap (late \cup {n}))
    BY <2>3, <2>7, FS_Union
  <2>11. Cardinality(early \cap (late \cup {n})) \in Nat
    BY <2>3, FS_Intersection, FS_CardinalityType
  <2>12. Cardinality(X) <= Cardinality(early \cup (late \cup {n}))
    BY <2>2, <2>10, FS_Subset
  <2>13. Cardinality(X) <= Cardinality(early) + n.limit
    <3>1. Cardinality(late \cup {n}) \in Nat
      BY <2>3, <2>7
    <3> QED
      BY <1>1, <2>3, <2>5, <2>9, <2>10, <2>11, <2>12, <3>1
  <2>14. CASE early = {}
    <3>1. Cardinality(early) = 0
      BY <2>14, FS_EmptySet
    <3>2. Cardinality(X) <= 2 * n.limit
      BY <1>1, <2>5, <2>13, <3>1
    <3> QED
      BY <2>2, <3>2 DEF Twice, X, B
  <2>15. CASE early # {}
    <3>1. PICK a \in early : Cardinality(early) <= a.limit
      BY <1>0, <2>1, <2>15 DEF Within
    <3>2. CASE a.limit <= n.limit
      <4>1. Cardinality(X) <= 2 * n.limit
        BY <1>1, <2>3, <2>5, <2>8, <2>13, <3>1, <3>2
      <4> QED
        BY <2>2, <4>1 DEF Twice, X, B
    <3>3. CASE a.limit > n.limit
      <4>1. Cardinality(X) <= 2 * a.limit
        BY <1>1, <2>3, <2>5, <2>8, <2>13, <3>1, <3>3
      <4> QED
        BY <2>2, <3>1, <4>1 DEF Twice, X, B
    <3>4. a.limit \in Nat
      BY <2>8
    <3> QED
      BY <1>1, <3>2, <3>3, <3>4
  <2> QED
    BY <2>14, <2>15
<1> QED
  BY <1>2, <1>3

-----------------------------------------------------------------------------
(* The tables.                                                             *)

TablesTyped ==
    /\ now \in 1..MaxTime /\ limit \in Limits /\ sequence \in Nat
    /\ DOMAIN rate \subseteq Subjects
    /\ DOMAIN audit \subseteq 1..sequence
    /\ DOMAIN connections \subseteq Connects
    /\ challenges \in [Challenges -> {"none", "pending", "resolved"}]

\* Only the refusal of a connection is ever committed.
RefusalsAreAdmissions ==
    \A n \in DOMAIN audit : audit[n].outcome = "rate_limited" =>
        /\ audit[n].kind = "connection_admission"
        /\ \A q \in DOMAIN connections : audit[n].correlation # RequestCorrelation(q)

WindowsTrue ==
    /\ AttemptsSound(attempts, sequence)
    /\ \A s \in DOMAIN rate : Window(attempts, s, rate[s])
    /\ \A s \in Subjects : s \notin DOMAIN rate => Gone(attempts, s, now)
    /\ \A s \in Subjects, t \in Nat : Twice(Stretch(attempts, s, t))

GovernanceInv == TablesTyped /\ RefusalsAreAdmissions /\ WindowsTrue

\* The window an attempt that was judged counts in.
LEMMA LoadedWindow ==
    ASSUME TablesTyped, WindowsTrue, NEW at \in Observed, NEW s \in Subjects, ~Unreadable(s, at)
    PROVE  /\ Loaded(attempts, s, load_rate_state(s, at), at)
           /\ load_rate_state(s, at).accepted <= limit
           /\ \A admitted : Counts(load_rate_state(s, at), persist_rate_state(s, at, admitted), at, admitted)
<1>0. at \in Nat /\ at <= now /\ at + MaxSkew >= now /\ now \in Nat /\ limit \in Nat
  BY PolicyAssumption DEF Observed, TablesTyped
<1>1. IsFiniteSet(attempts) /\ \A a \in attempts : a.at \in Nat
  BY DEF WindowsTrue, AttemptsSound
<1> DEFINE w == load_rate_state(s, at)
<1>2. ASSUME s \in DOMAIN rate /\ at <= rate[s].ends
      PROVE  Loaded(attempts, s, w, at) /\ w.accepted <= limit /\ w \in WindowRow
  <2>1. w = rate[s] /\ ~(at < rate[s].last) /\ ~(rate[s].accepted > limit)
    BY <1>2 DEF load_rate_state, Unreadable
  <2>2. Window(attempts, s, rate[s])
    BY <1>2 DEF WindowsTrue
  <2>3. rate[s] \in WindowRow /\ rate[s].last \in Nat /\ rate[s].accepted \in Nat
    BY <2>2 DEF Window, WindowRow
  <2>4. Loaded(attempts, s, rate[s], at)
    BY <1>0, <1>1, <1>2, <2>1, <2>2, <2>3, RunningLoaded
  <2> QED
    BY <1>0, <2>1, <2>3, <2>4
<1>3. ASSUME ~(s \in DOMAIN rate /\ at <= rate[s].ends)
      PROVE  Loaded(attempts, s, w, at) /\ w.accepted <= limit /\ w \in WindowRow
  <2>1. w = FreshWindow(at)
    BY <1>3 DEF load_rate_state
  <2>2. w.accepted <= limit /\ w \in WindowRow
    BY <1>0, <2>1, PolicyAssumption DEF FreshWindow, WindowRow
  <2>3. Loaded(attempts, s, FreshWindow(at), at)
    <3>1. CASE s \in DOMAIN rate
      BY <1>0, <1>1, <1>3, <3>1, EndedLoaded DEF WindowsTrue
    <3>2. CASE s \notin DOMAIN rate
      BY <1>0, <1>1, <3>2, GoneLoaded DEF WindowsTrue
    <3> QED
      BY <3>1, <3>2
  <2> QED
    BY <2>1, <2>2, <2>3
<1>4. Loaded(attempts, s, w, at) /\ w.accepted <= limit /\ w \in WindowRow
  BY <1>2, <1>3
<1>5. ASSUME NEW admitted PROVE Counts(w, persist_rate_state(s, at, admitted), at, admitted)
  <2> DEFINE accepted == IF admitted THEN w.accepted + 1 ELSE w.accepted
             rejected == IF admitted THEN w.rejected ELSE w.rejected + 1
  <2>1. /\ accepted \in Nat /\ rejected \in Nat /\ at + RetentionMs \in Nat
    BY <1>0, <1>4, PolicyAssumption DEF WindowRow
  <2>2. persist_rate_state(s, at, admitted) =
           [w EXCEPT !.accepted = accepted, !.rejected = rejected, !.last = at,
                     !.expires = at + RetentionMs]
    BY DEF persist_rate_state
  <2> HIDE DEF w, accepted, rejected
  <2> QED
    BY <1>0, <1>4, <2>1, <2>2 DEF Counts, WindowRow, accepted, rejected
<1> QED
  BY <1>4, <1>5

\* One committed attempt on readable windows.
LEMMA GovernStep ==
    ASSUME TablesTyped, WindowsTrue, NEW at \in Observed, NEW q, NEW kind,
           NEW subjects \in SUBSET Subjects, NEW admitted \in BOOLEAN,
           \A s \in subjects : ~Unreadable(s, at),
           admitted => can_accept(subjects, at),
           govern_rate_attempt(q, kind, subjects, at, admitted), now' = now
    PROVE  WindowsTrue' /\ DOMAIN rate' \subseteq Subjects
<1> DEFINE verdict == IF admitted THEN "admitted" ELSE "refused"
           n == [correlation |-> q, number |-> sequence + 1, subjects |-> subjects,
                 at |-> at, verdict |-> verdict, limit |-> limit]
<1>0. at \in Nat /\ limit \in Limits /\ limit \in Nat /\ sequence \in Nat
  BY PolicyAssumption DEF Observed, TablesTyped
<1>1. /\ n.number = sequence + 1 /\ n.subjects = subjects /\ n.at = at
      /\ n.verdict = verdict /\ n.limit = limit
  OBVIOUS
<1>2. attempts' = attempts \cup {n}
  BY DEF govern_rate_attempt, Attempted
<1>3. sequence' = sequence + 1 /\ sequence' \in Nat
  BY <1>0 DEF govern_rate_attempt, record_audit
<1>4. /\ DOMAIN rate' = DOMAIN rate \cup subjects
      /\ \A s \in subjects : rate'[s] = persist_rate_state(s, at, admitted)
      /\ \A s \in DOMAIN rate : s \notin subjects => rate'[s] = rate[s]
  BY DEF govern_rate_attempt, PersistedWindows
<1>5. AttemptsSound(attempts, sequence)
  BY DEF WindowsTrue
<1>6. n \notin attempts
  BY <1>0, <1>1, <1>5 DEF AttemptsSound
<1>7. verdict \in Verdicts /\ (admitted <=> verdict = "admitted")
  BY DEF Verdicts
<1> HIDE DEF n, verdict
<1>8. AttemptsSound(attempts', sequence')
  <2>1. IsFiniteSet(attempts')
    BY <1>2, <1>5, FS_AddElement DEF AttemptsSound
  <2>2. ASSUME NEW a \in attempts'
        PROVE  a.number \in Nat /\ a.number <= sequence' /\ a.at \in Nat /\ a.limit \in Nat
    <3>1. CASE a = n
      BY <1>0, <1>1, <1>3, <3>1
    <3>2. CASE a \in attempts
      BY <1>0, <1>3, <1>5, <3>2 DEF AttemptsSound
    <3> QED
      BY <1>2, <3>1, <3>2
  <2> QED
    BY <2>1, <2>2 DEF AttemptsSound
<1>9. ASSUME NEW s \in subjects
      PROVE  /\ Window(attempts', s, rate'[s])
             /\ \A t \in Nat : Twice(Stretch(attempts', s, t))
  <2> DEFINE w == load_rate_state(s, at)
             new == persist_rate_state(s, at, admitted)
  <2>1. Loaded(attempts, s, w, at) /\ w.accepted <= limit /\ Counts(w, new, at, admitted)
    BY LoadedWindow
  <2>2. admitted => w.accepted < limit
    BY DEF can_accept
  <2>3. s \in Subjects /\ \A t \in Nat : Twice(Stretch(attempts, s, t))
    BY DEF WindowsTrue
  <2>4. rate'[s] = new
    BY <1>4
  <2> HIDE DEF w, new
  <2>5. /\ s \in n.subjects /\ n.at \in Nat /\ n.limit \in Limits /\ n.verdict \in Verdicts
        /\ Loaded(attempts, s, w, n.at) /\ (n.verdict = "admitted" => w.accepted < n.limit)
    BY <1>0, <1>1, <1>7, <2>1, <2>2
  <2>6. Counts(w, new, n.at, n.verdict = "admitted")
    BY <1>1, <1>7, <2>1 DEF Counts
  <2>7. \E m \in Limits : w.accepted <= m
    BY <1>0, <2>1
  <2>8. Window(attempts \cup {n}, s, new)
    BY <1>0, <1>5, <1>6, <2>5, <2>6, <2>7, CountedWindow
  <2>9. \A t \in Nat : Twice(Stretch(attempts \cup {n}, s, t))
    BY <1>0, <1>5, <1>6, <2>3, <2>5, CountedStretch
  <2> QED
    BY <1>2, <2>4, <2>8, <2>9
<1>10. ASSUME NEW s \in Subjects, s \notin subjects
       PROVE  /\ s \in DOMAIN rate => Window(attempts', s, rate'[s])
              /\ s \notin DOMAIN rate => Gone(attempts', s, now')
              /\ \A t \in Nat : Twice(Stretch(attempts', s, t))
  <2>1. s \notin n.subjects
    BY <1>1, <1>10
  <2>2. /\ \A w : Window(attempts, s, w) => Window(attempts', s, w)
        /\ \A time : Gone(attempts, s, time) => Gone(attempts', s, time)
        /\ \A t : Stretch(attempts', s, t) = Stretch(attempts, s, t)
    BY <1>2, <2>1, OthersKeep, OthersStay
  <2> QED
    BY <1>4, <1>10, <2>2 DEF WindowsTrue
<1>11. DOMAIN rate' \subseteq Subjects
  BY <1>4 DEF TablesTyped
<1>12. \A s \in DOMAIN rate' : Window(attempts', s, rate'[s])
  BY <1>4, <1>9, <1>10, <1>11
<1>13. \A s \in Subjects : s \notin DOMAIN rate' => Gone(attempts', s, now')
  BY <1>4, <1>10
<1>14. \A s \in Subjects, t \in Nat : Twice(Stretch(attempts', s, t))
  BY <1>9, <1>10
<1> QED
  BY <1>8, <1>11, <1>12, <1>13, <1>14 DEF WindowsTrue

\* Attempts stay, windows stay or expire, and time goes on.
LEMMA QuietStep ==
    ASSUME WindowsTrue, attempts' = attempts, sequence \in Nat, sequence' \in Nat, sequence' >= sequence,
           now \in Nat, now' \in Nat, now' >= now,
           DOMAIN rate' \subseteq DOMAIN rate,
           \A s \in DOMAIN rate' : rate'[s] = rate[s],
           \A s \in DOMAIN rate : s \notin DOMAIN rate' => rate[s].expires < now
    PROVE  WindowsTrue'
<1>1. AttemptsSound(attempts', sequence')
  BY DEF WindowsTrue, AttemptsSound
<1>2. \A s : Gone(attempts, s, now) => Gone(attempts, s, now')
  BY PolicyAssumption DEF Gone
<1>3. ASSUME NEW s \in DOMAIN rate, s \notin DOMAIN rate' PROVE Gone(attempts, s, now)
  <2> DEFINE w == rate[s]
  <2>1. Window(attempts, s, w) /\ w.expires < now
    BY <1>3 DEF WindowsTrue
  <2> HIDE DEF w
  <2>2. /\ w.last \in Nat /\ w.started \in Nat /\ w.last >= w.started
        /\ w.expires = w.last + RetentionMs
        /\ \A a \in attempts : s \in a.subjects => a.at <= w.last
        /\ \A u \in Nat : u >= w.started => Within(From(attempts, s, "admitted", u))
    BY <2>1 DEF Window, WindowRow, Loaded
  <2>3. Within(From(attempts, s, "admitted", w.last))
    BY <2>2
  <2> QED
    BY <2>1, <2>2, <2>3 DEF Gone
<1>4. \A s \in Subjects : s \notin DOMAIN rate' => Gone(attempts', s, now')
  BY <1>2, <1>3 DEF WindowsTrue
<1>5. \A s \in DOMAIN rate' : Window(attempts', s, rate'[s])
  BY DEF WindowsTrue
<1>6. \A s \in Subjects, t \in Nat : Twice(Stretch(attempts', s, t))
  BY DEF WindowsTrue
<1> QED
  BY <1>1, <1>4, <1>5, <1>6 DEF WindowsTrue

-----------------------------------------------------------------------------
(* The audit records.                                                      *)

LEMMA RecordStep ==
    ASSUME TablesTyped, RefusalsAreAdmissions, NEW records, NEW record,
           DOMAIN records \subseteq DOMAIN audit,
           \A n \in DOMAIN records : records[n] = audit[n],
           record_audit(records, record),
           record.outcome = "rate_limited" =>
               /\ record.kind = "connection_admission"
               /\ \A q \in DOMAIN connections' : record.correlation # RequestCorrelation(q),
           \A q \in DOMAIN connections' : q \notin DOMAIN connections =>
               read_audit_by_id(RequestCorrelation(q), "connection_admission") = {}
    PROVE  /\ sequence' \in Nat /\ sequence' >= sequence /\ DOMAIN audit' \subseteq 1..sequence'
           /\ RefusalsAreAdmissions'
<1>1. sequence \in Nat /\ DOMAIN audit \subseteq 1..sequence /\ sequence' = sequence + 1
  BY DEF TablesTyped, record_audit
<1>2. /\ DOMAIN audit' = DOMAIN records \cup {sequence + 1}
      /\ audit'[sequence + 1] = record
      /\ \A n \in DOMAIN records : n # sequence + 1 => audit'[n] = audit[n]
  BY DEF record_audit
<1>3. \A n \in DOMAIN records : n \in DOMAIN audit /\ n # sequence + 1
  BY <1>1
<1>4. \A q : read_audit_by_id(RequestCorrelation(q), "connection_admission") = {} =>
          \A n \in DOMAIN audit : audit[n].kind = "connection_admission" =>
              audit[n].correlation # RequestCorrelation(q)
  BY DEF read_audit_by_id
<1>5. RefusalsAreAdmissions'
  <2> SUFFICES ASSUME NEW n \in DOMAIN audit', audit'[n].outcome = "rate_limited"
               PROVE  /\ audit'[n].kind = "connection_admission"
                      /\ \A q \in DOMAIN connections' : audit'[n].correlation # RequestCorrelation(q)
    BY DEF RefusalsAreAdmissions, RequestCorrelation
  <2>1. CASE n = sequence + 1
    BY <1>2, <2>1
  <2>2. CASE n \in DOMAIN records
    <3>1. n \in DOMAIN audit /\ audit'[n] = audit[n]
      BY <1>2, <1>3, <2>2
    <3>2. /\ audit[n].kind = "connection_admission"
          /\ \A q \in DOMAIN connections : audit[n].correlation # RequestCorrelation(q)
      BY <3>1 DEF RefusalsAreAdmissions
    <3> QED
      BY <1>4, <3>1, <3>2
  <2> QED
    BY <1>2, <2>1, <2>2
<1> QED
  BY <1>1, <1>2, <1>5

-----------------------------------------------------------------------------
(* The steps.                                                              *)

\* What a verdict of the governance says.
LEMMA VerdictFacts ==
    ASSUME NEW q, NEW kind, NEW subjects, NEW at, Verdict(q, kind, subjects, at) \in {"admitted", "refused"}
    PROVE  /\ read_audit_by_id(RequestCorrelation(q), kind) = {}
           /\ \A s \in subjects : ~Unreadable(s, at)
           /\ Verdict(q, kind, subjects, at) = "admitted" => can_accept(subjects, at)
BY DEF Verdict

LEMMA SubjectsKnown ==
    /\ \A q \in Connects : AdmissionSubjects(q) \in SUBSET Subjects
    /\ \A q \in Challenges : \A kind \in {"challenge_creation", "challenge_authorization"} :
          ChallengeSubjects(kind, q) \in SUBSET Subjects
BY DEF Subjects

LEMMA CorrelationsDiffer ==
    \A q, r : RequestCorrelation(q) = RequestCorrelation(r) => q = r
BY DEF RequestCorrelation

LEMMA AdmitStep ==
    ASSUME GovernanceInv, NEW at \in Observed, NEW q \in Connects, AdmitConnection(q, at)
    PROVE  GovernanceInv'
<1> DEFINE subjects == AdmissionSubjects(q)
           verdict == Verdict(q, "connection_admission", subjects, at)
           admitted == verdict = "admitted"
           record == Record(RequestCorrelation(q), "connection_admission",
                            IF admitted THEN "succeeded" ELSE "rate_limited", at)
<1>1. /\ q \notin DOMAIN connections
      /\ verdict \in {"admitted", "refused"}
      /\ govern_rate_attempt(q, "connection_admission", subjects, at, admitted)
      /\ now' = now /\ limit' = limit /\ challenges' = challenges
  BY DEF AdmitConnection
<1>2. DOMAIN connections' = IF admitted THEN DOMAIN connections \cup {q} ELSE DOMAIN connections
  BY DEF AdmitConnection
<1>3. /\ read_audit_by_id(RequestCorrelation(q), "connection_admission") = {}
      /\ \A s \in subjects : ~Unreadable(s, at)
      /\ admitted => can_accept(subjects, at)
  BY <1>1, VerdictFacts
<1>4. subjects \in SUBSET Subjects /\ admitted \in BOOLEAN
  BY SubjectsKnown
<1>5. record_audit(audit, record)
  BY <1>1 DEF govern_rate_attempt
<1>6. /\ record.outcome = "rate_limited" <=> ~admitted
      /\ record.kind = "connection_admission" /\ record.correlation = RequestCorrelation(q)
  BY DEF Record
<1> HIDE DEF admitted, verdict, subjects, record
<1>7. WindowsTrue' /\ DOMAIN rate' \subseteq Subjects
  BY <1>1, <1>3, <1>4, GovernStep DEF GovernanceInv
<1>8. /\ sequence' \in Nat /\ sequence' >= sequence /\ DOMAIN audit' \subseteq 1..sequence'
      /\ RefusalsAreAdmissions'
  <2>1. record.outcome = "rate_limited" =>
            /\ record.kind = "connection_admission"
            /\ \A r \in DOMAIN connections' : record.correlation # RequestCorrelation(r)
    BY <1>1, <1>2, <1>6, CorrelationsDiffer
  <2>2. \A r \in DOMAIN connections' : r \notin DOMAIN connections =>
            read_audit_by_id(RequestCorrelation(r), "connection_admission") = {}
    BY <1>2, <1>3
  <2> QED
    BY <1>5, <2>1, <2>2, RecordStep DEF GovernanceInv
<1>9. TablesTyped'
  BY <1>1, <1>2, <1>7, <1>8 DEF GovernanceInv, TablesTyped
<1> QED
  BY <1>7, <1>8, <1>9 DEF GovernanceInv

LEMMA ChallengeInv ==
    ASSUME GovernanceInv, NEW at \in Observed, NEW q \in Challenges,
           NEW kind \in {"challenge_creation", "challenge_authorization"},
           NEW to \in {"none", "pending", "resolved"}, ChallengeStep(q, kind, at, to)
    PROVE  GovernanceInv'
<1> DEFINE subjects == ChallengeSubjects(kind, q)
           record == Record(RequestCorrelation(q), kind, "succeeded", at)
<1>1. /\ Verdict(q, kind, subjects, at) = "admitted"
      /\ govern_rate_attempt(q, kind, subjects, at, TRUE)
      /\ now' = now /\ limit' = limit /\ connections' = connections
      /\ challenges' = [challenges EXCEPT ![q] = to]
  BY DEF ChallengeStep
<1>2. (\A s \in subjects : ~Unreadable(s, at)) /\ can_accept(subjects, at)
  BY <1>1, VerdictFacts
<1>3. subjects \in SUBSET Subjects
  BY SubjectsKnown
<1>4. record_audit(audit, record)
  BY <1>1 DEF govern_rate_attempt
<1>5. record.outcome # "rate_limited"
  BY DEF Record
<1> HIDE DEF subjects, record
<1>6. WindowsTrue' /\ DOMAIN rate' \subseteq Subjects
  BY <1>1, <1>2, <1>3, GovernStep DEF GovernanceInv
<1>7. /\ sequence' \in Nat /\ sequence' >= sequence /\ DOMAIN audit' \subseteq 1..sequence'
      /\ RefusalsAreAdmissions'
  BY <1>1, <1>4, <1>5, RecordStep DEF GovernanceInv
<1>8. TablesTyped'
  BY <1>1, <1>6, <1>7 DEF GovernanceInv, TablesTyped
<1> QED
  BY <1>6, <1>7, <1>8 DEF GovernanceInv

LEMMA MutationStep ==
    ASSUME GovernanceInv, NEW at \in Observed, NEW c \in Connects, ConnectionMutation(c, at)
    PROVE  GovernanceInv'
<1> DEFINE record == Record(<<c, connections[c].status>>, "connection_operator_decision", "succeeded", at)
<1>1. /\ record_audit(audit, record) /\ DOMAIN connections' = DOMAIN connections
      /\ now' = now /\ limit' = limit /\ rate' = rate /\ challenges' = challenges
      /\ attempts' = attempts
  BY DEF ConnectionMutation
<1>2. record.outcome # "rate_limited"
  BY DEF Record
<1> HIDE DEF record
<1>3. now \in Nat /\ now' >= now /\ sequence \in Nat
  BY <1>1, PolicyAssumption DEF GovernanceInv, TablesTyped
<1>4. /\ sequence' \in Nat /\ sequence' >= sequence /\ DOMAIN audit' \subseteq 1..sequence'
      /\ RefusalsAreAdmissions'
  BY <1>1, <1>2, RecordStep DEF GovernanceInv
<1>5. WindowsTrue'
  BY <1>1, <1>3, <1>4, QuietStep DEF GovernanceInv
<1>6. TablesTyped'
  BY <1>1, <1>4 DEF GovernanceInv, TablesTyped
<1> QED
  BY <1>4, <1>5, <1>6 DEF GovernanceInv

LEMMA CompactionStep ==
    ASSUME GovernanceInv, NEW at \in Observed, compact_governance(at)
    PROVE  GovernanceInv'
<1> DEFINE records == [n \in DOMAIN audit \ OldestRecords(at) |-> audit[n]]
           record == Record(<<used.compactions, "compaction">>, "governance_compaction", "succeeded", at)
<1>0. PICK gone \in OldestWindows(at) : rate' = [s \in DOMAIN rate \ gone |-> rate[s]]
  BY DEF compact_governance
<1>1. /\ record_audit(records, record) /\ connections' = connections
      /\ now' = now /\ limit' = limit /\ challenges' = challenges /\ attempts' = attempts
  BY DEF compact_governance
<1>2. record.outcome # "rate_limited"
  BY DEF Record
<1>3. DOMAIN records \subseteq DOMAIN audit /\ \A n \in DOMAIN records : records[n] = audit[n]
  OBVIOUS
<1> HIDE DEF record, records
<1>4. now \in Nat /\ now' >= now /\ sequence \in Nat /\ at \in Nat /\ at <= now
  BY <1>1, PolicyAssumption DEF GovernanceInv, TablesTyped, Observed
<1>5. /\ sequence' \in Nat /\ sequence' >= sequence /\ DOMAIN audit' \subseteq 1..sequence'
      /\ RefusalsAreAdmissions'
  BY <1>1, <1>2, <1>3, RecordStep DEF GovernanceInv
<1>6. /\ DOMAIN rate' \subseteq DOMAIN rate /\ \A s \in DOMAIN rate' : rate'[s] = rate[s]
      /\ \A s \in DOMAIN rate : s \notin DOMAIN rate' => s \in gone
  BY <1>0
<1>7. ASSUME NEW s \in DOMAIN rate, s \notin DOMAIN rate' PROVE rate[s].expires < now
  <2>1. s \in gone
    BY <1>6, <1>7
  <2>2. s \in DOMAIN rate /\ rate[s].expires < at
    BY <2>1 DEF OldestWindows, expired_windows
  <2>3. rate[s].expires \in Nat
    BY DEF GovernanceInv, WindowsTrue, Window, WindowRow
  <2> QED
    BY <1>4, <2>2, <2>3
<1>8. WindowsTrue'
  BY <1>1, <1>4, <1>5, <1>6, <1>7, QuietStep DEF GovernanceInv
<1>9. TablesTyped'
  BY <1>1, <1>5, <1>6 DEF GovernanceInv, TablesTyped
<1> QED
  BY <1>5, <1>8, <1>9 DEF GovernanceInv

LEMMA InvariantHolds == Spec => []GovernanceInv
<1>1. Init => GovernanceInv
  <2> SUFFICES ASSUME Init PROVE GovernanceInv
    OBVIOUS
  <2>1. DOMAIN rate = {} /\ DOMAIN audit = {} /\ DOMAIN connections = {} /\ attempts = {}
    BY DEF Init
  <2>2. TablesTyped
    BY <2>1, PolicyAssumption DEF Init, TablesTyped
  <2>3. RefusalsAreAdmissions
    BY <2>1 DEF RefusalsAreAdmissions
  <2>4. \A s, t : Stretch(attempts, s, t) = {}
    BY <2>1 DEF Stretch
  <2>5. AttemptsSound(attempts, sequence)
    BY <2>1, FS_EmptySet DEF AttemptsSound
  <2>6. \A s, t : Twice(Stretch(attempts, s, t))
    BY <2>4, EmptyWithin
  <2>7. \A s : Gone(attempts, s, now)
    BY <2>1 DEF Gone
  <2>8. WindowsTrue
    BY <2>1, <2>5, <2>6, <2>7 DEF WindowsTrue
  <2> QED
    BY <2>2, <2>3, <2>8 DEF GovernanceInv
<1>2. GovernanceInv /\ [Next]_vars => GovernanceInv'
  <2> SUFFICES ASSUME GovernanceInv, [Next]_vars PROVE GovernanceInv'
    OBVIOUS
  <2>0. now \in Nat /\ sequence \in Nat
    BY PolicyAssumption DEF GovernanceInv, TablesTyped
  <2>a. ASSUME /\ rate' = rate /\ audit' = audit /\ sequence' = sequence /\ connections' = connections
               /\ challenges' = challenges /\ attempts' = attempts,
               now' \in 1..MaxTime, now' >= now, limit' \in Limits
        PROVE  GovernanceInv'
    <3>1. now' \in Nat
      BY <2>a, PolicyAssumption
    <3>2. WindowsTrue'
      BY <2>0, <2>a, <3>1, QuietStep DEF GovernanceInv
    <3>3. RefusalsAreAdmissions'
      BY <2>a DEF GovernanceInv, RefusalsAreAdmissions, RequestCorrelation
    <3>4. TablesTyped'
      BY <2>a DEF GovernanceInv, TablesTyped
    <3> QED
      BY <3>2, <3>3, <3>4 DEF GovernanceInv
  <2>b. now' = now => now' \in 1..MaxTime /\ now' >= now
    BY <2>0 DEF GovernanceInv, TablesTyped
  <2>c. limit' = limit => limit' \in Limits
    BY DEF GovernanceInv, TablesTyped
  <2>1. CASE Tick
    <3>1. now' \in 1..MaxTime /\ now' >= now
      BY <2>0, <2>1, PolicyAssumption DEF Tick
    <3> QED
      BY <2>1, <2>a, <2>c, <3>1 DEF Tick
  <2>2. CASE Reconfigure
    BY <2>2, <2>a, <2>b DEF Reconfigure
  <2>3. CASE audit_events
    BY <2>3, <2>a, <2>b, <2>c DEF audit_events
  <2>4. CASE connections_pages
    BY <2>4, <2>a, <2>b, <2>c DEF connections_pages
  <2>5. ASSUME NEW at \in Observed, Operation(at) PROVE GovernanceInv'
    <3>1. ASSUME NEW q \in Challenges, ChallengeRequire(q, at) PROVE GovernanceInv'
      BY <3>1, ChallengeInv DEF ChallengeRequire
    <3>2. ASSUME NEW q \in Challenges, ChallengeAuthorize(q, at) PROVE GovernanceInv'
      BY <3>2, ChallengeInv DEF ChallengeAuthorize
    <3> QED
      BY <2>5, <3>1, <3>2, AdmitStep, MutationStep, CompactionStep DEF Operation
  <2>6. CASE UNCHANGED vars
    BY <2>6, <2>a, <2>b, <2>c DEF vars
  <2> QED
    BY <2>1, <2>2, <2>3, <2>4, <2>5, <2>6 DEF Next
<1> QED
  BY <1>1, <1>2, PTL DEF Spec

(***************************************************************************)
(* The rate limit of every subject is kept, for any policy with a          *)
(* retention that covers a window and the delay of an attempt, any number  *)
(* of requests, compactions and changes of the limit: no stretch as long   *)
(* as a window sees more than twice a limit admitted, the counts of a      *)
(* window are the attempts committed in it, and a refusal stands while its *)
(* record is retained (govern_rate_attempt, load_rate_state,               *)
(* compact_governance_evidence).                                           *)
(***************************************************************************)
THEOREM WindowsSoundCorrect == Spec => []WindowsSound
<1> SUFFICES ASSUME GovernanceInv PROVE WindowsSound
  BY InvariantHolds, PTL
<1>1. /\ \A s \in DOMAIN rate : Window(attempts, s, rate[s])
      /\ \A a \in attempts : a.at \in Nat
      /\ \A s \in Subjects, t \in Nat : Twice(Stretch(attempts, s, t))
  BY DEF GovernanceInv, WindowsTrue, AttemptsSound
<1>2. TypeOK
  <2>1. ASSUME NEW s \in DOMAIN rate
        PROVE  /\ rate[s].started <= rate[s].last /\ rate[s].last <= rate[s].ends
               /\ rate[s].last <= rate[s].expires
               /\ rate[s].accepted \in Nat /\ rate[s].rejected \in Nat
               /\ \E most \in Limits : rate[s].accepted <= most
    <3>1. Window(attempts, s, rate[s])
      BY <1>1
    <3> QED
      BY <3>1, PolicyAssumption DEF Window, WindowRow, Loaded
  <2> QED
    BY <2>1 DEF TypeOK, GovernanceInv, TablesTyped
<1>3. RateBounded
  <2> SUFFICES ASSUME NEW s \in Subjects, NEW t \in 1..MaxTime
               PROVE  LET passed == {a \in attempts : /\ a.verdict = "admitted" /\ s \in a.subjects
                                                       /\ a.at \in t..(t + WindowMs)}
                      IN passed # {} => \E a \in passed : Cardinality(passed) <= 2 * a.limit
    BY DEF RateBounded
  <2>1. t \in Nat
    BY PolicyAssumption
  <2>2. Stretch(attempts, s, t) = {a \in attempts : /\ a.verdict = "admitted" /\ s \in a.subjects
                                                     /\ a.at \in t..(t + WindowMs)}
    BY <1>1, <2>1, PolicyAssumption DEF Stretch
  <2>3. Twice(Stretch(attempts, s, t))
    BY <1>1, <2>1
  <2> QED
    BY <2>2, <2>3 DEF Twice
<1>4. CountsAreTrue
  <2> SUFFICES ASSUME NEW s \in DOMAIN rate
               PROVE  LET counted(verdict) == Cardinality({a \in attempts :
                              /\ a.verdict = verdict /\ s \in a.subjects
                              /\ a.at \in rate[s].started..rate[s].ends})
                      IN rate[s].accepted = counted("admitted") /\ rate[s].rejected = counted("refused")
    BY DEF CountsAreTrue
  <2> DEFINE w == rate[s]
  <2>1. /\ w.started \in Nat /\ w.ends \in Nat /\ w.last \in Nat /\ w.last <= w.ends
        /\ \A a \in attempts : s \in a.subjects => a.at <= w.last
        /\ w.accepted = Cardinality(From(attempts, s, "admitted", w.started))
        /\ w.rejected = Cardinality(From(attempts, s, "refused", w.started))
    BY <1>1 DEF Window, WindowRow, Loaded
  <2> HIDE DEF w
  <2>2. \A verdict : From(attempts, s, verdict, w.started) =
            {a \in attempts : /\ a.verdict = verdict /\ s \in a.subjects
                              /\ a.at \in w.started..w.ends}
    BY <1>1, <2>1 DEF From
  <2> QED
    BY <2>1, <2>2 DEF w
<1>5. RefusalStands
  BY DEF RefusalStands, GovernanceInv, RefusalsAreAdmissions
<1> QED
  BY <1>2, <1>3, <1>4, <1>5 DEF WindowsSound

-----------------------------------------------------------------------------
(* Rows in the order of a query.                                           *)

\* R orders the elements of S one behind the other.
Orders(S, R) ==
    /\ \A x \in S : <<x, x>> \notin R
    /\ \A x, y, z \in S : <<x, y>> \in R /\ <<y, z>> \in R => <<x, z>> \in R
    /\ \A x, y \in S : x = y \/ <<x, y>> \in R \/ <<y, x>> \in R

Preceding(S, R, x) == {y \in S : <<y, x>> \in R}

\* Counting what precedes an element numbers a finite set, without gaps.
LEMMA RanksAreNumbers ==
    ASSUME NEW S, IsFiniteSet(S), NEW R, Orders(S, R)
    PROVE  /\ Cardinality(S) \in Nat
           /\ \A x \in S : Cardinality(Preceding(S, R, x)) \in 0..(Cardinality(S) - 1)
           /\ \A x, y \in S : <<x, y>> \in R <=>
                 Cardinality(Preceding(S, R, x)) < Cardinality(Preceding(S, R, y))
           /\ \A i \in 1..Cardinality(S) : \E x \in S : Cardinality(Preceding(S, R, x)) = i - 1
<1> DEFINE N == Cardinality(S)
           below(x) == Preceding(S, R, x)
           rank == [x \in S |-> Cardinality(below(x)) + 1]
<1>1. N \in Nat
  BY FS_CardinalityType
<1>2. ASSUME NEW x \in S
      PROVE  /\ IsFiniteSet(below(x)) /\ Cardinality(below(x)) \in Nat
             /\ Cardinality(below(x)) < N
  <2>1. below(x) \subseteq S /\ x \notin below(x)
    BY DEF Preceding, Orders
  <2>2. below(x) # S
    BY <2>1
  <2> HIDE DEF below
  <2>3. IsFiniteSet(below(x)) /\ Cardinality(below(x)) <= N /\ Cardinality(below(x)) # N
    BY <2>1, <2>2, FS_Subset
  <2> QED
    BY <1>1, <2>3, FS_CardinalityType
<1>3. ASSUME NEW x \in S, NEW y \in S, <<x, y>> \in R
      PROVE  Cardinality(below(x)) < Cardinality(below(y))
  <2>1. below(x) \subseteq below(y) /\ x \in below(y) /\ x \notin below(x)
    BY <1>3 DEF Preceding, Orders
  <2>2. IsFiniteSet(below(y)) /\ Cardinality(below(y)) \in Nat /\ Cardinality(below(x)) \in Nat
    BY <1>2
  <2>3. below(x) # below(y)
    BY <2>1
  <2> HIDE DEF below
  <2>4. Cardinality(below(x)) <= Cardinality(below(y)) /\ Cardinality(below(x)) # Cardinality(below(y))
    BY <2>1, <2>2, <2>3, FS_Subset
  <2> QED
    BY <2>2, <2>4
<1>4. \A x, y \in S : <<x, y>> \in R <=> Cardinality(below(x)) < Cardinality(below(y))
  <2> SUFFICES ASSUME NEW x \in S, NEW y \in S
               PROVE  <<x, y>> \in R <=> Cardinality(below(x)) < Cardinality(below(y))
    OBVIOUS
  <2>1. x = y \/ <<x, y>> \in R \/ <<y, x>> \in R
    BY DEF Orders
  <2>2. Cardinality(below(x)) \in Nat /\ Cardinality(below(y)) \in Nat
    BY <1>2
  <2>3. <<x, y>> \in R => Cardinality(below(x)) < Cardinality(below(y))
    BY <1>3
  <2>4. <<y, x>> \in R => Cardinality(below(y)) < Cardinality(below(x))
    BY <1>3
  <2> HIDE DEF below
  <2> QED
    BY <2>1, <2>2, <2>3, <2>4
<1>5. rank \in Injection(S, 1..N)
  <2> HIDE DEF below
  <2>1. rank \in [S -> 1..N]
    BY <1>1, <1>2
  <2>2. \A x, y \in S : rank[x] = rank[y] => x = y
    <3> SUFFICES ASSUME NEW x \in S, NEW y \in S, rank[x] = rank[y] PROVE x = y
      OBVIOUS
    <3>1. Cardinality(below(x)) = Cardinality(below(y))
      BY <1>2
    <3>2. <<x, y>> \notin R /\ <<y, x>> \notin R
      BY <1>2, <1>4, <3>1
    <3> QED
      BY <3>2 DEF Orders
  <2> QED
    BY <2>1, <2>2 DEF Injection, IsInjective
<1>6. rank \in Surjection(S, 1..N)
  <2>1. IsFiniteSet(1..N) /\ Cardinality(1..N) = N
    BY <1>1, FS_Interval
  <2> HIDE DEF rank
  <2> QED
    BY <1>5, <2>1, FS_Injection
<1>7. \A i \in 1..N : \E x \in S : Cardinality(below(x)) = i - 1
  <2> SUFFICES ASSUME NEW i \in 1..N PROVE \E x \in S : Cardinality(below(x)) = i - 1
    OBVIOUS
  <2>1. PICK x \in S : rank[x] = i
    BY <1>6 DEF Surjection
  <2> HIDE DEF below
  <2>2. Cardinality(below(x)) + 1 = i /\ Cardinality(below(x)) \in Nat
    BY <1>2, <2>1
  <2> QED
    BY <2>2
<1> QED
  BY <1>1, <1>2, <1>4, <1>7

\* The rows of a query are its set, each once and in order.
LEMMA InOrderSorts ==
    ASSUME NEW S, IsFiniteSet(S), NEW R, Orders(S, R)
    PROVE  LET rows == InOrder(S, R) IN
           /\ rows \in Seq(S) /\ Len(rows) = Cardinality(S) /\ Len(rows) \in Nat
           /\ \A x \in S : \E i \in 1..Len(rows) : rows[i] = x
           /\ \A i, j \in 1..Len(rows) : i < j <=> <<rows[i], rows[j]>> \in R
<1> DEFINE N == Cardinality(S)
           below(x) == Preceding(S, R, x)
           rows == InOrder(S, R)
<1>1. /\ N \in Nat
      /\ \A x \in S : Cardinality(below(x)) \in 0..(N - 1)
      /\ \A x, y \in S : <<x, y>> \in R <=> Cardinality(below(x)) < Cardinality(below(y))
      /\ \A i \in 1..N : \E x \in S : Cardinality(below(x)) = i - 1
  BY RanksAreNumbers
<1>2. rows = [i \in 1..N |-> CHOOSE x \in S : Cardinality(below(x)) = i - 1]
  BY DEF InOrder, Preceding
<1> HIDE DEF N, below, rows
<1>3. \A i \in 1..N : rows[i] \in S /\ Cardinality(below(rows[i])) = i - 1
  BY <1>1, <1>2
<1>4. rows \in Seq(S) /\ Len(rows) = N
  BY <1>1, <1>2, <1>3
<1>5. \A x \in S : \E i \in 1..N : rows[i] = x
  <2> SUFFICES ASSUME NEW x \in S PROVE \E i \in 1..N : rows[i] = x
    OBVIOUS
  <2> DEFINE i == Cardinality(below(x)) + 1
  <2>1. i \in 1..N /\ i - 1 = Cardinality(below(x))
    BY <1>1
  <2> HIDE DEF i
  <2>2. rows[i] \in S /\ Cardinality(below(rows[i])) = Cardinality(below(x))
    BY <1>3, <2>1
  <2>3. Cardinality(below(x)) \in Nat
    BY <1>1
  <2>4. <<x, rows[i]>> \notin R /\ <<rows[i], x>> \notin R
    BY <1>1, <2>2, <2>3
  <2>5. rows[i] = x
    BY <2>2, <2>4 DEF Orders
  <2> QED
    BY <2>1, <2>5
<1>6. \A i, j \in 1..N : i < j <=> <<rows[i], rows[j]>> \in R
  BY <1>1, <1>3
<1> QED
  BY <1>1, <1>4, <1>5, <1>6 DEF rows, N

\* One row behind the other, as R says.
Sorted(s, R) == \A i, j \in 1..Len(s) : i < j => <<s[i], s[j]>> \in R

\* A page holds the rows in order.  Either it holds all of them, or another
\* page follows, of the rows behind the last one it holds.
LEMMA PageTakes ==
    ASSUME NEW S, IsFiniteSet(S), NEW R, Orders(S, R)
    PROVE  LET rows == InOrder(S, R) IN
           \/ /\ ~(Len(rows) > PageLimit)
              /\ rows \in Seq(S) /\ Sorted(rows, R) /\ S \subseteq Range(rows)
           \/ /\ Len(rows) > PageLimit
              /\ next_cursor(rows) \in S
              /\ SubSeq(rows, 1, PageLimit) \in Seq(S) /\ Sorted(SubSeq(rows, 1, PageLimit), R)
              /\ \A x \in Range(SubSeq(rows, 1, PageLimit)) : <<next_cursor(rows), x>> \notin R
              /\ \A x \in S : \/ <<next_cursor(rows), x>> \in R
                              \/ x \in Range(SubSeq(rows, 1, PageLimit))
<1> DEFINE rows == InOrder(S, R)
           page == SubSeq(rows, 1, PageLimit)
           cursor == next_cursor(rows)
<1>1. /\ rows \in Seq(S) /\ Len(rows) \in Nat
      /\ \A x \in S : \E i \in 1..Len(rows) : rows[i] = x
      /\ \A i, j \in 1..Len(rows) : i < j <=> <<rows[i], rows[j]>> \in R
  BY InOrderSorts
<1> HIDE DEF rows
<1>2. CASE ~(Len(rows) > PageLimit)
  <2>1. DOMAIN rows = 1..Len(rows)
    BY <1>1
  <2>2. S \subseteq Range(rows)
    BY <1>1, <2>1 DEF Range
  <2> QED
    BY <1>1, <1>2, <2>2 DEF Sorted, rows
<1>3. CASE Len(rows) > PageLimit
  <2>1. PageLimit \in Nat /\ 1 <= PageLimit /\ PageLimit < Len(rows)
    BY <1>1, <1>3, PolicyAssumption
  <2>2. PageLimit \in 1..Len(rows) /\ \A i \in 1..PageLimit : i \in 1..Len(rows)
    BY <1>1, <2>1
  <2>3. cursor = rows[PageLimit] /\ cursor \in S
    BY <1>1, <2>2 DEF next_cursor
  <2>4. /\ page \in Seq(S) /\ Len(page) = PageLimit
        /\ \A i \in 1..PageLimit : page[i] = rows[i]
    BY <1>1, <2>1, <2>2
  <2>5. DOMAIN page = 1..PageLimit
    BY <2>1, <2>4
  <2> HIDE DEF page, cursor
  <2>6. Sorted(page, R)
    BY <1>1, <2>2, <2>4 DEF Sorted
  <2>7. ASSUME NEW x \in Range(page) PROVE <<cursor, x>> \notin R
    <3>1. PICK i \in 1..PageLimit : x = page[i]
      BY <2>5 DEF Range
    <3>2. i \in 1..Len(rows) /\ ~(PageLimit < i) /\ x = rows[i]
      BY <2>1, <2>2, <2>4, <3>1
    <3> QED
      BY <1>1, <2>2, <2>3, <3>2
  <2>8. ASSUME NEW x \in S PROVE <<cursor, x>> \in R \/ x \in Range(page)
    <3>1. PICK i \in 1..Len(rows) : rows[i] = x
      BY <1>1
    <3>2. CASE PageLimit < i
      BY <1>1, <2>2, <2>3, <3>1, <3>2
    <3>3. CASE ~(PageLimit < i)
      <4>1. i \in 1..PageLimit
        BY <1>1, <2>1, <3>3
      <4>2. page[i] = x
        BY <2>4, <3>1, <4>1
      <4> QED
        BY <2>5, <4>1, <4>2 DEF Range
    <3> QED
      BY <3>2, <3>3
  <2> QED
    BY <1>3, <2>3, <2>4, <2>6, <2>7, <2>8 DEF rows, page, cursor
<1> QED
  BY <1>2, <1>3 DEF rows

\* What was seen before a page and the page are in order together.
LEMMA SeenGrows ==
    ASSUME NEW T, NEW R, NEW seen \in Seq(T), NEW page \in Seq(T),
           Sorted(seen, R), Sorted(page, R),
           \A x \in Range(seen), y \in Range(page) : <<x, y>> \in R
    PROVE  /\ seen \o page \in Seq(T)
           /\ Range(seen \o page) = Range(seen) \cup Range(page)
           /\ Sorted(seen \o page, R)
<1> DEFINE both == seen \o page
           m == Len(seen)
           n == Len(page)
<1>1. /\ m \in Nat /\ n \in Nat /\ both \in Seq(T) /\ Len(both) = m + n
      /\ \A i \in 1..m : both[i] = seen[i]
      /\ \A i \in 1..n : both[m + i] = page[i]
  OBVIOUS
<1>2. /\ DOMAIN both = 1..(m + n) /\ DOMAIN seen = 1..m /\ DOMAIN page = 1..n
  BY <1>1
<1>0. /\ \A i, j \in 1..m : i < j => <<seen[i], seen[j]>> \in R
      /\ \A i, j \in 1..n : i < j => <<page[i], page[j]>> \in R
  BY DEF Sorted
<1> HIDE DEF both, m, n
<1>3. \A i \in 1..(m + n) : i \in 1..m \/ (i - m \in 1..n /\ i = m + (i - m))
  BY <1>1
<1>4. \A i \in 1..(m + n) : i \notin 1..m => both[i] = page[i - m] /\ i - m \in 1..n
  BY <1>1, <1>3
<1>5. Range(both) = Range(seen) \cup Range(page)
  <2>1. \A i \in 1..m : i \in 1..(m + n)
    BY <1>1
  <2>2. \A i \in 1..n : m + i \in 1..(m + n)
    BY <1>1
  <2>3. Range(both) \subseteq Range(seen) \cup Range(page)
    BY <1>1, <1>2, <1>4 DEF Range
  <2>4. Range(seen) \subseteq Range(both)
    BY <1>1, <1>2, <2>1 DEF Range
  <2>5. Range(page) \subseteq Range(both)
    BY <1>1, <1>2, <2>2 DEF Range
  <2> QED
    BY <2>3, <2>4, <2>5
<1>6. ASSUME NEW i \in 1..(m + n), NEW j \in 1..(m + n), i < j
      PROVE  <<both[i], both[j]>> \in R
  <2>1. CASE j \in 1..m
    <3>1. i \in 1..m
      BY <1>1, <1>6, <2>1
    <3> QED
      BY <1>0, <1>1, <1>6, <2>1, <3>1
  <2>2. CASE j \notin 1..m /\ i \in 1..m
    <3>1. both[i] \in Range(seen)
      BY <1>1, <1>2, <2>2 DEF Range
    <3>2. both[j] \in Range(page)
      BY <1>2, <1>4, <2>2 DEF Range
    <3> QED
      BY <3>1, <3>2
  <2>3. CASE j \notin 1..m /\ i \notin 1..m
    <3>1. /\ both[j] = page[j - m] /\ j - m \in 1..n
          /\ both[i] = page[i - m] /\ i - m \in 1..n
      BY <1>4, <2>3
    <3>2. i - m < j - m
      BY <1>1, <1>6
    <3> QED
      BY <1>0, <3>1, <3>2
  <2> QED
    BY <2>1, <2>2, <2>3
<1>7. Sorted(both, R)
  BY <1>1, <1>6 DEF Sorted
<1> QED
  BY <1>1, <1>5, <1>7 DEF both

-----------------------------------------------------------------------------
(* The readers of the pages.  Both are followed with their cursor as a     *)
(* parameter: a first page has none.                                       *)

Descending == {p \in Nat \X Nat : p[1] > p[2]}
Different == {p \in Nat \X Nat : p[1] # p[2]}

\* Rows that all differ are listed once.
LEMMA SortedOnce ==
    ASSUME NEW s \in Seq(Nat), Sorted(s, Different)
    PROVE  IsInjective(s)
<1>1. DOMAIN s = 1..Len(s) /\ Len(s) \in Nat
  OBVIOUS
<1>2. \A i, j \in DOMAIN s : i < j => s[i] # s[j]
  BY <1>1 DEF Sorted, Different
<1>3. \A i, j \in DOMAIN s : s[i] = s[j] => i = j
  BY <1>1, <1>2
<1> QED
  BY <1>3 DEF IsInjective

Matches(e) == {n \in DOMAIN audit : n <= e.snapshot /\ audit[n].kind \in e.kind}

\* What the audit reader saw is what it was asked for, down to its cursor.
AuditGoing(e, before) ==
    /\ DOMAIN e = {"phase", "snapshot", "before", "seen", "start", "kind"}
    /\ before \in Nat /\ e.snapshot \in Nat /\ e.snapshot <= sequence
    /\ Matches(e) \subseteq e.start
    /\ \A n \in e.start : n <= e.snapshot /\ (n \in DOMAIN audit => n \in Matches(e))
    /\ e.seen \in Seq(Nat) /\ Sorted(e.seen, Descending)
    /\ Range(e.seen) \subseteq {n \in e.start : n >= before}
    /\ \A n \in Matches(e) : n >= before => n \in Range(e.seen)

AuditReaderSound ==
    \/ events = Idle
    \/ events.phase = "open" /\ AuditGoing(events, events.before)
    \/ events.phase = "done" /\ AuditPagesComplete

Statuses == {"pending", "active", "denied", "expired"}

\* A connection never returns to a status it left.
Moved(from, to) ==
    \/ from = "pending" /\ to \in {"active", "denied", "expired"}
    \/ from = "active" /\ to = "expired"

ConnectionsTyped ==
    /\ IsFiniteSet(DOMAIN connections)
    /\ \A c \in DOMAIN connections : connections[c].status \in Statuses /\ connections[c].updated \in Nat

Unchanged(l) == {c \in DOMAIN l.start : connections[c] = l.start[c] /\ connections[c].updated <= l.snapshot}

\* The reader of the connections saw what stands before its cursor and did
\* not change; what changed stands before the cursor too, or was never seen.
ListingGoing(l, before) ==
    /\ DOMAIN l = {"phase", "snapshot", "before", "seen", "start"}
    /\ before.id \in Nat /\ before.updated \in Nat /\ l.snapshot \in Nat
    /\ \A c \in DOMAIN l.start :
          /\ c \in DOMAIN connections
          /\ connections[c] = l.start[c] \/ Moved(l.start[c].status, connections[c].status)
    /\ l.seen \in Seq(Nat) /\ Sorted(l.seen, Different)
    /\ \A c \in Range(l.seen) : c \in DOMAIN connections /\ ~Behind(c, before)
    /\ \A c \in Unchanged(l) : Behind(c, before) \/ c \in Range(l.seen)

ListingReaderSound ==
    \/ listing = Idle
    \/ listing.phase = "open" /\ ListingGoing(listing, listing.before)
    \/ listing.phase = "done" /\ UnchangedConnectionsListed

PagesInv == ConnectionsTyped /\ AuditReaderSound /\ ListingReaderSound

\* The ways a page can go on.
LEMMA PagedCases ==
    ASSUME NEW reader, NEW rows
    PROVE  /\ Len(rows) > PageLimit =>
                 Paged(reader, rows) = [reader EXCEPT !.seen = @ \o SubSeq(rows, 1, PageLimit),
                                                      !.before = next_cursor(rows)]
           /\ ~(Len(rows) > PageLimit) =>
                 Paged(reader, rows) = [reader EXCEPT !.seen = @ \o rows, !.phase = "done"]
BY DEF Paged

\* A page of audit records.
LEMMA AuditPage ==
    ASSUME TablesTyped, NEW e, NEW before, e.phase = "open", AuditGoing(e, before),
           audit' = audit, sequence' = sequence,
           events' = Paged(e, AuditRows(e.kind, e.snapshot, before))
    PROVE  AuditReaderSound'
<1> DEFINE S == {n \in DOMAIN audit : n <= e.snapshot /\ n < before /\ audit[n].kind \in e.kind}
           R == {p \in S \X S : p[1] > p[2]}
           rows == InOrder(S, R)
<1>1. /\ DOMAIN e = {"phase", "snapshot", "before", "seen", "start", "kind"}
      /\ before \in Nat /\ e.snapshot \in Nat /\ e.snapshot <= sequence
      /\ Matches(e) \subseteq e.start
      /\ \A n \in e.start : n <= e.snapshot /\ (n \in DOMAIN audit => n \in Matches(e))
      /\ e.seen \in Seq(Nat) /\ Sorted(e.seen, Descending)
      /\ Range(e.seen) \subseteq {n \in e.start : n >= before}
      /\ \A n \in Matches(e) : n >= before => n \in Range(e.seen)
  BY DEF AuditGoing
<1>2. sequence \in Nat /\ \A n \in DOMAIN audit : n \in Nat /\ n \in 1..sequence
  BY DEF TablesTyped
<1>3. IsFiniteSet(S)
  <2>1. IsFiniteSet(1..sequence) /\ S \subseteq 1..sequence
    BY <1>2, FS_Interval
  <2> QED
    BY <2>1, FS_Subset
<1>4. S = {n \in Matches(e) : n < before} /\ \A n \in S : n \in Nat
  BY <1>2 DEF Matches
<1>5. \A x, y : <<x, y>> \in R <=> x \in S /\ y \in S /\ x > y
  OBVIOUS
<1> HIDE DEF S, R
<1>6. Orders(S, R)
  BY <1>4, <1>5 DEF Orders
<1>7. events' = Paged(e, rows)
  BY DEF AuditRows, S, R
<1> HIDE DEF rows
<1>8. ASSUME NEW page \in Seq(S), Sorted(page, R)
      PROVE  /\ e.seen \o page \in Seq(Nat) /\ Sorted(e.seen \o page, Descending)
             /\ Range(e.seen \o page) = Range(e.seen) \cup Range(page)
             /\ Range(page) \subseteq S
  <2>1. page \in Seq(Nat)
    BY <1>4
  <2>2. Range(page) \subseteq S
    BY DEF Range
  <2>3. Sorted(page, Descending)
    <3>1. R \subseteq Descending
      BY <1>4, <1>5 DEF Descending, R
    <3> QED
      BY <1>8, <3>1 DEF Sorted
  <2>4. \A x \in Range(e.seen) : x \in Nat
    BY <1>1 DEF Range
  <2>5. \A x \in Range(e.seen), y \in Range(page) : <<x, y>> \in Descending
    BY <1>1, <1>4, <2>2, <2>4 DEF Descending
  <2> QED
    BY <1>1, <2>1, <2>2, <2>3, <2>5, SeenGrows
<1>9. CASE Len(rows) > PageLimit
  <2> DEFINE page == SubSeq(rows, 1, PageLimit)
             cursor == next_cursor(rows)
  <2>1. /\ cursor \in S /\ page \in Seq(S) /\ Sorted(page, R)
        /\ \A x \in Range(page) : <<cursor, x>> \notin R
        /\ \A x \in S : <<cursor, x>> \in R \/ x \in Range(page)
    BY <1>3, <1>6, <1>9, PageTakes DEF rows
  <2>2. events' = [e EXCEPT !.seen = @ \o page, !.before = cursor]
    BY <1>7, <1>9, PagedCases
  <2> HIDE DEF page, cursor
  <2>3. /\ DOMAIN events' = DOMAIN e /\ events'.phase = "open" /\ events'.snapshot = e.snapshot
        /\ events'.before = cursor /\ events'.seen = e.seen \o page
        /\ events'.start = e.start /\ events'.kind = e.kind
    BY <1>1, <2>2
  <2>4. Matches(e)' = Matches(e) /\ Matches(events)' = Matches(e)
    BY <2>3 DEF Matches
  <2>5. /\ e.seen \o page \in Seq(Nat) /\ Sorted(e.seen \o page, Descending)
        /\ Range(e.seen \o page) = Range(e.seen) \cup Range(page) /\ Range(page) \subseteq S
    BY <1>8, <2>1
  <2>6. cursor \in Nat /\ cursor < before
    BY <1>4, <2>1
  <2>7. Range(e.seen \o page) \subseteq {n \in e.start : n >= cursor}
    <3>1. \A n \in Range(e.seen) : n \in e.start /\ n \in Nat /\ n >= cursor
      <4>1. \A n \in Range(e.seen) : n \in Nat
        BY <1>1 DEF Range
      <4> QED
        BY <1>1, <2>6, <4>1
    <3>2. ASSUME NEW n \in Range(page) PROVE n \in e.start /\ n >= cursor
      <4>1. n \in S /\ n \in Nat /\ n \in e.start
        BY <1>1, <1>4, <2>5
      <4>2. ~(cursor > n)
        BY <1>5, <2>1, <4>1
      <4> QED
        BY <2>6, <4>1, <4>2
    <3> QED
      BY <2>5, <3>1, <3>2
  <2>8. \A n \in Matches(e) : n >= cursor => n \in Range(e.seen \o page)
    <3> SUFFICES ASSUME NEW n \in Matches(e), n >= cursor, ~(n \in Range(e.seen)) PROVE n \in Range(page)
      BY <2>5
    <3>1. n \in Nat /\ n < before
      BY <1>1, <1>2 DEF Matches
    <3>2. n \in S
      BY <1>4, <3>1
    <3>3. <<cursor, n>> \notin R
      BY <1>5, <2>6, <3>1
    <3> QED
      BY <2>1, <3>2, <3>3
  <2>9. AuditGoing(events, events.before)'
    BY <1>1, <2>3, <2>4, <2>5, <2>6, <2>7, <2>8 DEF AuditGoing
  <2> QED
    BY <2>3, <2>9 DEF AuditReaderSound
<1>10. CASE ~(Len(rows) > PageLimit)
  <2>1. rows \in Seq(S) /\ Sorted(rows, R) /\ S \subseteq Range(rows)
    BY <1>3, <1>6, <1>10, PageTakes DEF rows
  <2>2. events' = [e EXCEPT !.seen = @ \o rows, !.phase = "done"]
    BY <1>7, <1>10, PagedCases
  <2>3. events'.phase = "done" /\ events'.seen = e.seen \o rows /\ events'.start = e.start
    BY <1>1, <2>2
  <2>4. /\ e.seen \o rows \in Seq(Nat) /\ Sorted(e.seen \o rows, Descending)
        /\ Range(e.seen \o rows) = Range(e.seen) \cup Range(rows) /\ Range(rows) \subseteq S
    BY <1>8, <2>1
  <2>5. e.start \cap DOMAIN audit \subseteq Range(e.seen \o rows)
    <3> SUFFICES ASSUME NEW n \in e.start, n \in DOMAIN audit, ~(n \in Range(e.seen)) PROVE n \in Range(rows)
      BY <2>4
    <3>1. n \in Matches(e) /\ n \in Nat /\ n < before
      BY <1>1, <1>2
    <3> QED
      BY <1>4, <2>1, <3>1
  <2>6. Range(e.seen \o rows) \subseteq e.start
    BY <1>1, <1>4, <2>4
  <2>7. \A i, j \in 1..Len(e.seen \o rows) : i < j => (e.seen \o rows)[i] > (e.seen \o rows)[j]
    BY <2>4 DEF Sorted, Descending
  <2>8. AuditPagesComplete'
    BY <2>3, <2>5, <2>6, <2>7 DEF AuditPagesComplete
  <2> QED
    BY <2>3, <2>8 DEF AuditReaderSound
<1> QED
  BY <1>9, <1>10

\* The first page finds the reader with nothing seen and everything ahead.
LEMMA AuditPageStep ==
    ASSUME TablesTyped, AuditReaderSound, audit_events
    PROVE  AuditReaderSound'
<1>1. audit' = audit /\ sequence' = sequence
  BY DEF audit_events
<1>2. ASSUME NEW kind \in Queries, AuditFirstPage(kind) PROVE AuditReaderSound'
  <2> DEFINE e == [phase |-> "open", snapshot |-> sequence, before |-> sequence + 1, seen |-> <<>>,
                   start |-> {n \in DOMAIN audit : audit[n].kind \in kind}, kind |-> kind]
  <2>1. events' = Paged(e, AuditRows(kind, sequence, sequence + 1))
    BY <1>2 DEF AuditFirstPage
  <2>2. /\ DOMAIN e = {"phase", "snapshot", "before", "seen", "start", "kind"}
        /\ e.phase = "open" /\ e.snapshot = sequence /\ e.seen = <<>> /\ e.kind = kind
        /\ e.start = {n \in DOMAIN audit : audit[n].kind \in kind}
    OBVIOUS
  <2> HIDE DEF e
  <2>3. sequence \in Nat /\ \A n \in DOMAIN audit : n \in Nat /\ n <= sequence
    BY DEF TablesTyped
  <2>4. Matches(e) = e.start
    BY <2>2, <2>3 DEF Matches
  <2>5. e.seen \in Seq(Nat) /\ Sorted(e.seen, Descending) /\ Range(e.seen) = {}
    BY <2>2 DEF Sorted, Range
  <2>6. \A n \in e.start : n \in Nat /\ n <= sequence /\ ~(n >= sequence + 1)
    BY <2>2, <2>3
  <2>7. AuditGoing(e, sequence + 1)
    BY <2>2, <2>3, <2>4, <2>5, <2>6 DEF AuditGoing
  <2> QED
    BY <1>1, <2>1, <2>2, <2>7, AuditPage
<1>3. ASSUME AuditNextPage PROVE AuditReaderSound'
  <2>1. events.phase = "open"
    BY <1>3 DEF AuditNextPage
  <2>2. AuditGoing(events, events.before)
    BY <2>1 DEF AuditReaderSound, Idle
  <2> QED
    BY <1>1, <1>3, <2>1, <2>2, AuditPage DEF AuditNextPage
<1> QED
  BY <1>2, <1>3 DEF audit_events

\* A page of connections.  The cursor is the last row of the page, with the
\* time it has when the page is read.
LEMMA ListingPage ==
    ASSUME TablesTyped, ConnectionsTyped, NEW l, NEW before, l.phase = "open", ListingGoing(l, before),
           connections' = connections,
           listing' = ConnectionPaged(l, ConnectionRows(l.snapshot, before))
    PROVE  ListingReaderSound'
<1> DEFINE S == {c \in DOMAIN connections : connections[c].updated <= l.snapshot /\ Behind(c, before)}
           R == {p \in S \X S : Later(p[1], p[2])}
           rows == InOrder(S, R)
           time(c) == connections[c].updated
<1>1. /\ DOMAIN l = {"phase", "snapshot", "before", "seen", "start"}
      /\ before.id \in Nat /\ before.updated \in Nat /\ l.snapshot \in Nat
      /\ \A c \in DOMAIN l.start :
            /\ c \in DOMAIN connections
            /\ connections[c] = l.start[c] \/ Moved(l.start[c].status, connections[c].status)
      /\ l.seen \in Seq(Nat) /\ Sorted(l.seen, Different)
      /\ \A c \in Range(l.seen) : c \in DOMAIN connections /\ ~Behind(c, before)
      /\ \A c \in Unchanged(l) : Behind(c, before) \/ c \in Range(l.seen)
  BY DEF ListingGoing
<1>2. \A c \in DOMAIN connections : c \in Nat /\ time(c) \in Nat
  BY IdentityAssumption DEF TablesTyped, ConnectionsTyped
<1>3. IsFiniteSet(S)
  BY FS_Subset DEF ConnectionsTyped
<1>4. /\ \A c : c \in S <=> c \in DOMAIN connections /\ time(c) <= l.snapshot /\ Behind(c, before)
      /\ \A c \in S : c \in Nat /\ time(c) \in Nat
  BY <1>2
<1>5. \A x, y : <<x, y>> \in R <=> /\ x \in S /\ y \in S
                                   /\ time(x) > time(y) \/ (time(x) = time(y) /\ x < y)
  BY DEF Later
<1>6. \A c, b : Behind(c, b) <=> time(c) < b.updated \/ (time(c) = b.updated /\ c > b.id)
  BY DEF Behind
<1>7. listing' = ConnectionPaged(l, rows)
  BY DEF ConnectionRows
<1> HIDE DEF S, R, rows, time
<1>8. Orders(S, R)
  BY <1>4, <1>5 DEF Orders
<1>9. ASSUME NEW page \in Seq(S), Sorted(page, R)
      PROVE  /\ l.seen \o page \in Seq(Nat) /\ Sorted(l.seen \o page, Different)
             /\ Range(l.seen \o page) = Range(l.seen) \cup Range(page)
             /\ Range(page) \subseteq S
  <2>1. page \in Seq(Nat)
    BY <1>4
  <2>2. Range(page) \subseteq S
    BY DEF Range
  <2>3. Sorted(page, Different)
    <3>1. \A x, y : <<x, y>> \in R => <<x, y>> \in Different
      BY <1>4, <1>5 DEF Different
    <3> QED
      BY <1>9, <3>1 DEF Sorted
  <2>4. \A x \in Range(l.seen) : x \in Nat
    BY <1>1 DEF Range
  <2>5. \A x \in Range(l.seen), y \in Range(page) : x # y
    BY <1>1, <1>4, <2>2
  <2>6. \A x \in Range(l.seen), y \in Range(page) : <<x, y>> \in Different
    BY <1>4, <2>2, <2>4, <2>5 DEF Different
  <2> QED
    BY <1>1, <2>1, <2>2, <2>3, <2>6, SeenGrows
<1>10. CASE Len(rows) > PageLimit
  <2> DEFINE page == SubSeq(rows, 1, PageLimit)
             k == next_cursor(rows)
             b == [id |-> k, updated |-> connections[k].updated]
  <2>1. /\ k \in S /\ page \in Seq(S) /\ Sorted(page, R)
        /\ \A x \in Range(page) : <<k, x>> \notin R
        /\ \A x \in S : <<k, x>> \in R \/ x \in Range(page)
    BY <1>3, <1>8, <1>10, PageTakes DEF rows
  <2>2. Paged(l, rows) = [l EXCEPT !.seen = @ \o page, !.before = k]
    BY <1>10, PagedCases
  <2> HIDE DEF page, k
  <2> DEFINE p == Paged(l, rows)
  <2>3. /\ DOMAIN p = DOMAIN l /\ p.phase = "open" /\ p.snapshot = l.snapshot
        /\ p.before = k /\ p.seen = l.seen \o page /\ p.start = l.start
    BY <1>1, <2>2
  <2> HIDE DEF p
  <2>4. listing' = [p EXCEPT !.before = b]
    BY <1>7, <2>3 DEF ConnectionPaged, p
  <2>5. b.id = k /\ b.updated = time(k)
    BY DEF time
  <2> HIDE DEF b
  <2>6. /\ DOMAIN listing' = DOMAIN l /\ listing'.phase = "open" /\ listing'.snapshot = l.snapshot
        /\ listing'.before = b /\ listing'.seen = l.seen \o page /\ listing'.start = l.start
    BY <1>1, <2>3, <2>4
  <2>7. /\ l.seen \o page \in Seq(Nat) /\ Sorted(l.seen \o page, Different)
        /\ Range(l.seen \o page) = Range(l.seen) \cup Range(page) /\ Range(page) \subseteq S
    BY <1>9, <2>1
  <2>8. k \in Nat /\ time(k) \in Nat /\ Behind(k, before)
    BY <1>4, <2>1
  <2>9. \A c \in S : Behind(c, b) <=> <<k, c>> \in R
    BY <1>4, <1>5, <1>6, <2>1, <2>5, <2>8
  <2>10. ASSUME NEW c \in DOMAIN connections, Behind(c, b) PROVE Behind(c, before)
    BY <1>1, <1>2, <1>6, <2>5, <2>8, <2>10
  <2>11. \A c \in Range(l.seen \o page) : c \in DOMAIN connections /\ ~Behind(c, b)
    BY <1>1, <1>4, <2>1, <2>7, <2>9, <2>10
  <2>12. ASSUME NEW c \in Unchanged(l), ~Behind(c, b) PROVE c \in Range(l.seen \o page)
    <3>1. c \in DOMAIN connections /\ time(c) <= l.snapshot
      BY <1>1 DEF Unchanged, time
    <3>2. CASE Behind(c, before)
      <4>1. c \in S
        BY <1>4, <3>1, <3>2
      <4> QED
        BY <2>1, <2>7, <2>9, <2>12, <4>1
    <3>3. CASE ~Behind(c, before)
      BY <1>1, <2>7, <3>3
    <3> QED
      BY <3>2, <3>3
  <2>13. Unchanged(listing)' = Unchanged(l)
    BY <2>6 DEF Unchanged
  <2>14. \A c : Behind(c, listing.before)' <=> Behind(c, b)
    BY <2>6 DEF Behind
  <2>15. ListingGoing(listing, listing.before)'
    BY <1>1, <2>5, <2>6, <2>7, <2>8, <2>11, <2>12, <2>13, <2>14 DEF ListingGoing
  <2> QED
    BY <2>6, <2>15 DEF ListingReaderSound
<1>11. CASE ~(Len(rows) > PageLimit)
  <2>1. rows \in Seq(S) /\ Sorted(rows, R) /\ S \subseteq Range(rows)
    BY <1>3, <1>8, <1>11, PageTakes DEF rows
  <2>2. Paged(l, rows) = [l EXCEPT !.seen = @ \o rows, !.phase = "done"]
    BY <1>11, PagedCases
  <2>3. listing' = [l EXCEPT !.seen = @ \o rows, !.phase = "done"]
    BY <1>1, <1>7, <2>2 DEF ConnectionPaged
  <2>4. /\ listing'.phase = "done" /\ listing'.seen = l.seen \o rows
        /\ listing'.start = l.start /\ listing'.snapshot = l.snapshot
    BY <1>1, <2>3
  <2>5. /\ l.seen \o rows \in Seq(Nat) /\ Sorted(l.seen \o rows, Different)
        /\ Range(l.seen \o rows) = Range(l.seen) \cup Range(rows)
    BY <1>9, <2>1
  <2>6. ASSUME NEW c \in Unchanged(l) PROVE c \in Range(l.seen \o rows)
    <3>1. c \in DOMAIN connections /\ time(c) <= l.snapshot
      BY <1>1 DEF Unchanged, time
    <3> QED
      BY <1>1, <1>4, <2>1, <2>5, <3>1
  <2>7. IsInjective(l.seen \o rows)
    BY <2>5, SortedOnce
  <2>8. UnchangedConnectionsListed'
    BY <2>4, <2>6, <2>7 DEF UnchangedConnectionsListed, Unchanged
  <2> QED
    BY <2>4, <2>8 DEF ListingReaderSound
<1> QED
  BY <1>10, <1>11

LEMMA ListingPageStep ==
    ASSUME TablesTyped, ConnectionsTyped, ListingReaderSound, connections_pages
    PROVE  ListingReaderSound'
<1>1. connections' = connections
  BY DEF connections_pages
<1>2. ASSUME NEW at \in Observed, ConnectionsFirstPage(at) PROVE ListingReaderSound'
  <2> DEFINE first == [id |-> 0, updated |-> at + 1]
             l == [Idle EXCEPT !.phase = "open", !.snapshot = at, !.start = connections]
  <2>1. listing' = ConnectionPaged(l, ConnectionRows(at, first))
    BY <1>2 DEF ConnectionsFirstPage
  <2>2. /\ DOMAIN l = {"phase", "snapshot", "before", "seen", "start"}
        /\ l.phase = "open" /\ l.snapshot = at /\ l.seen = <<>> /\ l.start = connections
    BY DEF Idle
  <2>3. first.id = 0 /\ first.updated = at + 1
    OBVIOUS
  <2> HIDE DEF l, first
  <2>4. at \in Nat
    BY PolicyAssumption DEF Observed, TablesTyped
  <2>5. l.seen \in Seq(Nat) /\ Sorted(l.seen, Different) /\ Range(l.seen) = {}
    BY <2>2 DEF Sorted, Range
  <2>6. \A c \in Unchanged(l) : Behind(c, first)
    BY <2>2, <2>3, <2>4 DEF Unchanged, Behind, ConnectionsTyped
  <2>7. ListingGoing(l, first)
    BY <2>2, <2>3, <2>4, <2>5, <2>6 DEF ListingGoing
  <2> QED
    BY <1>1, <2>1, <2>2, <2>7, ListingPage
<1>3. ASSUME ConnectionsNextPage PROVE ListingReaderSound'
  <2>1. listing.phase = "open"
    BY <1>3 DEF ConnectionsNextPage
  <2>2. ListingGoing(listing, listing.before)
    BY <2>1 DEF ListingReaderSound, Idle
  <2> QED
    BY <1>1, <1>3, <2>1, <2>2, ListingPage DEF ConnectionsNextPage
<1> QED
  BY <1>2, <1>3 DEF connections_pages

-----------------------------------------------------------------------------
(* What the tables do while a reader pages.                                *)

\* Records are appended behind the sequence number and removed, not changed.
AuditMovesOn ==
    /\ sequence' \in Nat /\ sequence <= sequence'
    /\ \A n \in DOMAIN audit' : n <= sequence => n \in DOMAIN audit /\ audit'[n] = audit[n]

\* A connection stays, and changes only to a later status and not back in time.
ConnectionsMoveOn ==
    \A c \in DOMAIN connections :
        /\ c \in DOMAIN connections'
        /\ \/ connections'[c] = connections[c]
           \/ /\ Moved(connections[c].status, connections'[c].status)
              /\ connections'[c].updated >= connections[c].updated

\* A reader that waits for its next page stays sound.
LEMMA AuditReaderWaits ==
    ASSUME TablesTyped, TablesTyped', AuditReaderSound, AuditMovesOn, events' = Dropped(events)
    PROVE  AuditReaderSound'
<1>1. CASE events' = Idle
  BY <1>1 DEF AuditReaderSound, Idle
<1>2. CASE events.phase = "open" /\ AuditGoing(events, events.before) /\ events' = events
  <2>1. /\ events.snapshot \in Nat /\ sequence \in Nat /\ sequence' \in Nat
        /\ events.snapshot <= sequence /\ sequence <= sequence'
    BY <1>2 DEF AuditGoing, TablesTyped, AuditMovesOn
  <2>2. events'.snapshot <= sequence'
    BY <1>2, <2>1
  <2>3. \A n \in DOMAIN audit' : n <= events.snapshot => n \in DOMAIN audit /\ audit'[n] = audit[n]
    <3>1. \A n \in DOMAIN audit' : n \in Nat
      BY DEF TablesTyped
    <3> QED
      BY <2>1, <3>1 DEF AuditMovesOn
  <2>4. Matches(events)' = Matches(events) \cap DOMAIN audit'
    BY <1>2, <2>3 DEF Matches
  <2>5. \A n \in events.start : n <= events.snapshot /\ (n \in DOMAIN audit' => n \in Matches(events)')
    BY <1>2, <2>3, <2>4 DEF AuditGoing
  <2>6. AuditGoing(events, events.before)'
    BY <1>2, <2>2, <2>4, <2>5 DEF AuditGoing
  <2> QED
    BY <1>2, <2>6 DEF AuditReaderSound
<1> QED
  BY <1>1, <1>2 DEF AuditReaderSound, Dropped, Idle

LEMMA ListingReaderWaits ==
    ASSUME TablesTyped, ConnectionsTyped, ConnectionsTyped', ListingReaderSound, ConnectionsMoveOn,
           listing' = Dropped(listing)
    PROVE  ListingReaderSound'
<1>1. CASE listing' = Idle
  BY <1>1 DEF ListingReaderSound, Idle
<1>2. CASE listing.phase = "open" /\ ListingGoing(listing, listing.before) /\ listing' = listing
  <2> DEFINE b == listing.before
  <2>1. /\ DOMAIN listing = {"phase", "snapshot", "before", "seen", "start"}
        /\ b.id \in Nat /\ b.updated \in Nat /\ listing.snapshot \in Nat
        /\ \A c \in DOMAIN listing.start :
              /\ c \in DOMAIN connections
              /\ connections[c] = listing.start[c] \/ Moved(listing.start[c].status, connections[c].status)
        /\ listing.seen \in Seq(Nat) /\ Sorted(listing.seen, Different)
        /\ \A c \in Range(listing.seen) : c \in DOMAIN connections /\ ~Behind(c, b)
        /\ \A c \in Unchanged(listing) : Behind(c, b) \/ c \in Range(listing.seen)
    BY <1>2 DEF ListingGoing
  <2>2. listing'.before = b
    BY <1>2
  <2>3. /\ \A c \in DOMAIN connections : connections[c].updated \in Nat /\ c \in Nat
        /\ \A c \in DOMAIN connections' : connections'[c].updated \in Nat
    BY IdentityAssumption DEF TablesTyped, ConnectionsTyped
  <2> HIDE DEF b
  <2>4. ASSUME NEW c \in DOMAIN listing.start
        PROVE  /\ c \in DOMAIN connections'
               /\ connections'[c] = listing.start[c] \/ Moved(listing.start[c].status, connections'[c].status)
               /\ connections'[c] = listing.start[c] => connections[c] = listing.start[c]
    BY <2>1 DEF ConnectionsMoveOn, Moved
  <2>5. ASSUME NEW c \in Range(listing.seen)
        PROVE  c \in DOMAIN connections' /\ ~Behind(c, listing.before)'
    <3>1. c \in DOMAIN connections /\ ~Behind(c, b)
      BY <2>1
    <3>2. c \in DOMAIN connections' /\ connections'[c].updated >= connections[c].updated
      BY <2>3, <3>1 DEF ConnectionsMoveOn
    <3> QED
      BY <2>1, <2>2, <2>3, <3>1, <3>2 DEF Behind
  <2>6. ASSUME NEW c \in Unchanged(listing)'
        PROVE  Behind(c, listing.before)' \/ c \in Range(listing.seen)
    <3>1. c \in DOMAIN listing.start /\ connections'[c] = listing.start[c] /\ connections'[c].updated <= listing.snapshot
      BY <1>2 DEF Unchanged
    <3>2. connections[c] = connections'[c]
      BY <2>4, <3>1
    <3>3. c \in Unchanged(listing)
      BY <3>1, <3>2 DEF Unchanged
    <3>4. Behind(c, listing.before)' <=> Behind(c, b)
      BY <2>2, <3>2 DEF Behind
    <3> QED
      BY <2>1, <3>3, <3>4
  <2>7. ListingGoing(listing, listing.before)'
    BY <1>2, <2>1, <2>2, <2>4, <2>5, <2>6 DEF ListingGoing
  <2> QED
    BY <1>2, <2>7 DEF ListingReaderSound
<1> QED
  BY <1>1, <1>2 DEF ListingReaderSound, Dropped, Idle

\* Every step that records something appends it.
LEMMA RecordMovesOn ==
    ASSUME TablesTyped, NEW gone, NEW record,
           record_audit([n \in DOMAIN audit \ gone |-> audit[n]], record)
    PROVE  AuditMovesOn
<1>1. sequence \in Nat /\ sequence' = sequence + 1
  BY DEF TablesTyped, record_audit
<1>2. audit' = [n \in (DOMAIN audit \ gone) \cup {sequence + 1} |->
                   IF n = sequence + 1 THEN record ELSE [m \in DOMAIN audit \ gone |-> audit[m]][n]]
  BY DEF record_audit
<1> QED
  BY <1>1, <1>2 DEF AuditMovesOn

LEMMA AppendMovesOn ==
    ASSUME TablesTyped, NEW record, record_audit(audit, record)
    PROVE  AuditMovesOn
<1>1. sequence \in Nat /\ sequence' = sequence + 1
  BY DEF TablesTyped, record_audit
<1>2. audit' = [n \in DOMAIN audit \cup {sequence + 1} |->
                   IF n = sequence + 1 THEN record ELSE audit[n]]
  BY DEF record_audit
<1> QED
  BY <1>1, <1>2 DEF AuditMovesOn

LEMMA TablesRest ==
    ASSUME TablesTyped
    PROVE  /\ audit' = audit /\ sequence' = sequence => AuditMovesOn
           /\ connections' = connections => ConnectionsMoveOn
BY DEF TablesTyped, AuditMovesOn, ConnectionsMoveOn

LEMMA ConnectionsRest ==
    ASSUME ConnectionsTyped, connections' = connections
    PROVE  ConnectionsTyped'
BY DEF ConnectionsTyped

\* A connection that is admitted is new.
LEMMA AdmitMovesOn ==
    ASSUME TablesTyped, ConnectionsTyped, NEW at \in Observed, NEW q \in Connects, AdmitConnection(q, at)
    PROVE  AuditMovesOn /\ ConnectionsMoveOn /\ ConnectionsTyped'
<1>1. AuditMovesOn
  BY AppendMovesOn DEF AdmitConnection, govern_rate_attempt
<1>2. q \notin DOMAIN connections /\ at \in Nat
  BY PolicyAssumption DEF AdmitConnection, Observed, TablesTyped
<1>3. \/ connections' = connections
      \/ connections' = [c \in DOMAIN connections \cup {q} |->
                            IF c = q THEN [status |-> "pending", updated |-> at] ELSE connections[c]]
  BY DEF AdmitConnection
<1>4. CASE connections' = connections
  BY <1>1, <1>4, TablesRest, ConnectionsRest
<1>5. CASE connections' = [c \in DOMAIN connections \cup {q} |->
                            IF c = q THEN [status |-> "pending", updated |-> at] ELSE connections[c]]
  <2>1. DOMAIN connections' = DOMAIN connections \cup {q}
    BY <1>5
  <2>2. IsFiniteSet(DOMAIN connections')
    BY <2>1, FS_AddElement DEF ConnectionsTyped
  <2>3. ConnectionsMoveOn
    BY <1>2, <1>5 DEF ConnectionsMoveOn
  <2>4. ConnectionsTyped'
    BY <1>2, <1>5, <2>1, <2>2 DEF ConnectionsTyped, Statuses
  <2> QED
    BY <1>1, <2>3, <2>4
<1> QED
  BY <1>3, <1>4, <1>5

LEMMA MutationMovesOn ==
    ASSUME TablesTyped, ConnectionsTyped, NEW at \in Observed, NEW c, ConnectionMutation(c, at)
    PROVE  AuditMovesOn /\ ConnectionsMoveOn /\ ConnectionsTyped'
<1>1. AuditMovesOn
  BY AppendMovesOn DEF ConnectionMutation
<1>2. c \in DOMAIN connections /\ at >= connections[c].updated /\ at \in Nat
  BY PolicyAssumption DEF ConnectionMutation, Observed, TablesTyped
<1>3. PICK status \in Statuses :
          /\ Moved(connections[c].status, status)
          /\ connections' = [connections EXCEPT ![c] = [status |-> status, updated |-> at]]
  BY DEF ConnectionMutation, Moved, Statuses
<1>4. ConnectionsMoveOn
  BY <1>2, <1>3 DEF ConnectionsMoveOn
<1>5. ConnectionsTyped'
  BY <1>2, <1>3 DEF ConnectionsTyped
<1> QED
  BY <1>1, <1>4, <1>5

\* Every operation on the tables lets the readers wait.
LEMMA OperationMovesOn ==
    ASSUME TablesTyped, ConnectionsTyped, NEW at \in Observed, Operation(at)
    PROVE  AuditMovesOn /\ ConnectionsMoveOn /\ ConnectionsTyped' /\ ReadersStay
<1>1. ASSUME NEW q \in Connects, AdmitConnection(q, at)
      PROVE  AuditMovesOn /\ ConnectionsMoveOn /\ ConnectionsTyped' /\ ReadersStay
  BY <1>1, AdmitMovesOn DEF AdmitConnection
<1>2. ASSUME NEW c \in Connects, ConnectionMutation(c, at)
      PROVE  AuditMovesOn /\ ConnectionsMoveOn /\ ConnectionsTyped' /\ ReadersStay
  BY <1>2, MutationMovesOn DEF ConnectionMutation
<1>3. ASSUME NEW q, NEW kind, NEW to, ChallengeStep(q, kind, at, to)
      PROVE  AuditMovesOn /\ ConnectionsMoveOn /\ ConnectionsTyped' /\ ReadersStay
  <2>1. AuditMovesOn /\ connections' = connections /\ ReadersStay
    BY <1>3, AppendMovesOn DEF ChallengeStep, govern_rate_attempt
  <2> QED
    BY <2>1, TablesRest, ConnectionsRest
<1>4. ASSUME compact_governance(at)
      PROVE  AuditMovesOn /\ ConnectionsMoveOn /\ ConnectionsTyped' /\ ReadersStay
  <2>1. AuditMovesOn /\ connections' = connections /\ ReadersStay
    BY <1>4, RecordMovesOn DEF compact_governance
  <2> QED
    BY <2>1, TablesRest, ConnectionsRest
<1> QED
  BY <1>1, <1>2, <1>3, <1>4 DEF Operation, ChallengeRequire, ChallengeAuthorize

LEMMA PagesStep ==
    ASSUME TablesTyped, TablesTyped', PagesInv, [Next]_vars
    PROVE  PagesInv'
<1>0. ConnectionsTyped /\ AuditReaderSound /\ ListingReaderSound
  BY DEF PagesInv
<1>1. ASSUME AuditMovesOn, ConnectionsMoveOn, ConnectionsTyped', ReadersStay PROVE PagesInv'
  BY <1>0, <1>1, AuditReaderWaits, ListingReaderWaits DEF ReadersStay, PagesInv
<1>2. ASSUME audit' = audit, sequence' = sequence, connections' = connections, ReadersStay PROVE PagesInv'
  BY <1>0, <1>1, <1>2, TablesRest, ConnectionsRest
<1>3. CASE Tick
  BY <1>2, <1>3 DEF Tick
<1>4. CASE Reconfigure
  BY <1>2, <1>4 DEF Reconfigure
<1>5. CASE audit_events
  <2>1. connections' = connections /\ listing' = listing
    BY <1>5 DEF audit_events
  <2>2. ListingReaderSound'
    BY <1>0, <2>1 DEF ListingReaderSound, ListingGoing, UnchangedConnectionsListed, Unchanged, Behind
  <2> QED
    BY <1>0, <1>5, <2>1, <2>2, AuditPageStep, ConnectionsRest DEF PagesInv
<1>6. CASE connections_pages
  <2>1. connections' = connections /\ events' = events /\ audit' = audit /\ sequence' = sequence
    BY <1>6 DEF connections_pages
  <2>2. AuditReaderSound'
    BY <1>0, <2>1 DEF AuditReaderSound, AuditGoing, AuditPagesComplete, Matches
  <2> QED
    BY <1>0, <1>6, <2>1, <2>2, ListingPageStep, ConnectionsRest DEF PagesInv
<1>7. ASSUME NEW at \in Observed, Operation(at) PROVE PagesInv'
  BY <1>0, <1>1, <1>7, OperationMovesOn
<1>8. CASE UNCHANGED vars
  <2>1. /\ connections' = connections /\ listing' = listing
        /\ events' = events /\ audit' = audit /\ sequence' = sequence
    BY <1>8 DEF vars
  <2>2. ListingReaderSound'
    BY <1>0, <2>1 DEF ListingReaderSound, ListingGoing, UnchangedConnectionsListed, Unchanged, Behind
  <2>3. AuditReaderSound'
    BY <1>0, <2>1 DEF AuditReaderSound, AuditGoing, AuditPagesComplete, Matches
  <2> QED
    BY <1>0, <2>1, <2>2, <2>3, ConnectionsRest DEF PagesInv
<1> QED
  BY <1>3, <1>4, <1>5, <1>6, <1>7, <1>8 DEF Next

LEMMA PagesInvImplies == PagesInv => PagesComplete
<1> SUFFICES ASSUME AuditReaderSound, ListingReaderSound PROVE PagesComplete
  BY DEF PagesInv
<1>1. AuditPagesComplete
  BY DEF AuditReaderSound, AuditPagesComplete, Idle
<1>2. IsInjective(<<>>)
  BY DEF IsInjective
<1>3. ASSUME listing = Idle PROVE UnchangedConnectionsListed
  BY <1>2, <1>3 DEF UnchangedConnectionsListed, Idle
<1>4. ASSUME listing.phase = "open", ListingGoing(listing, listing.before)
      PROVE  UnchangedConnectionsListed
  <2>1. listing.seen \in Seq(Nat) /\ Sorted(listing.seen, Different)
    BY <1>4 DEF ListingGoing
  <2>2. IsInjective(listing.seen)
    BY <2>1, SortedOnce
  <2> QED
    BY <1>4, <2>2 DEF UnchangedConnectionsListed
<1> QED
  BY <1>1, <1>3, <1>4 DEF PagesComplete, ListingReaderSound

(***************************************************************************)
(* For every number of items per page, every set of connections and any    *)
(* interleaving of pages with operations and compactions: a finished       *)
(* traversal of the audit records returned each matching record that is    *)
(* still retained, once and in descending order, and none appended since;  *)
(* a finished traversal of the connections returned each one that did not  *)
(* change, and none twice (read_admin_audit_page,                          *)
(* read_admin_connection_page).                                            *)
(***************************************************************************)
THEOREM PagesCompleteCorrect == Spec => []PagesComplete
<1>1. Init => PagesInv
  <2> SUFFICES ASSUME Init PROVE PagesInv
    OBVIOUS
  <2>1. DOMAIN connections = {} /\ events = Idle /\ listing = Idle
    BY DEF Init
  <2> QED
    BY <2>1, FS_EmptySet DEF PagesInv, ConnectionsTyped, AuditReaderSound, ListingReaderSound
<1>2. GovernanceInv /\ GovernanceInv' /\ PagesInv /\ [Next]_vars => PagesInv'
  BY PagesStep DEF GovernanceInv
<1>3. PagesInv => PagesComplete
  BY PagesInvImplies
<1> QED
  BY <1>1, <1>2, <1>3, InvariantHolds, PTL DEF Spec
=============================================================================
