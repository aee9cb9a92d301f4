----------------------------- MODULE ScanProofs -----------------------------
(***************************************************************************)
(* What the scheduled scan keeps to, for any number of records, edits that *)
(* overlap, caps, cooldowns and scanners; and how often it acts on a       *)
(* record, which takes that there is one scanner.                          *)
(***************************************************************************)
EXTENDS ScheduleScan, FiniteSetTheorems, WellFoundedInduction, TLAPS

(* What a scan under way holds.                                            *)
LocalOK(l) ==
  /\ l.pc # "idle" => l.rule \in Edition
  /\ l.pc = "match" => l.targets = {}
  /\ l.pc = "log" => l.targets # {}
Whole(l) ==
  l.pc \in {"exclude", "act", "log"} =>
    /\ Cardinality(l.matched) <= Cap
    /\ l.candidates = l.matched /\ l.targets \subseteq l.matched

LocalsOK == \A s \in Scanners : LocalOK(scan[s]) /\ Whole(scan[s])

(* Who will write nextRunAt reckons with the schedule that will then be on *)
(* the rule, unless it was overtaken.                                      *)
ScanReckons(s) ==
  scan[s].pc # "idle" /\ s \notin overtaken => scan[s].rule.period = rule.edition.period
PatchReckons(e) ==
  patch[e].pc = "write" =>
    /\ patch[e].change \in Change /\ patch[e].period \in 1 .. MaxPeriod
    /\ IF "period" \in patch[e].change.fields
       THEN patch[e].period = patch[e].change.to.period
       ELSE e \notin overtaken => patch[e].period = rule.edition.period
Reckoning == (\A s \in Scanners : ScanReckons(s)) /\ (\A e \in Editors : PatchReckons(e))

ScanInv == TypeOK /\ LocalsOK /\ Reckoning /\ NextRunFitsCadence

-----------------------------------------------------------------------------
(* A set of records that is not empty has an oldest one.                   *)
LEMMA OldestExists ==
  ASSUME NEW S, S \subseteq Nat, S # {}
  PROVE  Min(S) \in S /\ \A x \in S : Min(S) <= x
<1> DEFINE R == OpToRel(<, Nat)
<1>1. IsWellFoundedOn(R, Nat)
  BY NatLessThanWellFounded
<1>2. R = {p \in Nat \X Nat : p[1] < p[2]}
  BY DEF OpToRel
<1> HIDE DEF R
<1>3. PICK m \in S : \A x \in S : ~ (<<x, m>> \in R)
  BY <1>1, WFMin
<1>4. ASSUME NEW x \in S PROVE m <= x
  <2>1. x \in Nat /\ m \in Nat /\ <<x, m>> \in Nat \X Nat /\ <<x, m>>[1] = x /\ <<x, m>>[2] = m
    OBVIOUS
  <2> QED
    BY <1>2, <1>3, <2>1
<1> QED
  BY <1>3, <1>4 DEF Min

(* findMany with a limit that it does not reach returns every match: the   *)
(* first one it left out would have the limit's number before it.          *)
LEMMA OldestAreAll ==
  ASSUME TypeOK, Cardinality(Oldest(Cap + 1)) <= Cap
  PROVE  Oldest(Cap + 1) = matching
<1> DEFINE Out == matching \ Oldest(Cap + 1)
           UpTo(r) == {o \in matching : o <= r}
<1>1. Records \subseteq Nat /\ matching \subseteq Records /\ IsFiniteSet(matching) /\ Cap \in Nat
  BY ScanAssumption, FS_Subset DEF TypeOK
<1>2. SUFFICES ASSUME Out # {} PROVE FALSE
  BY DEF Oldest
<1>3. PICK r \in Out : \A o \in Out : r <= o
  BY <1>1, <1>2, OldestExists
<1>4. r \in matching /\ UpTo(r) \ {r} \subseteq Oldest(Cap + 1)
  <2>1. ASSUME NEW o \in UpTo(r) \ {r} PROVE o \notin Out
    BY <1>1, <1>3, <2>1
  <2> QED
    BY <1>3, <2>1
<1>5. IsFiniteSet(UpTo(r)) /\ IsFiniteSet(Oldest(Cap + 1))
  BY <1>1, FS_Subset DEF Oldest
<1>6. /\ Cardinality(UpTo(r) \ {r}) = Cardinality(UpTo(r)) - 1
      /\ Cardinality(UpTo(r) \ {r}) <= Cardinality(Oldest(Cap + 1))
      /\ Cardinality(UpTo(r)) \in Nat /\ Cardinality(Oldest(Cap + 1)) \in Nat
  <2>1. r \in UpTo(r)
    BY <1>1, <1>4
  <2> QED
    BY <1>4, <1>5, <2>1, FS_RemoveElement, FS_Subset, FS_CardinalityType
<1>7. ~ (Cardinality(UpTo(r)) <= Cap + 1)
  BY <1>3, <1>4 DEF Oldest
<1> QED
  BY <1>1, <1>6, <1>7

LEMMA NextRunInPeriod ==
  ASSUME NEW period \in 1 .. MaxPeriod, NEW age \in 0 .. MaxPeriod, NEW n \in NextRun(period, age)
  PROVE  n \in 0 .. MaxPeriod /\ n <= period
BY ScanAssumption DEF NextRun

LEMMA MergeIsEdition ==
  ASSUME NEW c \in Change, NEW e \in Edition
  PROVE  /\ Merge(c, e) \in Edition
         /\ Merge(c, e).period = IF "period" \in c.fields THEN c.to.period ELSE e.period
BY Zenon DEF Merge, Change, Edition

LEMMA OlderIsAge ==
  ASSUME NEW age \in Ages \cup {None}
  PROVE  /\ Older(age) \in Ages \cup {None} /\ (Older(age) = None <=> age = None)
         /\ age # None => Older(age) >= age
         /\ \A a \in Ages : age # None /\ a <= age => Older(a) <= Older(age)
BY ScanAssumption DEF Older, Ages

-----------------------------------------------------------------------------
LEMMA InitScanInv == Init => ScanInv
<1> SUFFICES ASSUME Init PROVE ScanInv
  OBVIOUS
<1>1. Published \in Edition /\ Published.period \in 1 .. MaxPeriod
  BY ScanAssumption DEF Edition
<1>2. IdleScan \in ScanState /\ LocalOK(IdleScan) /\ Whole(IdleScan)
  BY ScanAssumption DEF IdleScan, ScanState, LocalOK, Whole
<1>3. PICK next \in 1 .. Published.period : rule = [edition |-> Published, next |-> next]
  BY DEF Init
<1>4. rule \in [edition : Edition, next : 0 .. MaxPeriod] /\ rule.next <= rule.edition.period
  BY <1>1, <1>3, ScanAssumption
<1>5. IdlePatch \in PatchState
  BY ScanAssumption DEF IdlePatch, PatchState
<1>6. TypeOK
  BY <1>2, <1>4, <1>5 DEF Init, TypeOK
<1>7. Reckoning
  BY DEF Init, Reckoning, ScanReckons, PatchReckons, IdleScan, IdlePatch
<1> QED
  BY <1>2, <1>4, <1>6, <1>7 DEF Init, ScanInv, LocalsOK, NextRunFitsCadence

(* A consumer goes on with other local state.                              *)
LEMMA LocalMove ==
  ASSUME ScanInv, NEW s \in Scanners, NEW l \in ScanState, LocalOK(l), Whole(l), Become(s, l)
  PROVE  scan' \in [Scanners -> ScanState] /\ LocalsOK'
<1>1. /\ scan' \in [Scanners -> ScanState] /\ scan'[s] = l
      /\ \A o \in Scanners : o # s => scan'[o] = scan[o]
  BY DEF Become, ScanInv, TypeOK
<1> QED
  BY <1>1 DEF ScanInv, LocalsOK, LocalOK, Whole

(* The schedule it holds is the one it held or the one on the rule.        *)
SameSchedule(s, l) ==
  \/ l.pc = "idle"
  \/ l.rule = rule.edition
  \/ scan[s].pc # "idle" /\ l.rule = scan[s].rule

LEMMA ReckoningMove ==
  ASSUME ScanInv, NEW s \in Scanners, NEW l, Become(s, l), SameSchedule(s, l),
         UNCHANGED <<rule, patch>>,
         overtaken' = overtaken \/ (l.pc = "idle" /\ overtaken' = overtaken \ {s})
  PROVE  Reckoning'
<1>1. /\ scan'[s] = l /\ \A o \in Scanners : o # s => scan'[o] = scan[o]
      /\ \A o \in Scanners : o # s /\ o \notin overtaken' => o \notin overtaken
      /\ l.pc # "idle" => overtaken' = overtaken
  BY DEF Become, ScanInv, TypeOK
<1>2. \A o \in Scanners : ScanReckons(o)'
  BY <1>1 DEF ScanInv, Reckoning, ScanReckons, SameSchedule
<1>3. \A e \in Editors : e \notin overtaken' => e \notin overtaken
  BY ScanAssumption
<1>4. \A e \in Editors : PatchReckons(e)'
  BY <1>3 DEF ScanInv, Reckoning, PatchReckons
<1> QED
  BY <1>2, <1>4 DEF Reckoning

(* And nothing else happens but that runs, faults and history move.        *)
LEMMA QuietMove ==
  ASSUME ScanInv, NEW s \in Scanners, NEW l \in ScanState, LocalOK(l), Whole(l), Become(s, l),
         SameSchedule(s, l),
         UNCHANGED <<rule, env, patch, edits, stale>>,
         overtaken' = overtaken \/ (l.pc = "idle" /\ overtaken' = overtaken \ {s}),
         logged' \in [Records -> Ages \cup {None}], running' \in SUBSET Records, faults' \in Nat,
         acted' \in [Records -> Ages \cup {None}], byRun' \in SUBSET Records, early' \in Nat
  PROVE  ScanInv'
<1>1. Reckoning' /\ scan' \in [Scanners -> ScanState] /\ LocalsOK'
  BY LocalMove, ReckoningMove
<1>2. overtaken' \in SUBSET (Scanners \cup Editors)
  BY DEF ScanInv, TypeOK
<1>3. TypeOK'
  BY <1>1, <1>2 DEF ScanInv, TypeOK, env
<1> QED
  BY <1>1, <1>3 DEF ScanInv, NextRunFitsCadence

LEMMA IdleIsFine ==
  /\ IdleScan \in ScanState /\ LocalOK(IdleScan) /\ Whole(IdleScan)
  /\ \A s \in Scanners : SameSchedule(s, IdleScan)
BY ScanAssumption DEF SameSchedule, IdleScan, ScanState, LocalOK, Whole

LEMMA FinishIsFine ==
  ASSUME ScanInv, NEW s \in Scanners, scan[s].pc # "idle"
  PROVE  /\ ToFinish(s) \in ScanState /\ LocalOK(ToFinish(s)) /\ Whole(ToFinish(s))
         /\ SameSchedule(s, ToFinish(s))
BY DEF SameSchedule, ScanInv, LocalsOK, TypeOK, ToFinish, IdleScan, ScanState, LocalOK, Whole

LEMMA CurrentIsTarget ==
  ASSUME ScanInv, NEW s \in Scanners, scan[s].targets # {}
  PROVE  Current(s) \in scan[s].targets /\ Current(s) \in Records
<1>1. scan[s].targets \subseteq Records /\ Records \subseteq Nat
  BY ScanAssumption DEF ScanInv, TypeOK, ScanState
<1> QED
  BY <1>1, OldestExists DEF Current

LEMMA ExecuteTypes ==
  ASSUME TypeOK, NEW s \in Scanners, NEW r \in Records, NEW throughRun \in BOOLEAN,
         Execute(s, r, throughRun)
  PROVE  /\ acted' \in [Records -> Ages \cup {None}]
         /\ byRun' \in SUBSET Records /\ early' \in Nat
<1>1. acted' \in [Records -> Ages \cup {None}]
  BY ScanAssumption DEF Execute, TypeOK, Ages
<1>2. byRun' \in SUBSET Records
  BY DEF Execute, TypeOK
<1>3. early' \in Nat
  BY DEF Execute, TypeOK
<1> QED
  BY <1>1, <1>2, <1>3

-----------------------------------------------------------------------------
LEMMA ScanStepKeeps ==
  ASSUME ScanInv, NEW s \in Scanners, ScanStep(s) \/ QueryFails(s) \/ Crash(s)
  PROVE  ScanInv'
<1>0. /\ scan[s] \in ScanState /\ LocalOK(scan[s]) /\ Whole(scan[s]) /\ TypeOK
  BY DEF ScanInv, LocalsOK, TypeOK
<1>1. CASE StartScan(s)
  <2> DEFINE l == [IdleScan EXCEPT !.pc = "match", !.rule = rule.edition]
  <2>0. rule.edition \in Edition
    BY <1>0 DEF TypeOK
  <2>1. l \in ScanState /\ LocalOK(l) /\ Whole(l) /\ SameSchedule(s, l)
    <3>1. l \in ScanState
      BY <2>0, IdleIsFine DEF ScanState
    <3>2. l.pc = "match" /\ l.rule = rule.edition /\ l.targets = {}
      BY DEF IdleScan
    <3> HIDE DEF l
    <3> QED
      BY <2>0, <3>1, <3>2 DEF LocalOK, Whole, SameSchedule
  <2>2. Become(s, l) /\ UNCHANGED <<rule, env, logged, running, patch, bounds, handling, cadence>>
    BY <1>1 DEF StartScan
  <2> HIDE DEF l
  <2> QED
    BY <1>0, <2>1, <2>2, QuietMove DEF bounds, handling, cadence, TypeOK
<1>2. CASE Match(s)
  <2>1. scan[s].pc = "match" /\ UNCHANGED <<rule, env, logged, running, patch, bounds, handling, cadence>>
    BY <1>2 DEF Match
  <2>2. CASE Cardinality(Oldest(Cap + 1)) > Cap
    <3>1. Become(s, ToFinish(s))
      BY <1>2, <2>2 DEF Match
    <3> QED
      BY <1>0, <2>1, <3>1, FinishIsFine, QuietMove DEF bounds, handling, cadence, TypeOK
  <2>3. CASE ~ (Cardinality(Oldest(Cap + 1)) > Cap)
    <3> DEFINE l == [scan[s] EXCEPT !.pc = "exclude", !.matched = matching,
                                    !.candidates = Oldest(Cap + 1)]
    <3>1. Become(s, l)
      BY <1>2, <2>3 DEF Match
    <3>2. IsFiniteSet(matching) /\ matching \in SUBSET Records
      BY <1>0, ScanAssumption, FS_Subset DEF TypeOK
    <3>3. IsFiniteSet(Oldest(Cap + 1)) /\ Cardinality(Oldest(Cap + 1)) \in Nat
      BY <3>2, FS_Subset, FS_CardinalityType DEF Oldest
    <3>4. Cardinality(Oldest(Cap + 1)) <= Cap
      BY <2>3, <3>3, ScanAssumption
    <3>5. Oldest(Cap + 1) = matching /\ Cardinality(matching) <= Cap
      BY <1>0, <3>4, OldestAreAll
    <3>6. scan[s].targets = {}
      BY <1>0, <2>1 DEF LocalOK
    <3>7. l \in ScanState /\ LocalOK(l) /\ Whole(l) /\ SameSchedule(s, l)
      BY <1>0, <2>1, <3>2, <3>5, <3>6 DEF ScanState, LocalOK, Whole, SameSchedule
    <3> HIDE DEF l
    <3> QED
      BY <1>0, <2>1, <3>1, <3>7, QuietMove DEF bounds, handling, cadence, TypeOK
  <2> QED
    BY <2>2, <2>3
<1>3. CASE Exclude(s)
  <2> DEFINE l == [scan[s] EXCEPT !.pc = "act",
                     !.targets = {r \in scan[s].candidates : ~ Handled(scan[s].rule.repeat, r)}]
  <2>1. l \in ScanState /\ LocalOK(l) /\ Whole(l) /\ SameSchedule(s, l)
    BY <1>0, <1>3 DEF Exclude, ScanState, LocalOK, Whole, SameSchedule
  <2>2. Become(s, l) /\ UNCHANGED <<rule, env, logged, running, patch, bounds, handling, cadence>>
    BY <1>3 DEF Exclude
  <2> HIDE DEF l
  <2> QED
    BY <1>0, <2>1, <2>2, QuietMove DEF bounds, handling, cadence, TypeOK
<1>4. CASE Act(s)
  <2>1. /\ scan[s].pc = "act" /\ scan[s].targets # {} /\ Current(s) \in Records
        /\ UNCHANGED <<rule, env, logged, running, patch, bounds, cadence>>
    BY <1>4, CurrentIsTarget DEF Act, AtRecord
  <2>2. PICK ok \in BOOLEAN : Become(s, [scan[s] EXCEPT !.pc = "log", !.ok = ok])
    BY <1>4 DEF Act
  <2> DEFINE l == [scan[s] EXCEPT !.pc = "log", !.ok = ok]
  <2>3. l \in ScanState /\ LocalOK(l) /\ Whole(l) /\ SameSchedule(s, l)
    BY <1>0, <2>1 DEF ScanState, LocalOK, Whole, SameSchedule
  <2>4. Execute(s, Current(s), FALSE) \/ UNCHANGED handling
    BY <1>4 DEF Act
  <2>5. /\ acted' \in [Records -> Ages \cup {None}]
        /\ byRun' \in SUBSET Records /\ early' \in Nat
    BY <1>0, <2>1, <2>4, ExecuteTypes DEF handling, TypeOK
  <2>6. Become(s, l)
    BY <2>2
  <2> HIDE DEF l
  <2> QED
    BY <1>0, <2>1, <2>3, <2>5, <2>6, QuietMove DEF bounds, cadence, TypeOK
<1>5. CASE LogExecution(s)
  <2>1. /\ scan[s].pc = "log" /\ Current(s) \in Records
        /\ UNCHANGED <<rule, env, running, patch, bounds, handling, cadence>>
    BY <1>0, <1>5, CurrentIsTarget DEF LogExecution, LocalOK
  <2> DEFINE l == [scan[s] EXCEPT !.pc = "act", !.targets = @ \ {Current(s)}, !.ok = FALSE]
  <2>2. l \in ScanState /\ LocalOK(l) /\ Whole(l) /\ SameSchedule(s, l)
    BY <1>0, <2>1 DEF ScanState, LocalOK, Whole, SameSchedule
  <2>3. Become(s, l) /\ logged' \in [Records -> Ages \cup {None}]
    BY <1>0, <1>5, <2>1, ScanAssumption DEF LogExecution, TypeOK, Ages
  <2> HIDE DEF l
  <2> QED
    BY <1>0, <2>1, <2>2, <2>3, QuietMove DEF bounds, handling, cadence, TypeOK
<1>6. CASE StartRun(s)
  <2>1. /\ scan[s].pc = "act" /\ Current(s) \in Records
        /\ UNCHANGED <<rule, env, logged, patch, bounds, cadence>>
    BY <1>6, CurrentIsTarget DEF StartRun, AtRecord
  <2> DEFINE l == [scan[s] EXCEPT !.targets = @ \ {Current(s)}]
  <2>2. l \in ScanState /\ LocalOK(l) /\ Whole(l) /\ SameSchedule(s, l) /\ Become(s, l)
    BY <1>0, <1>6, <2>1 DEF StartRun, ScanState, LocalOK, Whole, SameSchedule
  <2>3. \/ UNCHANGED <<running, handling>>
        \/ running' = running \cup {Current(s)} /\ Execute(s, Current(s), TRUE)
    BY <1>6 DEF StartRun
  <2>4. /\ acted' \in [Records -> Ages \cup {None}] /\ running' \in SUBSET Records
        /\ byRun' \in SUBSET Records /\ early' \in Nat
    BY <1>0, <2>1, <2>3, ExecuteTypes DEF handling, TypeOK
  <2> HIDE DEF l
  <2> QED
    BY <1>0, <2>1, <2>2, <2>4, QuietMove DEF bounds, cadence, TypeOK
<1>7. CASE AllDone(s)
  BY <1>0, <1>7, FinishIsFine, QuietMove DEF AllDone, bounds, handling, cadence, TypeOK
<1>8. CASE Finish(s)
  <2>1. /\ scan[s].rule \in Edition /\ scan[s].age \in 0 .. MaxPeriod
        /\ scan[s].rule.period \in 1 .. MaxPeriod
    BY <1>0, <1>8 DEF Finish, LocalOK, ScanState, Edition
  <2>2. PICK next \in NextRun(scan[s].rule.period, scan[s].age) : rule' = [rule EXCEPT !.next = next]
    BY <1>8 DEF Finish
  <2>3. next \in 0 .. MaxPeriod /\ next <= scan[s].rule.period
    BY <2>1, <2>2, NextRunInPeriod
  <2>4. /\ stale' = (s \in overtaken) /\ overtaken' = overtaken \ {s} /\ Become(s, IdleScan)
        /\ UNCHANGED <<env, logged, running, patch, bounds, handling>>
    BY <1>8 DEF Finish
  <2>5. scan' \in [Scanners -> ScanState] /\ LocalsOK'
    BY <2>4, IdleIsFine, LocalMove
  <2>6. /\ rule' \in [edition : Edition, next : 0 .. MaxPeriod]
        /\ rule'.edition = rule.edition /\ rule'.next = next
    BY <1>0, <2>2, <2>3 DEF TypeOK
  <2>7. NextRunFitsCadence'
    <3>1. s \notin overtaken => scan[s].rule.period = rule.edition.period
      BY <1>8 DEF Finish, ScanInv, Reckoning, ScanReckons
    <3> QED
      BY <2>3, <2>4, <2>6, <3>1 DEF NextRunFitsCadence
  <2>8. TypeOK'
    <3>1. overtaken' \in SUBSET (Scanners \cup Editors) /\ stale' \in BOOLEAN
      BY <1>0, <2>4 DEF TypeOK
    <3> QED
      BY <1>0, <2>4, <2>5, <2>6, <3>1 DEF TypeOK, env, bounds, handling
  <2>9. Reckoning'
    <3>1. /\ scan'[s].pc = "idle" /\ \A o \in Scanners : o # s => scan'[o] = scan[o]
      BY <1>0, <2>4 DEF Become, TypeOK, IdleScan
    <3>2. \A o \in Scanners : ScanReckons(o)'
      BY <2>4, <2>6, <3>1 DEF ScanInv, Reckoning, ScanReckons
    <3>3. \A e \in Editors : e \notin overtaken' => e \notin overtaken
      BY <2>4, ScanAssumption
    <3>4. \A e \in Editors : PatchReckons(e)'
      BY <2>4, <2>6, <3>3 DEF ScanInv, Reckoning, PatchReckons
    <3> QED
      BY <3>2, <3>4 DEF Reckoning
  <2> QED
    BY <2>5, <2>7, <2>8, <2>9 DEF ScanInv
<1>9. CASE QueryFails(s)
  <2>1. scan[s].pc # "idle" /\ Become(s, ToFinish(s)) /\ faults' = faults + 1
        /\ UNCHANGED <<rule, env, logged, running, patch, edits, handling, cadence>>
    BY <1>9 DEF QueryFails
  <2> QED
    BY <1>0, <2>1, FinishIsFine, QuietMove DEF handling, cadence, TypeOK
<1>10. CASE Crash(s)
  <2>1. /\ Become(s, IdleScan) /\ faults' = faults + 1 /\ overtaken' = overtaken \ {s}
        /\ UNCHANGED <<rule, env, logged, running, patch, edits, handling, stale>>
    BY <1>10 DEF Crash
  <2>2. IdleScan.pc = "idle"
    BY DEF IdleScan
  <2> QED
    BY <1>0, <2>1, <2>2, IdleIsFine, QuietMove DEF handling, TypeOK
<1> QED
  BY <1>1, <1>2, <1>3, <1>4, <1>5, <1>6, <1>7, <1>8, <1>9, <1>10 DEF ScanStep

LEMMA AgedLocals ==
  /\ \A l \in ScanState :
       /\ Aged(l) \in ScanState /\ Aged(l).pc = l.pc /\ Aged(l).rule = l.rule
       /\ Aged(l).targets = l.targets /\ Aged(l).matched = l.matched
       /\ Aged(l).candidates = l.candidates /\ Aged(l).ok = l.ok
  /\ \A l \in PatchState :
       /\ Aged(l) \in PatchState /\ Aged(l).pc = l.pc
       /\ Aged(l).change = l.change /\ Aged(l).period = l.period
<1>1. ASSUME NEW l \in ScanState
      PROVE  /\ Aged(l) \in ScanState /\ Aged(l).pc = l.pc /\ Aged(l).rule = l.rule
             /\ Aged(l).targets = l.targets /\ Aged(l).matched = l.matched
             /\ Aged(l).candidates = l.candidates /\ Aged(l).ok = l.ok
  <2>1. l.age = MaxPeriod \/ l.age + 1 \in 0 .. MaxPeriod
    BY ScanAssumption DEF ScanState
  <2>2. CASE Aged(l) = l
    BY <2>2
  <2>3. CASE Aged(l) = [l EXCEPT !.age = @ + 1] /\ l.age + 1 \in 0 .. MaxPeriod
    BY <2>3 DEF ScanState
  <2> QED
    BY <2>1, <2>2, <2>3 DEF Aged
<1>2. ASSUME NEW l \in PatchState
      PROVE  /\ Aged(l) \in PatchState /\ Aged(l).pc = l.pc
             /\ Aged(l).change = l.change /\ Aged(l).period = l.period
  <2>1. l.age = MaxPeriod \/ l.age + 1 \in 0 .. MaxPeriod
    BY ScanAssumption DEF PatchState
  <2>2. CASE Aged(l) = l
    BY <2>2
  <2>3. CASE Aged(l) = [l EXCEPT !.age = @ + 1] /\ l.age + 1 \in 0 .. MaxPeriod
    BY <2>3 DEF PatchState
  <2> QED
    BY <2>1, <2>2, <2>3 DEF Aged
<1> QED
  BY <1>1, <1>2

LEMMA TickKeeps ==
  ASSUME ScanInv, Tick
  PROVE  ScanInv'
<1>1. /\ logged' \in [Records -> Ages \cup {None}]
      /\ acted' \in [Records -> Ages \cup {None}]
  BY OlderIsAge DEF Tick, ScanInv, TypeOK
<1>2. /\ rule' \in [edition : Edition, next : 0 .. MaxPeriod]
      /\ rule'.edition = rule.edition /\ rule'.next <= rule.next
  BY ScanAssumption DEF Tick, ScanInv, TypeOK
<1>3. /\ scan' = [s \in Scanners |-> Aged(scan[s])] /\ patch' = [e \in Editors |-> Aged(patch[e])]
      /\ \A s \in Scanners : scan[s] \in ScanState
      /\ \A e \in Editors : patch[e] \in PatchState
      /\ UNCHANGED <<env, running, bounds, byRun, early, cadence>>
  BY DEF Tick, ScanInv, TypeOK
<1>4. scan' \in [Scanners -> ScanState] /\ patch' \in [Editors -> PatchState]
  BY <1>3, AgedLocals
<1>5. LocalsOK'
  <2> SUFFICES ASSUME NEW s \in Scanners PROVE LocalOK(scan'[s]) /\ Whole(scan'[s])
    BY DEF LocalsOK
  <2>1. LocalOK(scan[s]) /\ Whole(scan[s]) /\ scan[s] \in ScanState /\ scan'[s] = Aged(scan[s])
    BY <1>3 DEF ScanInv, LocalsOK
  <2>2. /\ scan'[s].pc = scan[s].pc /\ scan'[s].rule = scan[s].rule
        /\ scan'[s].targets = scan[s].targets /\ scan'[s].matched = scan[s].matched
        /\ scan'[s].candidates = scan[s].candidates
    BY <2>1, AgedLocals
  <2> QED
    BY <2>1, <2>2 DEF LocalOK, Whole
<1>6. TypeOK'
  BY <1>1, <1>2, <1>3, <1>4 DEF ScanInv, TypeOK, env, bounds, cadence
<1>7. NextRunFitsCadence'
  BY <1>2, <1>3, ScanAssumption DEF ScanInv, TypeOK, NextRunFitsCadence, Edition, cadence
<1>8. Reckoning'
  <2>1. ASSUME NEW s \in Scanners PROVE ScanReckons(s)'
    <3>1. scan'[s].pc = scan[s].pc /\ scan'[s].rule = scan[s].rule
      BY <1>3, AgedLocals
    <3> QED
      BY <1>2, <1>3, <3>1 DEF ScanInv, Reckoning, ScanReckons, cadence
  <2>2. ASSUME NEW e \in Editors PROVE PatchReckons(e)'
    <3>1. /\ patch'[e].pc = patch[e].pc /\ patch'[e].change = patch[e].change
          /\ patch'[e].period = patch[e].period
      BY <1>3, AgedLocals
    <3> QED
      BY <1>2, <1>3, <3>1 DEF ScanInv, Reckoning, PatchReckons, cadence
  <2> QED
    BY <2>1, <2>2 DEF Reckoning
<1> QED
  BY <1>5, <1>6, <1>7, <1>8 DEF ScanInv

-----------------------------------------------------------------------------
(* Edits.                                                                  *)

LEMMA ReadKeeps ==
  ASSUME ScanInv, NEW e \in Editors, ReadRule(e)
  PROVE  ScanInv'
<1>1. PICK c \in Changes :
        patch' = [patch EXCEPT ![e] = [pc |-> "write", change |-> c, age |-> 0,
                                       period |-> Merge(c, rule.edition).period]]
  BY DEF ReadRule
<1>2. /\ c \in Change /\ rule.edition \in Edition /\ 0 \in 0 .. MaxPeriod
      /\ \A x \in Edition : x.period \in 1 .. MaxPeriod
      /\ edits' = edits + 1
      /\ UNCHANGED <<rule, env, logged, running, scan, faults, handling, cadence>>
  BY ScanAssumption DEF ReadRule, ScanInv, TypeOK, Edition
<1> DEFINE p == Merge(c, rule.edition).period
<1>3. p \in 1 .. MaxPeriod /\ p = IF "period" \in c.fields THEN c.to.period ELSE rule.edition.period
  BY <1>2, MergeIsEdition
<1> HIDE DEF p
<1>4. /\ patch' \in [Editors -> PatchState]
      /\ patch'[e] = [pc |-> "write", change |-> c, age |-> 0, period |-> p]
      /\ \A o \in Editors : o # e => patch'[o] = patch[o]
  BY <1>1, <1>2, <1>3 DEF ScanInv, TypeOK, PatchState, p
<1>5. TypeOK'
  BY <1>2, <1>4 DEF ScanInv, TypeOK, env, handling, cadence
<1>6. Reckoning'
  <2>1. PatchReckons(e)'
    BY <1>2, <1>3, <1>4 DEF PatchReckons
  <2>2. \A o \in Editors : o # e => PatchReckons(o)'
    BY <1>2, <1>4 DEF ScanInv, Reckoning, PatchReckons, cadence
  <2>3. \A s \in Scanners : ScanReckons(s)'
    BY <1>2 DEF ScanInv, Reckoning, ScanReckons, cadence
  <2> QED
    BY <2>1, <2>2, <2>3 DEF Reckoning
<1> QED
  BY <1>2, <1>5, <1>6 DEF ScanInv, LocalsOK, LocalOK, Whole, NextRunFitsCadence, cadence

LEMMA WriteKeeps ==
  ASSUME ScanInv, NEW e \in Editors, WriteRule(e)
  PROVE  ScanInv'
<1> DEFINE c == patch[e].change
           new == Merge(c, rule.edition)
<1>1. /\ c \in Change /\ patch[e].period \in 1 .. MaxPeriod /\ patch[e].age \in 0 .. MaxPeriod
      /\ rule.edition \in Edition /\ patch[e].pc = "write"
      /\ IF "period" \in c.fields THEN patch[e].period = c.to.period
         ELSE e \notin overtaken => patch[e].period = rule.edition.period
  BY DEF WriteRule, ScanInv, TypeOK, PatchState, Reckoning, PatchReckons
<1>2. /\ new \in Edition
      /\ new.period = IF "period" \in c.fields THEN c.to.period ELSE rule.edition.period
  BY <1>1, MergeIsEdition
<1>3. PICK next \in NextRun(patch[e].period, patch[e].age) : rule' = [edition |-> new, next |-> next]
  BY DEF WriteRule
<1>4. next \in 0 .. MaxPeriod /\ next <= patch[e].period
  BY <1>1, <1>3, NextRunInPeriod
<1>5. /\ patch' = [patch EXCEPT ![e] = IdlePatch]
      /\ stale' = (e \in overtaken /\ "period" \notin c.fields)
      /\ overtaken' = (IF new.period = rule.edition.period THEN overtaken ELSE Busy) \ {e}
      /\ UNCHANGED <<env, logged, running, scan, bounds, handling>>
  BY DEF WriteRule
<1> HIDE DEF c, new
<1>6. /\ rule' \in [edition : Edition, next : 0 .. MaxPeriod]
      /\ rule'.edition = new /\ rule'.next = next
  BY <1>2, <1>3, <1>4
<1>7. NextRunFitsCadence'
  BY <1>1, <1>2, <1>4, <1>5, <1>6 DEF NextRunFitsCadence
<1>8. /\ patch' \in [Editors -> PatchState] /\ patch'[e].pc = "idle"
      /\ \A o \in Editors : o # e => patch'[o] = patch[o]
  <2>1. IdlePatch \in PatchState /\ IdlePatch.pc = "idle"
    BY ScanAssumption DEF IdlePatch, PatchState
  <2> QED
    BY <1>5, <2>1 DEF ScanInv, TypeOK
<1>9. TypeOK'
  <2>1. overtaken' \in SUBSET (Scanners \cup Editors) /\ stale' \in BOOLEAN
    BY <1>5 DEF ScanInv, TypeOK, Busy
  <2> QED
    BY <1>5, <1>6, <1>8, <2>1 DEF ScanInv, TypeOK, env, bounds, handling
<1>10. Reckoning'
  <2>1. CASE new.period = rule.edition.period
    <3>1. /\ \A s \in Scanners : s \notin overtaken' => s \notin overtaken
          /\ \A o \in Editors : o # e /\ o \notin overtaken' => o \notin overtaken
      BY <1>5, <2>1, ScanAssumption
    <3>2. \A s \in Scanners : ScanReckons(s)'
      BY <1>5, <1>6, <2>1, <3>1 DEF ScanInv, Reckoning, ScanReckons
    <3>3. \A o \in Editors : PatchReckons(o)'
      BY <1>6, <1>8, <2>1, <3>1 DEF ScanInv, Reckoning, PatchReckons
    <3> QED
      BY <3>2, <3>3 DEF Reckoning
  <2>2. CASE new.period # rule.edition.period
    <3>1. /\ \A s \in Scanners : scan[s].pc # "idle" => s \in overtaken'
          /\ \A o \in Editors : o # e /\ patch[o].pc = "write" => o \in overtaken'
      BY <1>5, <2>2, ScanAssumption DEF Busy
    <3>2. \A s \in Scanners : ScanReckons(s)'
      BY <1>5, <3>1 DEF ScanReckons
    <3>3. \A o \in Editors : PatchReckons(o)'
      BY <1>8, <3>1 DEF ScanInv, Reckoning, PatchReckons
    <3> QED
      BY <3>2, <3>3 DEF Reckoning
  <2> QED
    BY <2>1, <2>2
<1> QED
  BY <1>5, <1>7, <1>9, <1>10 DEF ScanInv, LocalsOK, LocalOK, Whole

LEMMA StepKeepsScanInv == ScanInv /\ [Next]_vars => ScanInv'
<1> SUFFICES ASSUME ScanInv, [Next]_vars PROVE ScanInv'
  OBVIOUS
<1>1. CASE UNCHANGED <<rule, logged, scan, patch, bounds, handling, cadence>>
           /\ matching' \in SUBSET Records /\ healthy' \in BOOLEAN /\ running' \in SUBSET Records
  BY <1>1 DEF ScanInv, TypeOK, bounds, handling, cadence, LocalsOK, LocalOK, Whole,
              NextRunFitsCadence, Reckoning, ScanReckons, PatchReckons
<1>2. CASE \/ UNCHANGED vars \/ OutageBeginsOrEnds
           \/ \E r \in Records : RecordChanges(r) \/ RunEnds(r)
  BY <1>1, <1>2 DEF vars, env, ScanInv, TypeOK, OutageBeginsOrEnds, RecordChanges, RunEnds
<1> QED
  BY <1>2, TickKeeps, ReadKeeps, WriteKeeps, ScanStepKeeps DEF Next

LEMMA ScanInvariant == Spec => []ScanInv
BY InitScanInv, StepKeepsScanInv, PTL DEF Spec

(* The rule row, the log and every scan keep their types.                  *)
THEOREM ScanTypeCorrect == Spec => []TypeOK
<1>1. ScanInv => TypeOK
  BY DEF ScanInv
<1> QED
  BY <1>1, ScanInvariant, PTL

(* However many records match and whatever the cap, a rule acts on all of  *)
(* its matches or on none.                                                 *)
THEOREM ActsOnAllOrNone == Spec => []AllMatchesOrNone
<1>1. ScanInv => AllMatchesOrNone
  BY DEF ScanInv, LocalsOK, Whole, AllMatchesOrNone
<1> QED
  BY <1>1, ScanInvariant, PTL

(* However edits and scans overlap, the next run lies within a period of   *)
(* the rule's schedule, unless its last writer was overtaken by an edit.   *)
THEOREM CadenceKept == Spec => []NextRunFitsCadence
<1>1. ScanInv => NextRunFitsCadence
  BY DEF ScanInv
<1> QED
  BY <1>1, ScanInvariant, PTL

-----------------------------------------------------------------------------
(* Repeats, with one scanner: what acted last on a record is in the log by *)
(* the time the record is looked at again, or the scan is about to log it, *)
(* or a fault got in between; and each fault does so for one record.       *)

OneScanner == \A s, t \in Scanners : s = t

ToBeLogged(s, r) == scan[s].pc = "log" /\ r = Current(s)

Unlogged ==
  {r \in Records :
     /\ acted[r] # None /\ r \notin byRun
     /\ ~ (logged[r] # None /\ logged[r] <= acted[r])
     /\ ~ \E s \in Scanners : ToBeLogged(s, r) /\ scan[s].ok}

UnhandledTargets(s) ==
  scan[s].pc \in {"act", "log"} =>
    \A r \in scan[s].targets : ToBeLogged(s, r) \/ ~ Handled(scan[s].rule.repeat, r)

SpacedInv ==
  /\ early + Cardinality(Unlogged) <= faults
  /\ \A s \in Scanners : UnhandledTargets(s)

LEMMA SetsOfRecords ==
  ASSUME NEW U \in SUBSET Records, NEW V \in SUBSET Records
  PROVE  /\ Cardinality(U) \in Nat /\ Cardinality(V) \in Nat
         /\ V \subseteq U => Cardinality(V) <= Cardinality(U)
         /\ \A r \in Records :
              /\ r \in U /\ V \subseteq U \ {r} => Cardinality(V) + 1 <= Cardinality(U)
              /\ V \subseteq U \cup {r} => Cardinality(V) <= Cardinality(U) + 1
<1>1. IsFiniteSet(U) /\ IsFiniteSet(V)
  BY ScanAssumption, FS_Subset
<1>2. /\ Cardinality(U) \in Nat /\ Cardinality(V) \in Nat
      /\ V \subseteq U => Cardinality(V) <= Cardinality(U)
  BY <1>1, FS_CardinalityType, FS_Subset
<1>3. ASSUME NEW r \in Records, r \in U, V \subseteq U \ {r}
      PROVE  Cardinality(V) + 1 <= Cardinality(U)
  <2>1. IsFiniteSet(U \ {r}) /\ Cardinality(U \ {r}) = Cardinality(U) - 1
    BY <1>1, <1>3, FS_RemoveElement
  <2>2. Cardinality(V) <= Cardinality(U \ {r})
    BY <1>3, <2>1, FS_Subset
  <2> QED
    BY <1>2, <2>1, <2>2
<1>4. ASSUME NEW r \in Records, V \subseteq U \cup {r}
      PROVE  Cardinality(V) <= Cardinality(U) + 1
  <2>1. /\ IsFiniteSet(U \cup {r})
        /\ Cardinality(U \cup {r}) = IF r \in U THEN Cardinality(U) ELSE Cardinality(U) + 1
    BY <1>1, FS_AddElement
  <2>2. Cardinality(V) <= Cardinality(U \cup {r})
    BY <1>4, <2>1, FS_Subset
  <2> QED
    BY <1>2, <2>1, <2>2
<1> QED
  BY <1>2, <1>3, <1>4

LEMMA InitSpacedInv == Init => SpacedInv
<1> SUFFICES ASSUME Init PROVE SpacedInv
  OBVIOUS
<1>1. Unlogged = {} /\ early = 0 /\ faults = 0
  BY DEF Init, Unlogged
<1>2. \A s \in Scanners : UnhandledTargets(s)
  BY DEF Init, UnhandledTargets, IdleScan
<1> QED
  BY <1>1, <1>2, FS_EmptySet DEF SpacedInv

(* A record a scan is at that counts as acted on too early is unlogged.    *)
LEMMA TooEarlyIsUnlogged ==
  ASSUME ScanInv, SpacedInv, OneScanner, NEW s \in Scanners, scan[s].pc = "act",
         NEW r \in scan[s].targets, r \notin byRun, TooEarly(scan[s].rule.repeat, acted[r])
  PROVE  r \in Unlogged
<1>1. /\ r \in Records /\ logged[r] \in Nat \cup {None} /\ acted[r] \in Nat \cup {None}
      /\ scan[s].rule \in Edition /\ Cooldown \in Nat /\ None \notin Nat
  BY ScanAssumption DEF ScanInv, LocalsOK, LocalOK, TypeOK, ScanState, Ages
<1>2. ~ Handled(scan[s].rule.repeat, r)
  BY DEF SpacedInv, UnhandledTargets, ToBeLogged
<1>3. acted[r] # None /\ ~ (logged[r] # None /\ logged[r] <= acted[r])
  BY <1>1, <1>2 DEF Handled, TooEarly, Edition
<1> QED
  BY <1>1, <1>3 DEF Unlogged, OneScanner, ToBeLogged

(* The scanner turns from something else than logging to something else.   *)
LEMMA SpacedMove ==
  ASSUME ScanInv, SpacedInv, OneScanner, NEW s \in Scanners,
         scan[s].pc # "log", scan'[s].pc # "log",
         scan'[s].pc = "act" =>
           \A r \in scan'[s].targets : ~ Handled(scan'[s].rule.repeat, r),
         UNCHANGED <<logged, faults, handling>>
  PROVE  SpacedInv'
<1>1. Unlogged' = Unlogged
  BY DEF Unlogged, OneScanner, ToBeLogged, handling
<1>2. UnhandledTargets(s)'
  BY DEF UnhandledTargets, Handled
<1> QED
  BY <1>1, <1>2 DEF SpacedInv, OneScanner, handling

(* An execution is counted for a record that was unlogged and no more is.  *)
LEMMA ExecuteCounts ==
  ASSUME ScanInv, SpacedInv, OneScanner, NEW s \in Scanners, scan[s].pc = "act",
         scan[s].targets # {}, NEW throughRun \in BOOLEAN, Execute(s, Current(s), throughRun),
         UNCHANGED <<logged, faults>>,
         throughRun \/ (scan'[s].pc = "log" /\ Current(s)' = Current(s) /\ scan'[s].ok)
  PROVE  early' + Cardinality(Unlogged') <= faults'
<1>1. /\ Current(s) \in scan[s].targets /\ Current(s) \in Records /\ TypeOK
  BY CurrentIsTarget DEF ScanInv
<1>2. Current(s) \notin Unlogged'
  <2>1. CASE throughRun
    BY <1>1, <2>1 DEF Unlogged, Execute
  <2>2. CASE scan'[s].pc = "log" /\ Current(s)' = Current(s) /\ scan'[s].ok
    BY <2>2 DEF Unlogged, ToBeLogged
  <2> QED
    BY <2>1, <2>2
<1>3. ASSUME NEW r \in Unlogged', r # Current(s) PROVE r \in Unlogged
  <2>1. r \in Records /\ acted'[r] = acted[r] /\ (r \in byRun' <=> r \in byRun)
    BY <1>1, <1>3 DEF Unlogged, Execute, TypeOK
  <2> QED
    BY <1>3, <2>1 DEF Unlogged, OneScanner, ToBeLogged
<1>4. Unlogged' \subseteq Unlogged \ {Current(s)}
  BY <1>2, <1>3
<1>5. /\ Unlogged \in SUBSET Records /\ Unlogged' \in SUBSET Records
      /\ early \in Nat /\ faults \in Nat /\ early + Cardinality(Unlogged) <= faults
  BY <1>1 DEF Unlogged, TypeOK, SpacedInv
<1>6. Cardinality(Unlogged) \in Nat /\ Cardinality(Unlogged') \in Nat
      /\ Cardinality(Unlogged') <= Cardinality(Unlogged)
  BY <1>4, <1>5, SetsOfRecords
<1>7. CASE Current(s) \notin byRun /\ TooEarly(scan[s].rule.repeat, acted[Current(s)])
  <2>1. Current(s) \in Unlogged
    BY <1>1, <1>7, TooEarlyIsUnlogged
  <2>2. Cardinality(Unlogged') + 1 <= Cardinality(Unlogged)
    BY <1>1, <1>4, <1>5, <2>1, SetsOfRecords
  <2>3. early' = early + 1
    BY <1>7 DEF Execute
  <2> QED
    BY <1>5, <1>6, <2>2, <2>3
<1>8. CASE ~ (Current(s) \notin byRun /\ TooEarly(scan[s].rule.repeat, acted[Current(s)]))
  <2>1. early' = early
    BY <1>8 DEF Execute
  <2> QED
    BY <1>5, <1>6, <2>1
<1> QED
  BY <1>7, <1>8

LEMMA ActKeepsSpaced ==
  ASSUME ScanInv, SpacedInv, OneScanner, NEW s \in Scanners, Act(s)
  PROVE  SpacedInv'
<1>1. /\ scan[s].pc = "act" /\ scan[s].targets # {} /\ TypeOK
      /\ UNCHANGED <<logged, faults>> /\ scan[s] \in ScanState
  BY DEF Act, AtRecord, ScanInv, TypeOK, bounds
<1>2. PICK ok \in BOOLEAN :
        /\ Become(s, [scan[s] EXCEPT !.pc = "log", !.ok = ok])
        /\ ok => Execute(s, Current(s), FALSE)
        /\ ~ ok => UNCHANGED handling
  BY DEF Act
<1>3. /\ scan'[s] = [scan[s] EXCEPT !.pc = "log", !.ok = ok]
      /\ scan'[s].pc = "log" /\ scan'[s].ok = ok /\ scan'[s].targets = scan[s].targets
      /\ scan'[s].rule = scan[s].rule
  BY <1>1, <1>2 DEF Become, TypeOK, ScanState
<1>4. Current(s)' = Current(s) /\ ToBeLogged(s, Current(s))'
  BY <1>3 DEF Current, ToBeLogged
<1>5. UnhandledTargets(s)'
  BY <1>1, <1>3, <1>4 DEF SpacedInv, UnhandledTargets, ToBeLogged, Handled
<1>6. early' + Cardinality(Unlogged') <= faults'
  <2>1. CASE ok
    BY <1>1, <1>2, <1>3, <1>4, <2>1, ExecuteCounts
  <2>2. CASE ~ ok
    <3>1. Unlogged' = Unlogged
      BY <1>1, <1>2, <1>3, <2>2 DEF Unlogged, OneScanner, ToBeLogged, handling
    <3> QED
      BY <1>1, <1>2, <2>2, <3>1 DEF SpacedInv, handling
  <2> QED
    BY <2>1, <2>2
<1> QED
  BY <1>5, <1>6 DEF SpacedInv, OneScanner

LEMMA StartRunKeepsSpaced ==
  ASSUME ScanInv, SpacedInv, OneScanner, NEW s \in Scanners, StartRun(s)
  PROVE  SpacedInv'
<1>1. /\ scan[s].pc = "act" /\ scan[s].targets # {} /\ TypeOK /\ scan[s] \in ScanState
      /\ UNCHANGED <<logged, faults>>
      /\ UNCHANGED handling \/ Execute(s, Current(s), TRUE)
  BY DEF StartRun, AtRecord, ScanInv, TypeOK, bounds
<1>2. /\ scan'[s].pc = "act" /\ scan'[s].rule = scan[s].rule
      /\ scan'[s].targets \subseteq scan[s].targets
  BY <1>1 DEF StartRun, Become, TypeOK, ScanState
<1>3. \A r \in scan'[s].targets : ~ Handled(scan'[s].rule.repeat, r)
  BY <1>1, <1>2 DEF SpacedInv, UnhandledTargets, ToBeLogged
<1>4. CASE UNCHANGED handling
  BY <1>1, <1>2, <1>3, <1>4, SpacedMove
<1>5. CASE Execute(s, Current(s), TRUE)
  <2>1. early' + Cardinality(Unlogged') <= faults'
    BY <1>1, <1>5, ExecuteCounts
  <2>2. UnhandledTargets(s)'
    BY <1>1, <1>3 DEF UnhandledTargets, Handled
  <2> QED
    BY <2>1, <2>2 DEF SpacedInv, OneScanner
<1> QED
  BY <1>1, <1>4, <1>5

LEMMA LogKeepsSpaced ==
  ASSUME ScanInv, SpacedInv, OneScanner, NEW s \in Scanners, LogExecution(s)
  PROVE  SpacedInv'
<1>1. /\ scan[s].pc = "log" /\ Current(s) \in scan[s].targets /\ Current(s) \in Records
      /\ UNCHANGED <<handling, faults>> /\ TypeOK /\ scan[s] \in ScanState
      /\ logged' = [logged EXCEPT ![Current(s)] = IF scan[s].ok THEN 0 ELSE @]
      /\ scan' = [scan EXCEPT ![s] = [scan[s] EXCEPT !.pc = "act",
                                        !.targets = @ \ {Current(s)}, !.ok = FALSE]]
  BY CurrentIsTarget DEF LogExecution, ScanInv, LocalsOK, LocalOK, TypeOK, bounds, Become
<1>2. /\ scan'[s].pc = "act" /\ scan'[s].rule = scan[s].rule
      /\ scan'[s].targets = scan[s].targets \ {Current(s)}
  BY <1>1 DEF TypeOK, ScanState
<1>3. /\ \A r \in Records : r # Current(s) => logged'[r] = logged[r]
      /\ logged'[Current(s)] = IF scan[s].ok THEN 0 ELSE logged[Current(s)]
  BY <1>1 DEF TypeOK
<1>4. Unlogged' \subseteq Unlogged
  <2> SUFFICES ASSUME NEW r \in Unlogged' PROVE r \in Unlogged
    OBVIOUS
  <2>1. /\ r \in Records /\ acted[r] # None /\ r \notin byRun
        /\ ~ (logged'[r] # None /\ logged'[r] <= acted[r])
    BY <1>1 DEF Unlogged, handling
  <2>2. acted[r] \in Nat /\ None \notin Nat
    BY <1>1, <2>1, ScanAssumption DEF TypeOK, Ages
  <2>3. ~ (r = Current(s) /\ scan[s].ok)
    BY <1>3, <2>1, <2>2
  <2>4. logged'[r] = logged[r]
    BY <1>3, <2>1, <2>3
  <2> QED
    BY <2>1, <2>3, <2>4 DEF Unlogged, OneScanner, ToBeLogged
<1>5. UnhandledTargets(s)'
  <2> SUFFICES ASSUME NEW r \in scan'[s].targets PROVE ~ Handled(scan[s].rule.repeat, r)'
    BY DEF UnhandledTargets
  <2>1. r \in Records /\ r \in scan[s].targets /\ r # Current(s)
    BY <1>1, <1>2 DEF ScanState
  <2>2. ~ Handled(scan[s].rule.repeat, r)
    BY <1>1, <2>1 DEF SpacedInv, UnhandledTargets, ToBeLogged
  <2> QED
    BY <1>2, <1>3, <2>1, <2>2 DEF Handled
<1>6. early' + Cardinality(Unlogged') <= faults'
  <2>1. Unlogged \in SUBSET Records /\ Unlogged' \in SUBSET Records
    BY DEF Unlogged
  <2>2. /\ Cardinality(Unlogged) \in Nat /\ Cardinality(Unlogged') \in Nat
        /\ Cardinality(Unlogged') <= Cardinality(Unlogged)
    BY <1>4, <2>1, SetsOfRecords
  <2> QED
    BY <1>1, <2>2 DEF SpacedInv, TypeOK, handling
<1> QED
  BY <1>5, <1>6 DEF SpacedInv, OneScanner

(* What a crash or a failing query loses is at most one row of the log.    *)
LEMMA FaultKeepsSpaced ==
  ASSUME ScanInv, SpacedInv, OneScanner, NEW s \in Scanners, QueryFails(s) \/ Crash(s)
  PROVE  SpacedInv'
<1>1. /\ scan[s].pc # "idle" /\ faults' = faults + 1 /\ TypeOK
      /\ UNCHANGED <<logged, handling>>
      /\ Become(s, ToFinish(s)) \/ Become(s, IdleScan)
  BY DEF QueryFails, Crash, ScanInv
<1>2. scan'[s].pc \in {"idle", "finish"}
  <2>1. CASE Become(s, ToFinish(s))
    BY <1>1, <2>1 DEF Become, ToFinish, IdleScan, TypeOK
  <2>2. CASE Become(s, IdleScan)
    BY <1>1, <2>2 DEF Become, IdleScan, TypeOK
  <2> QED
    BY <1>1, <2>1, <2>2
<1>3. Unlogged \in SUBSET Records /\ Unlogged' \in SUBSET Records
  BY DEF Unlogged
<1>4. UnhandledTargets(s)'
  BY <1>2 DEF UnhandledTargets
<1>5. CASE scan[s].pc = "log"
  <2>1. Current(s) \in Records
    BY <1>5, CurrentIsTarget DEF ScanInv, LocalsOK, LocalOK
  <2>2. Unlogged' \subseteq Unlogged \cup {Current(s)}
    BY <1>1 DEF Unlogged, OneScanner, ToBeLogged, handling
  <2>3. /\ Cardinality(Unlogged) \in Nat /\ Cardinality(Unlogged') \in Nat
        /\ Cardinality(Unlogged') <= Cardinality(Unlogged) + 1
    BY <1>3, <2>1, <2>2, SetsOfRecords
  <2> QED
    BY <1>1, <1>4, <2>3 DEF SpacedInv, OneScanner, TypeOK, handling
<1>6. CASE scan[s].pc # "log"
  <2>1. Unlogged' = Unlogged
    BY <1>1, <1>2, <1>6 DEF Unlogged, OneScanner, ToBeLogged, handling
  <2>2. Cardinality(Unlogged) \in Nat
    BY <1>3, SetsOfRecords
  <2> QED
    BY <1>1, <1>4, <2>1, <2>2 DEF SpacedInv, OneScanner, TypeOK, handling
<1> QED
  BY <1>5, <1>6

LEMMA TickKeepsSpaced ==
  ASSUME ScanInv, SpacedInv, Tick
  PROVE  SpacedInv'
<1>1. TypeOK /\ UNCHANGED <<byRun, early, faults>>
  BY DEF Tick, ScanInv, bounds
<1>2. ASSUME NEW s \in Scanners
      PROVE  /\ scan'[s].pc = scan[s].pc /\ scan'[s].rule = scan[s].rule
             /\ scan'[s].targets = scan[s].targets /\ scan'[s].ok = scan[s].ok
  BY <1>1, AgedLocals DEF Tick, TypeOK
<1>3. ASSUME NEW r \in Records
      PROVE  /\ logged'[r] = Older(logged[r]) /\ acted'[r] = Older(acted[r])
             /\ logged[r] \in Ages \cup {None} /\ acted[r] \in Ages \cup {None}
  BY <1>1 DEF Tick, TypeOK
<1>4. \A s \in Scanners, r \in Records : ToBeLogged(s, r)' = ToBeLogged(s, r)
  BY <1>2 DEF ToBeLogged, Current
<1>5. Unlogged' \subseteq Unlogged
  <2> SUFFICES ASSUME NEW r \in Unlogged' PROVE r \in Unlogged
    OBVIOUS
  <2>1. /\ r \in Records /\ acted'[r] # None /\ r \notin byRun
        /\ ~ (logged'[r] # None /\ logged'[r] <= acted'[r])
        /\ ~ \E s \in Scanners : ToBeLogged(s, r) /\ scan[s].ok
    BY <1>1, <1>2, <1>4 DEF Unlogged
  <2>2. acted[r] # None /\ acted[r] \in Ages
    BY <1>3, <2>1, OlderIsAge
  <2>3. ASSUME logged[r] # None, logged[r] <= acted[r] PROVE FALSE
    <3>1. Older(logged[r]) # None /\ Older(logged[r]) <= Older(acted[r])
      BY <1>3, <2>1, <2>2, <2>3, OlderIsAge
    <3> QED
      BY <1>3, <2>1, <3>1
  <2> QED
    BY <2>1, <2>2, <2>3 DEF Unlogged
<1>6. ASSUME NEW s \in Scanners PROVE UnhandledTargets(s)'
  <2> SUFFICES ASSUME scan[s].pc \in {"act", "log"}, NEW r \in scan[s].targets
               PROVE  ToBeLogged(s, r)' \/ ~ Handled(scan[s].rule.repeat, r)'
    BY <1>2 DEF UnhandledTargets
  <2>1. r \in Records
    BY <1>1 DEF TypeOK, ScanState
  <2>2. CASE ToBeLogged(s, r)
    BY <1>4, <2>1, <2>2
  <2>3. CASE ~ Handled(scan[s].rule.repeat, r)
    <3>1. logged[r] # None => /\ Older(logged[r]) >= logged[r]
                              /\ logged[r] \in Nat /\ Older(logged[r]) \in Nat
      BY <1>3, <2>1, OlderIsAge, ScanAssumption DEF Ages
    <3>2. logged[r] = None <=> Older(logged[r]) = None
      BY <1>3, <2>1, OlderIsAge
    <3> QED
      BY <1>2, <1>3, <2>1, <2>3, <3>1, <3>2, ScanAssumption DEF Handled
  <2> QED
    BY <2>2, <2>3 DEF SpacedInv, UnhandledTargets
<1>7. early' + Cardinality(Unlogged') <= faults'
  <2>1. Unlogged \in SUBSET Records /\ Unlogged' \in SUBSET Records
    BY DEF Unlogged
  <2>2. /\ Cardinality(Unlogged) \in Nat /\ Cardinality(Unlogged') \in Nat
        /\ Cardinality(Unlogged') <= Cardinality(Unlogged)
    BY <1>5, <2>1, SetsOfRecords
  <2> QED
    BY <1>1, <2>2 DEF SpacedInv, TypeOK
<1> QED
  BY <1>6, <1>7 DEF SpacedInv

LEMMA StepKeepsSpaced ==
  ASSUME OneScanner, ScanInv, SpacedInv, [Next]_vars
  PROVE  SpacedInv'
<1> DEFINE Elsewhere == UNCHANGED <<logged, scan, faults, handling>>
<1>1. CASE Elsewhere
  <2>1. Unlogged' = Unlogged
    BY <1>1 DEF Unlogged, ToBeLogged, Current, handling
  <2>2. \A s \in Scanners : UnhandledTargets(s)'
    BY <1>1 DEF SpacedInv, UnhandledTargets, ToBeLogged, Current, Handled
  <2> QED
    BY <1>1, <2>1, <2>2 DEF SpacedInv, handling
<1>2. CASE \/ UNCHANGED vars \/ OutageBeginsOrEnds
           \/ (\E e \in Editors : ReadRule(e) \/ WriteRule(e))
           \/ \E r \in Records : RecordChanges(r) \/ RunEnds(r)
  <2>1. Elsewhere
    BY <1>2 DEF vars, bounds, OutageBeginsOrEnds, ReadRule, WriteRule, RecordChanges, RunEnds
  <2> QED
    BY <1>1, <2>1
<1>3. ASSUME NEW s \in Scanners, StartScan(s) \/ Match(s) \/ AllDone(s) \/ Finish(s)
      PROVE  SpacedInv'
  <2>1. scan[s].pc # "log" /\ UNCHANGED <<logged, faults, handling>>
    BY <1>3 DEF StartScan, Match, AllDone, Finish, bounds
  <2>2. scan'[s].pc \in {"match", "finish", "exclude", "idle"}
    <3>1. scan \in [Scanners -> ScanState]
      BY DEF ScanInv, TypeOK
    <3>3. CASE StartScan(s)
      <4>1. scan'[s] = [IdleScan EXCEPT !.pc = "match", !.rule = rule.edition]
        BY <3>1, <3>3 DEF StartScan, Become
      <4> QED
        BY <4>1 DEF IdleScan
    <3>4. CASE Match(s)
      <4>1. CASE Become(s, ToFinish(s))
        BY <3>1, <4>1 DEF Become, ToFinish, IdleScan
      <4>2. CASE Become(s, [scan[s] EXCEPT !.pc = "exclude", !.matched = matching,
                                          !.candidates = Oldest(Cap + 1)])
        BY <3>1, <4>2 DEF Become, ScanState
      <4> QED
        BY <3>4, <4>1, <4>2 DEF Match
    <3>5. CASE AllDone(s)
      BY <3>1, <3>5 DEF AllDone, Become, ToFinish, IdleScan
    <3>6. CASE Finish(s)
      BY <3>1, <3>6 DEF Finish, Become, IdleScan
    <3> QED
      BY <1>3, <3>3, <3>4, <3>5, <3>6
  <2> QED
    BY <2>1, <2>2, SpacedMove
<1>4. ASSUME NEW s \in Scanners, Exclude(s) PROVE SpacedInv'
  <2>1. /\ scan[s].pc = "exclude" /\ UNCHANGED <<logged, faults, handling>>
        /\ scan'[s].pc = "act" /\ scan'[s].rule = scan[s].rule
        /\ scan'[s].targets = {r \in scan[s].candidates : ~ Handled(scan[s].rule.repeat, r)}
    BY <1>4 DEF Exclude, Become, bounds, ScanInv, TypeOK, ScanState
  <2>2. \A r \in scan'[s].targets : ~ Handled(scan'[s].rule.repeat, r)
    BY <2>1
  <2> QED
    BY <2>1, <2>2, SpacedMove
<1> QED
  BY <1>2, <1>3, <1>4, ActKeepsSpaced, StartRunKeepsSpaced, LogKeepsSpaced, FaultKeepsSpaced,
     TickKeepsSpaced
  DEF Next, ScanStep

(* One scanner acts on no record again before the rule's repeat allows,    *)
(* after an execution that is to be logged, but for once per crash or      *)
(* failing query, whatever is edited and however long a scan takes.        *)
THEOREM RepeatsAreSpaced == ASSUME OneScanner PROVE Spec => []RepeatsSpaced
<1>1. ScanInv /\ SpacedInv /\ [Next]_vars => SpacedInv'
  BY StepKeepsSpaced
<1>2. ScanInv /\ SpacedInv => RepeatsSpaced
  <2>1. Unlogged \in SUBSET Records
    BY DEF Unlogged
  <2>2. Cardinality(Unlogged) \in Nat
    BY <2>1, SetsOfRecords
  <2> QED
    BY <2>2 DEF ScanInv, TypeOK, SpacedInv, RepeatsSpaced
<1> QED
  BY <1>1, <1>2, InitSpacedInv, ScanInvariant, PTL DEF Spec

=============================================================================
