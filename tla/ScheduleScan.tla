---------------------------- MODULE ScheduleScan ----------------------------
(***************************************************************************)
(* The scheduled automation scan (schedule-scan.job.ts): a repeating job   *)
(* finds the rules that are due, matches records, drops those already      *)
(* handled, acts on the rest one by one and computes the next due time.    *)
(*                                                                         *)
(* One rule of one tenant; the scan handles rules one after the other and  *)
(* catches the errors of each.  Times are relative: the distance to the    *)
(* next due time, and the age of what is in the log.  A cron expression is *)
(* its period, the longest gap between two of its firings; where in the    *)
(* period a scan falls is left open.                                       *)
(***************************************************************************)
EXTENDS Naturals, FiniteSets, FiniteSetsExt

CONSTANTS
  Records,      \* the records of the rule's type, numbered by createdAt
  Published,    \* the edition the rule starts with
  Changes,      \* bodies of PATCH /automation-rules/:id
  Editors,      \* requests to change the rule that are handled at once
  Scanners,     \* consumers of the automation-schedule queue
  Cap,          \* maxEntitiesPerRun
  Cooldown,     \* cooldownHours, in ticks
  MaxPeriod,    \* bound: the longest period of a schedule
  MaxEdits,     \* bound: edits of the rule
  MaxFaults,    \* bound: crashes and failing queries
  None          \* a null column

Edition == [steps : BOOLEAN, repeat : {"ONCE_PER_RECORD", "EVERY_RUN", "COOLDOWN"},
            period : 1 .. MaxPeriod, on : BOOLEAN]

(* A body gives some fields of the rule a value and leaves out the others. *)
Change == [fields : SUBSET {"steps", "repeat", "period", "on"}, to : Edition]

ASSUME ScanAssumption ==
  /\ IsFiniteSet(Records) /\ Records \subseteq Nat
  /\ Published \in Edition /\ Changes \subseteq Change
  /\ Scanners \cap Editors = {}
  /\ Cap \in Nat \ {0} /\ Cooldown \in Nat /\ MaxPeriod \in Nat \ {0}
  /\ MaxEdits \in Nat /\ MaxFaults \in Nat
  /\ None \notin Nat

VARIABLES
  rule,       \* the row of automation_rules: its edition and nextRunAt
  matching,   \* records that satisfy the rule's conditions
  healthy,    \* whether actions work (the mail server is up)
  logged,     \* age of the newest SUCCESS or PARTIAL_FAILURE log row per record
  running,    \* records with an active run of the rule (WorkflowEngine)
  scan,       \* what each consumer is doing
  patch,      \* what each request is doing
  edits, faults,
  acted,      \* history: age of the last execution that took effect
  byRun,      \* history: records whose last execution was the start of a run
  early,      \* history: executions sooner after one that was to be logged
              \*          than the rule's repeat allows
  overtaken,  \* history: who read a schedule that was replaced since
  stale       \* history: one of those was the last to write nextRunAt

env      == <<matching, healthy>>
bounds   == <<edits, faults>>
handling == <<acted, byRun, early>>
cadence  == <<overtaken, stale>>
vars == <<rule, env, logged, running, scan, patch, bounds, handling, cadence>>

Ages == 0 .. Cooldown + 1
Older(age) == IF age = None \/ age = Cooldown + 1 THEN age ELSE age + 1

IdleScan == [pc |-> "idle", rule |-> None, age |-> 0, candidates |-> {},
             targets |-> {}, ok |-> FALSE, matched |-> {}]
IdlePatch == [pc |-> "idle", change |-> None, period |-> None, age |-> 0]

Init ==
  /\ \E next \in 1 .. Published.period : rule = [edition |-> Published, next |-> next]
  /\ matching \in SUBSET Records
  /\ healthy \in BOOLEAN
  /\ logged = [r \in Records |-> None]
  /\ running = {}
  /\ scan = [s \in Scanners |-> IdleScan]
  /\ patch = [e \in Editors |-> IdlePatch]
  /\ edits = 0 /\ faults = 0
  /\ acted = [r \in Records |-> None]
  /\ byRun = {} /\ early = 0
  /\ overtaken = {} /\ stale = FALSE

-----------------------------------------------------------------------------
(* The surroundings: time, records, the outside world, administrators.     *)

Aged(local) == IF local.pc = "idle" \/ local.age = MaxPeriod
               THEN local ELSE [local EXCEPT !.age = @ + 1]

Tick ==
  /\ rule' = [rule EXCEPT !.next = IF @ = 0 THEN 0 ELSE @ - 1]
  /\ logged' = [r \in Records |-> Older(logged[r])]
  /\ acted' = [r \in Records |-> Older(acted[r])]
  /\ scan' = [s \in Scanners |-> Aged(scan[s])]
  /\ patch' = [e \in Editors |-> Aged(patch[e])]
  /\ UNCHANGED <<env, running, bounds, byRun, early, cadence>>

RecordChanges(r) ==
  /\ matching' = IF r \in matching THEN matching \ {r} ELSE matching \cup {r}
  /\ UNCHANGED <<rule, healthy, logged, running, scan, patch, bounds, handling, cadence>>

OutageBeginsOrEnds ==
  /\ healthy' = ~ healthy
  /\ UNCHANGED <<rule, matching, logged, running, scan, patch, bounds, handling, cadence>>

RunEnds(r) ==
  /\ r \in running
  /\ running' = running \ {r}
  /\ UNCHANGED <<rule, env, logged, scan, patch, bounds, handling, cadence>>

(* Fault: the iterator is advanced twice.                                  *)
SecondNextRun(period, age) ==
  {IF d > age THEN d - age ELSE 0 : d \in period + 1 .. 2 * period}

(* The first firing strictly after a moment that lies age ticks back; a    *)
(* firing already past is due at once.                                     *)
NextRun(period, age) == {IF d > age THEN d - age ELSE 0 : d \in 1 .. period}

-----------------------------------------------------------------------------
(* PATCH /automation-rules/:id: findUnique, validation of the rule as it   *)
(* will be, and an update of the fields the body gives; two transactions.  *)

Merge(c, e) ==
  [steps  |-> IF "steps" \in c.fields THEN c.to.steps ELSE e.steps,
   repeat |-> IF "repeat" \in c.fields THEN c.to.repeat ELSE e.repeat,
   period |-> IF "period" \in c.fields THEN c.to.period ELSE e.period,
   on     |-> IF "on" \in c.fields THEN c.to.on ELSE e.on]

(* The next run is computed here, from the schedule given or the one read. *)
ReadRule(e) ==
  /\ edits < MaxEdits /\ patch[e].pc = "idle"
  /\ \E c \in Changes :
       patch' = [patch EXCEPT ![e] = [pc |-> "write", change |-> c, age |-> 0,
                                      period |-> Merge(c, rule.edition).period]]
  /\ edits' = edits + 1
  /\ UNCHANGED <<rule, env, logged, running, scan, faults, handling, cadence>>

(* Who is between reading the schedule and writing nextRunAt.              *)
Busy == {s \in Scanners : scan[s].pc # "idle"} \cup {e \in Editors : patch[e].pc # "idle"}

(* Fault: the schedule is stored and nextRunAt left as it was.             *)
WriteKeepsNext(e) ==
  LET c == patch[e].change
      new == Merge(c, rule.edition)
  IN
  /\ patch[e].pc = "write"
  /\ rule' = [rule EXCEPT !.edition = new]
  /\ patch' = [patch EXCEPT ![e] = IdlePatch]
  /\ stale' = (e \in overtaken /\ "period" \notin c.fields)
  /\ overtaken' = (IF new.period = rule.edition.period THEN overtaken ELSE Busy) \ {e}
  /\ UNCHANGED <<env, logged, running, scan, bounds, handling>>

(* nextRunAt is written on every save, the other fields if they are given. *)
WriteRule(e) ==
  LET c == patch[e].change
      new == Merge(c, rule.edition)
  IN
  /\ patch[e].pc = "write"
  /\ \E next \in NextRun(patch[e].period, patch[e].age) :
       rule' = [edition |-> new, next |-> next]
  /\ patch' = [patch EXCEPT ![e] = IdlePatch]
  /\ stale' = (e \in overtaken /\ "period" \notin c.fields)
  /\ overtaken' = (IF new.period = rule.edition.period THEN overtaken ELSE Busy) \ {e}
  /\ UNCHANGED <<env, logged, running, scan, bounds, handling>>

-----------------------------------------------------------------------------
(* The scan.                                                               *)

Become(s, local) == scan' = [scan EXCEPT ![s] = local]
ToFinish(s) == [IdleScan EXCEPT !.pc = "finish", !.rule = scan[s].rule, !.age = scan[s].age]

(* runTenantSchedules reads the rules that are on and due.                 *)
StartScan(s) ==
  /\ scan[s].pc = "idle"
  /\ rule.edition.on /\ rule.next = 0
  /\ Become(s, [IdleScan EXCEPT !.pc = "match", !.rule = rule.edition])
  /\ UNCHANGED <<rule, env, logged, running, patch, bounds, handling, cadence>>

(* findMany(take: n, orderBy: createdAt): the n oldest matches.            *)
Oldest(n) == {r \in matching : Cardinality({o \in matching : o <= r}) <= n}

(* Fault: one record too few is asked for to notice an over-wide match.    *)
MatchUpToCap(s) ==
  /\ scan[s].pc = "match"
  /\ Become(s, IF Cardinality(Oldest(Cap)) > Cap THEN ToFinish(s)
               ELSE [scan[s] EXCEPT !.pc = "exclude", !.matched = matching,
                                    !.candidates = Oldest(Cap)])
  /\ UNCHANGED <<rule, env, logged, running, patch, bounds, handling, cadence>>

(* More than the cap: the rule stops as FAILED and acts on nothing.        *)
Match(s) ==
  /\ scan[s].pc = "match"
  /\ Become(s, IF Cardinality(Oldest(Cap + 1)) > Cap THEN ToFinish(s)
               ELSE [scan[s] EXCEPT !.pc = "exclude", !.matched = matching,
                                    !.candidates = Oldest(Cap + 1)])
  /\ UNCHANGED <<rule, env, logged, running, patch, bounds, handling, cadence>>

(* Fault: a cooldown is treated like every run.                            *)
ForgetCooldown(repeat, r) == repeat = "ONCE_PER_RECORD" /\ logged[r] # None

(* excludeAlreadyHandled: a log row, within the cooldown if there is one.  *)
Handled(repeat, r) ==
  /\ repeat # "EVERY_RUN"
  /\ logged[r] # None
  /\ repeat = "COOLDOWN" => logged[r] <= Cooldown

Exclude(s) ==
  /\ scan[s].pc = "exclude"
  /\ Become(s, [scan[s] EXCEPT !.pc = "act",
                  !.targets = {r \in scan[s].candidates :
                                 ~ Handled(scan[s].rule.repeat, r)}])
  /\ UNCHANGED <<rule, env, logged, running, patch, bounds, handling, cadence>>

Current(s) == Min(scan[s].targets)
AtRecord(s, steps) ==
  scan[s].pc = "act" /\ scan[s].targets # {} /\ scan[s].rule.steps = steps

(* What the rule's repeat promises about a record handled age ticks ago.   *)
TooEarly(repeat, age) ==
  /\ age # None
  /\ \/ repeat = "ONCE_PER_RECORD"
     \/ repeat = "COOLDOWN" /\ age <= Cooldown

(* One more execution of r: how soon after the last is counted.            *)
Execute(s, r, throughRun) ==
  /\ acted' = [acted EXCEPT ![r] = 0]
  /\ byRun' = IF throughRun THEN byRun \cup {r} ELSE byRun \ {r}
  /\ early' = IF r \notin byRun /\ TooEarly(scan[s].rule.repeat, acted[r])
              THEN early + 1 ELSE early

(* executeActions; "ok" if at least one action worked.                     *)
Act(s) ==
  /\ AtRecord(s, FALSE)
  /\ \/ /\ Execute(s, Current(s), FALSE)
        /\ Become(s, [scan[s] EXCEPT !.pc = "log", !.ok = TRUE])
     \/ /\ ~ healthy
        /\ Become(s, [scan[s] EXCEPT !.pc = "log", !.ok = FALSE])
        /\ UNCHANGED handling
  /\ UNCHANGED <<rule, env, logged, running, patch, bounds, cadence>>

(* Fault: a failed execution suppresses the record like a successful one.  *)
LogAnyOutcome(s) ==
  LET r == Current(s) IN
  /\ scan[s].pc = "log"
  /\ logged' = [logged EXCEPT ![r] = 0]
  /\ Become(s, [scan[s] EXCEPT !.pc = "act", !.targets = @ \ {r}, !.ok = FALSE])
  /\ UNCHANGED <<rule, env, running, patch, bounds, handling, cadence>>

(* logExecution: only a row that is not FAILED counts later.               *)
LogExecution(s) ==
  LET r == Current(s) IN
  /\ scan[s].pc = "log"
  /\ logged' = [logged EXCEPT ![r] = IF scan[s].ok THEN 0 ELSE @]
  /\ Become(s, [scan[s] EXCEPT !.pc = "act", !.targets = @ \ {r}, !.ok = FALSE])
  /\ UNCHANGED <<rule, env, running, patch, bounds, handling, cadence>>

(* A rule with steps: startRun, unless a run is active; nothing is logged. *)
StartRun(s) ==
  LET r == Current(s) IN
  /\ AtRecord(s, TRUE)
  /\ IF r \in running THEN UNCHANGED <<running, handling>>
     ELSE running' = running \cup {r} /\ Execute(s, r, TRUE)
  /\ Become(s, [scan[s] EXCEPT !.targets = @ \ {r}])
  /\ UNCHANGED <<rule, env, logged, patch, bounds, cadence>>

AllDone(s) ==
  /\ scan[s].pc = "act" /\ scan[s].targets = {}
  /\ Become(s, ToFinish(s))
  /\ UNCHANGED <<rule, env, logged, running, patch, bounds, handling, cadence>>

(* finish, and the catch block of runTenantSchedules: both compute         *)
(* nextRunAt from the schedule read and the moment the scan began.  What   *)
(* else they store (lastRunStatus, lastRunError) is only displayed.        *)
Finish(s) ==
  /\ scan[s].pc = "finish"
  /\ \E next \in NextRun(scan[s].rule.period, scan[s].age) :
       rule' = [rule EXCEPT !.next = next]
  /\ Become(s, IdleScan)
  /\ stale' = (s \in overtaken)
  /\ overtaken' = overtaken \ {s}
  /\ UNCHANGED <<env, logged, running, patch, bounds, handling>>

(* A query fails and the rule is recorded as FAILED.                       *)
QueryFails(s) ==
  /\ faults < MaxFaults /\ scan[s].pc \in {"match", "exclude", "act", "log"}
  /\ faults' = faults + 1
  /\ Become(s, ToFinish(s))
  /\ UNCHANGED <<rule, env, logged, running, patch, edits, handling, cadence>>

(* The worker dies, or even the failure cannot be recorded.  The job that  *)
(* is delivered again reads the due rules afresh, like the next one.       *)
Crash(s) ==
  /\ faults < MaxFaults /\ scan[s].pc # "idle"
  /\ faults' = faults + 1
  /\ Become(s, IdleScan)
  /\ overtaken' = overtaken \ {s}
  /\ UNCHANGED <<rule, env, logged, running, patch, edits, handling, stale>>

-----------------------------------------------------------------------------
ScanStep(s) ==
  \/ StartScan(s) \/ Match(s) \/ Exclude(s) \/ Act(s) \/ LogExecution(s)
  \/ StartRun(s) \/ AllDone(s) \/ Finish(s)

Next ==
  \/ Tick \/ OutageBeginsOrEnds
  \/ \E r \in Records : RecordChanges(r) \/ RunEnds(r)
  \/ \E e \in Editors : ReadRule(e) \/ WriteRule(e)
  \/ \E s \in Scanners : ScanStep(s) \/ QueryFails(s) \/ Crash(s)

Spec == Init /\ [][Next]_vars

(* Time passes, the job scheduler fires and a scan that began goes on.     *)
Fairness == WF_vars(Tick) /\ \A s \in Scanners : WF_vars(ScanStep(s))
FairSpec == Spec /\ Fairness

-----------------------------------------------------------------------------
(* Type correctness of the rule row, the log and every scan.               *)
ScanState ==
  [pc : {"idle", "match", "exclude", "act", "log", "finish"},
   rule : Edition \cup {None}, age : 0 .. MaxPeriod, candidates : SUBSET Records,
   targets : SUBSET Records, ok : BOOLEAN, matched : SUBSET Records]
PatchState ==
  [pc : {"idle", "write"}, change : Change \cup {None},
   period : 1 .. MaxPeriod \cup {None}, age : 0 .. MaxPeriod]
TypeOK ==
  /\ rule \in [edition : Edition, next : 0 .. MaxPeriod]
  /\ matching \in SUBSET Records /\ healthy \in BOOLEAN
  /\ logged \in [Records -> Ages \cup {None}]
  /\ running \in SUBSET Records
  /\ scan \in [Scanners -> ScanState]
  /\ patch \in [Editors -> PatchState]
  /\ edits \in Nat /\ faults \in Nat
  /\ acted \in [Records -> Ages \cup {None}]
  /\ byRun \in SUBSET Records /\ early \in Nat
  /\ overtaken \in SUBSET (Scanners \cup Editors) /\ stale \in BOOLEAN

(* A record the rule's actions were executed on is acted on again before   *)
(* the rule's repeat allows no more often than there were crashes and      *)
(* failing queries, each of which can lose one log row, whatever ticks,    *)
(* edits and outages fall between matching, acting and logging.  The start *)
(* of a run is an execution too, but leaves no log row: a record that was  *)
(* last handled through a run is acted on again as soon as the run has     *)
(* ended, contrary to "act once, ever" (schedule-scan.job.ts:226).         *)
RepeatsSpaced == early <= faults

(* A rule acts on all its matches or, over the cap, on none of them: never *)
(* on an arbitrary first part.                                             *)
AllMatchesOrNone ==
  \A s \in Scanners :
    scan[s].pc \in {"exclude", "act", "log"} =>
      /\ Cardinality(scan[s].matched) <= Cap
      /\ scan[s].candidates = scan[s].matched
      /\ scan[s].targets \subseteq scan[s].matched

(* The next run lies within one period of the schedule on the rule, except *)
(* when the last to write it was a scan, or a save that left the schedule  *)
(* alone, that had read the rule before another save changed the schedule; *)
(* then "a cadence change takes effect now" (automation-rules.controller   *)
(* .ts:179) does not hold.                                                 *)
NextRunFitsCadence == stale \/ rule.next <= rule.edition.period

(* An outage heals itself: a record that keeps matching a rule that stays  *)
(* on and within its cap is acted on once actions work for good.           *)
Deserves(r) ==
  /\ r \in matching /\ healthy /\ rule.edition.on /\ ~ rule.edition.steps
  /\ Cardinality(matching) <= Cap
HandledAtLast ==
  \A r \in Records : <>[]Deserves(r) => <>(acted[r] # None /\ r \notin byRun)
=============================================================================
