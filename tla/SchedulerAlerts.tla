--------------------------- MODULE SchedulerAlerts ---------------------------
(***************************************************************************)
(* The watchdog of the scheduler (SchedulerAlertsJob) and what it watches: *)
(* the rows of scheduler_locks that the schedules leave behind and the     *)
(* ERROR entries of internal_logs.                                         *)
(*                                                                         *)
(* The watchdog is a job of the schedule Own and runs under its lock; the  *)
(* schedules in Others may be slow, hang or die.  Every finding is an      *)
(* alert with a subject.  A subject is mailed at most once per debounce    *)
(* window, and what remembers the mail is a WARN entry of internal_logs    *)
(* written after it.  Time is kept as ages, which stop counting where no   *)
(* comparison of the code tells them apart any more.                       *)
(*                                                                         *)
(* Left out: two runs of one schedule in Others, or two runs of Own in one *)
(* instance, at the same time (that is SchedulerLock), the wording of the  *)
(* mails, the other jobs of Own.                                           *)
(***************************************************************************)
EXTENDS Naturals

CONSTANTS
  Own,         \* the schedule every-minute, which runs the watchdog
  Others,      \* the other schedules
  Instance, NoInstance,
  Expected,    \* the schedules that EXPECTED_INTERVALS names
  Overdue,     \* their interval plus buffer, in ticks
  Ttl,         \* the lock's time to live
  StuckAfter,  \* STUCK_LOCK_THRESHOLD_MINUTES
  OrphanAfter, \* ORPHANED_LOCK_THRESHOLD_MINUTES
  Debounce,    \* ALERT_DEBOUNCE_MINUTES
  ErrWindow,   \* ERROR_WINDOW_MINUTES
  MaxFaults    \* bound: statements and mails that fail, crashes

Schedule == Others \cup {Own}

ASSUME NamesAssumption == Own \notin Others /\ NoInstance \notin Instance
ASSUME TimesAssumption ==
  /\ Ttl \in Nat \ {0}
  /\ {Overdue, StuckAfter, OrphanAfter, Debounce, ErrWindow, MaxFaults} \subseteq Nat
(* A lock lives five minutes and is reported as stuck after two hours.     *)
ASSUME TtlIsShort == Ttl <= StuckAfter

VARIABLES
  row,      \* row[s]: the row of scheduler_locks of schedule s
  busy,     \* the schedules of Others that are executing their jobs
  burst,    \* age of the last ERROR entry that made a source exceed the limit
  warned,   \* warned[a]: age of the last 'Scheduler Alert Sent' about a
  job,      \* job[w]: what the watchdog is doing in instance w
  mailed,   \* history: age of the last mail about a, kept while causes = {}
  causes,   \* history: why a subject may be mailed too early
  faults    \* failures so far

watchVars == <<row, busy, burst, warned>>
alertVars == <<watchVars, job, mailed, causes, faults>>

-----------------------------------------------------------------------------
Later(a, b) == IF a > b THEN a ELSE b

(* The ages at which counting stops.                                       *)
LongAgo == Debounce + 1
LockedCap == Later(StuckAfter, Ttl + OrphanAfter) + 1
RunCap(s) == IF s \in Expected THEN Overdue + 1 ELSE 0

Subject ==
  ({"missed", "stuck", "orphaned"} \X Schedule) \cup {<<"errors", Own>>}
NoSubject == <<"none", Own>>
NoMail == [a \in Subject |-> LongAgo]

(* Not an age: the column is NULL.                                         *)
Never == Overdue + 2
NoRow == [exists |-> FALSE]
Rows(s) == [exists : {TRUE}, by : Instance \cup {NoInstance}, locked : 0 .. LockedCap,
            released : BOOLEAN, lastRun : {Never} \cup 0 .. RunCap(s)]

Phase == {"idle", "missed", "locks", "errors", "done"}
Stage == {"read", "check", "send", "log"}
Cause == {"overlap", "unlogged"}

AtRest == [phase |-> "idle", stage |-> "read", todo |-> {}, at |-> NoSubject]

AlertTypeOK ==
  /\ \A s \in Schedule : row[s] = NoRow \/ row[s] \in Rows(s)
  /\ busy \subseteq Others
  /\ burst \in 0 .. ErrWindow + 1
  /\ warned \in [Subject -> 0 .. LongAgo]
  /\ job \in [Instance -> [phase : Phase, stage : Stage, todo : SUBSET Subject,
                      at : Subject \cup {NoSubject}]]
  /\ mailed \in [Subject -> 0 .. LongAgo]
  /\ causes \subseteq Cause
  /\ faults \in 0 .. MaxFaults

AlertInit ==
  /\ row = [s \in Schedule |-> NoRow]
  /\ busy = {}
  /\ burst = ErrWindow + 1
  /\ warned = [a \in Subject |-> LongAgo]
  /\ job = [w \in Instance |-> AtRest]
  /\ mailed = NoMail
  /\ causes = {}
  /\ faults = 0

Fault == faults < MaxFaults /\ faults' = faults + 1
NoFault == UNCHANGED faults

-----------------------------------------------------------------------------
(* scheduler_locks.                                                        *)

(* expiresAt > now; releaseLock sets expiresAt to the epoch.               *)
Held(r) == r.exists /\ ~ r.released /\ r.locked < Ttl

(* acquireLock: the row is created, or overwritten but for lastRunAt.      *)
LockedNow(s, who) ==
  [exists |-> TRUE, by |-> who, locked |-> 0, released |-> FALSE,
   lastRun |-> IF row[s].exists THEN row[s].lastRun ELSE Never]

(* The columns lockedBy and lockedAt are not read again until the next run *)
(* overwrites them, and are forgotten.                                     *)
Freed(r, who) ==
  IF r.by = who THEN [r EXCEPT !.released = TRUE, !.by = NoInstance, !.locked = 0] ELSE r

(* The last two statements of executeJob: the run is noted and the lock is *)
(* released.  If either fails, nobody is told.                             *)
CloseRun(s, who) ==
  LET ran == [row[s] EXCEPT !.lastRun = 0]
  IN \/ row' = [row EXCEPT ![s] = Freed(ran, who)] /\ NoFault
     \/ row' = [row EXCEPT ![s] = ran] /\ Fault
     \/ row' = [row EXCEPT ![s] = Freed(row[s], who)] /\ Fault

(* A schedule takes its lock and starts its jobs; it ends; its instance    *)
(* dies.                                                                   *)
StartSchedule(s) ==
  /\ s \notin busy /\ ~ Held(row[s])
  /\ row' = [row EXCEPT ![s] = LockedNow(s, NoInstance)]
  /\ busy' = busy \cup {s}
  /\ UNCHANGED <<burst, warned, job, mailed, causes, faults>>

FinishSchedule(s) ==
  /\ s \in busy
  /\ busy' = busy \ {s}
  /\ CloseRun(s, NoInstance)
  /\ UNCHANGED <<burst, warned, job, mailed, causes>>

ScheduleDies(s) ==
  /\ s \in busy
  /\ busy' = busy \ {s}
  /\ Fault
  /\ UNCHANGED <<row, burst, warned, job, mailed, causes>>

(* Some source has logged more than ERROR_THRESHOLD_COUNT errors.          *)
ErrorsMount ==
  /\ burst' = 0
  /\ Fault
  /\ UNCHANGED <<row, busy, warned, job, mailed, causes>>

-----------------------------------------------------------------------------
(* What the three checks of a run find.                                    *)

(* A schedule that never ran is not looked at.                             *)
checkMissedSchedules ==
  {<<"missed", s>> : s \in {x \in Expected \cap Schedule :
     row[x].exists /\ row[x].lastRun # Never /\ row[x].lastRun > Overdue}}

(* Either stuck or orphaned.  The expiry of a released row is the epoch.   *)
checkLockAnomalies ==
  LET stuck == {s \in Schedule : Held(row[s]) /\ row[s].locked > StuckAfter}
      orphaned == {s \in Schedule : row[s].exists
                     /\ (row[s].released \/ row[s].locked > Ttl + OrphanAfter)}
  IN {<<"stuck", s>> : s \in stuck} \cup {<<"orphaned", s>> : s \in orphaned \ stuck}

checkRepeatedErrors == IF burst <= ErrWindow THEN {<<"errors", Own>>} ELSE {}

Findings(ph) ==
  CASE ph = "missed" -> checkMissedSchedules
    [] ph = "locks" -> checkLockAnomalies
    [] ph = "errors" -> checkRepeatedErrors

After(ph) == CASE ph = "missed" -> "locks" [] ph = "locks" -> "errors" [] ph = "errors" -> "done"

(* The run goes on with the alerts that are left, or with the next check.  *)
Rest(j, todo) ==
  IF todo = {} THEN [AtRest EXCEPT !.phase = After(j.phase)]
  ELSE [j EXCEPT !.stage = "check", !.todo = todo, !.at = NoSubject]

Becomes(w, j) == job' = [job EXCEPT ![w] = j]
Working(w) == job[w].phase # "idle"

Because(cs) ==
  /\ causes' = causes \cup cs
  /\ mailed' = IF causes' = {} THEN mailed ELSE NoMail

-----------------------------------------------------------------------------
(* A run of the watchdog.                                                  *)

(* MUTANT of StartRun: an expired lock is respected.                       *)
StartRunAfterRelease(w) ==
  /\ ~ Working(w)
  /\ (row[Own].exists /\ ~ row[Own].released) => row[Own].by = w
  /\ row' = [row EXCEPT ![Own] = LockedNow(Own, w)]
  /\ Becomes(w, [AtRest EXCEPT !.phase = "missed"])
  /\ Because({"overlap" : v \in {v \in Instance : Working(v)}})
  /\ UNCHANGED <<busy, burst, warned, faults>>

(* The lock of Own is free or expired, or is that of the same instance.    *)
StartRun(w) ==
  /\ ~ Working(w)
  /\ Held(row[Own]) => row[Own].by = w
  /\ row' = [row EXCEPT ![Own] = LockedNow(Own, w)]
  /\ Becomes(w, [AtRest EXCEPT !.phase = "missed"])
  /\ Because({"overlap" : v \in {v \in Instance : Working(v)}})
  /\ UNCHANGED <<busy, burst, warned, faults>>

(* One of the three checks reads its rows; an error ends the run.          *)
Check(w) ==
  /\ job[w].stage = "read" /\ job[w].phase \in {"missed", "locks", "errors"}
  /\ \/ Becomes(w, Rest(job[w], Findings(job[w].phase))) /\ NoFault
     \/ Becomes(w, [job[w] EXCEPT !.phase = "done"]) /\ Fault
  /\ UNCHANGED <<watchVars, mailed, causes>>

(* MUTANT of Debounced: an entry at the very start of the window does not  *)
(* count.                                                                  *)
DebouncedBefore(a) == warned[a] < Debounce

(* findFirst with createdAt >= debounceStart.                              *)
Debounced(a) == warned[a] <= Debounce

(* sendAlert first looks for a recent entry; an error is logged and the    *)
(* alert is dropped.                                                       *)
LookUp(w) ==
  /\ job[w].stage = "check"
  /\ \E a \in job[w].todo :
       \/ /\ ~ Debounced(a)
          /\ Becomes(w, [job[w] EXCEPT !.stage = "send", !.at = a])
          /\ NoFault
       \/ /\ Debounced(a)
          /\ Becomes(w, Rest(job[w], job[w].todo \ {a}))
          /\ NoFault
       \/ /\ Becomes(w, Rest(job[w], job[w].todo \ {a}))
          /\ Fault
  /\ UNCHANGED <<watchVars, mailed, causes>>

Drop(j) == Rest(j, j.todo \ {j.at})

(* The mail is accepted.                                                   *)
Send(w) ==
  /\ job[w].stage = "send"
  /\ mailed' = IF causes = {} THEN [mailed EXCEPT ![job[w].at] = 0] ELSE NoMail
  /\ Becomes(w, [job[w] EXCEPT !.stage = "log"])
  /\ UNCHANGED <<watchVars, causes, faults>>

(* The provider rejects it, which send reports in a result nobody looks at: *)
(* sent is true all the same.  Or it is not sent (an exception, no          *)
(* recipients), and sent is false.                                         *)
MailFails(w) ==
  /\ job[w].stage = "send"
  /\ \/ Becomes(w, [job[w] EXCEPT !.stage = "log"])
     \/ Becomes(w, Drop(job[w]))
  /\ Fault
  /\ UNCHANGED <<watchVars, mailed, causes>>

(* The WARN entry is written.                                              *)
Log(w) ==
  /\ job[w].stage = "log"
  /\ warned' = [warned EXCEPT ![job[w].at] = 0]
  /\ Becomes(w, Drop(job[w]))
  /\ UNCHANGED <<row, busy, burst, mailed, causes, faults>>

(* It is not: an ERROR entry is tried instead, and the run goes on.        *)
LogFails(w) ==
  /\ job[w].stage = "log"
  /\ Becomes(w, Drop(job[w]))
  /\ Because({"unlogged"})
  /\ Fault
  /\ UNCHANGED watchVars

(* updateLastRunTime and releaseLock.                                      *)
FinishRun(w) ==
  /\ job[w].phase = "done"
  /\ Becomes(w, AtRest)
  /\ CloseRun(Own, w)
  /\ UNCHANGED <<busy, burst, warned, mailed, causes>>

(* The instance dies.  The one that replaces it has another name, and     *)
(* leaves the lock until it expires.                                       *)
Crash(w) ==
  /\ Working(w)
  /\ Becomes(w, AtRest)
  /\ row' = IF row[Own].by = w THEN [row EXCEPT ![Own].by = NoInstance] ELSE row
  /\ Because(IF job[w].stage = "log" THEN {"unlogged"} ELSE {})
  /\ Fault
  /\ UNCHANGED <<busy, burst, warned>>

-----------------------------------------------------------------------------
Older(age, cap) == IF age < cap THEN age + 1 ELSE cap

OlderRow(s) ==
  IF ~ row[s].exists THEN NoRow
  ELSE [row[s] EXCEPT
          !.locked = IF row[s].released THEN @ ELSE Older(@, LockedCap),
          !.lastRun = IF @ = Never THEN Never ELSE Older(@, RunCap(s))]

Tick ==
  /\ row' = [s \in Schedule |-> OlderRow(s)]
  /\ burst' = Older(burst, ErrWindow + 1)
  /\ warned' = [a \in Subject |-> Older(warned[a], LongAgo)]
  /\ mailed' = [a \in Subject |-> Older(mailed[a], LongAgo)]
  /\ UNCHANGED <<busy, job, causes, faults>>

Proceed(w) == Check(w) \/ LookUp(w) \/ Send(w) \/ Log(w) \/ FinishRun(w)

AlertNext ==
  \/ \E s \in Others : StartSchedule(s) \/ FinishSchedule(s) \/ ScheduleDies(s)
  \/ ErrorsMount
  \/ \E w \in Instance : StartRun(w) \/ Proceed(w) \/ MailFails(w) \/ LogFails(w) \/ Crash(w)
  \/ Tick

AlertSpec == AlertInit /\ [][AlertNext]_alertVars

(* Time passes, runs of the watchdog that have begun go on, and the cron   *)
(* expression starts one again and again.  Nothing is assumed of the       *)
(* schedules that are watched.                                             *)
AlertFairness ==
  /\ WF_alertVars(Tick)
  /\ \A w \in Instance : WF_alertVars(Proceed(w))
  /\ WF_alertVars(\E w \in Instance : StartRun(w))

FairAlertSpec == AlertSpec /\ AlertFairness

-----------------------------------------------------------------------------
(* "Rate-limited via InternalLog to prevent spam (30m debounce)": what is  *)
(* about to be mailed was not mailed within the window, unless two runs of *)
(* the watchdog were at work at once or the entry of a mail was lost.      *)
DebounceHolds ==
  causes = {} => \A w \in Instance : job[w].stage = "send" => mailed[job[w].at] > Debounce

(* A schedule with an expected interval that has run once and then stays   *)
(* away is reported, again and again, whatever died on the way, including  *)
(* watchdogs that hold the lock of their schedule.                         *)
Late(s) == row[s].exists /\ row[s].lastRun # Never /\ row[s].lastRun > Overdue

MissedIsReported ==
  \A s \in Others \cap Expected :
    <>[] Late(s) => []<> (warned[<<"missed", s>>] = 0)
=============================================================================
