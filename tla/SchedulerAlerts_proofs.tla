------------------------ MODULE SchedulerAlerts_proofs ------------------------
(***************************************************************************)
(* Proofs about SchedulerAlerts: its types, and that no alert is mailed    *)
(* again within the debounce window but for the two causes it names.       *)
(***************************************************************************)
EXTENDS SchedulerAlerts, TLAPS

(* The ages of the alerts, and what each instance is doing.                *)
Plan == [phase : Phase, stage : Stage, todo : SUBSET Subject, at : Subject \cup {NoSubject}]

DebounceTypes ==
  /\ warned \in [Subject -> 0 .. LongAgo]
  /\ job \in [Instance -> Plan]
  /\ mailed \in [Subject -> 0 .. LongAgo]

(* Whoever is mailing has a subject and a check to go back to.             *)
AtWork ==
  \A w \in Instance :
    /\ job[w].stage # "read" => job[w].phase \in {"missed", "locks", "errors"}
    /\ job[w].stage \in {"send", "log"} => job[w].at \in Subject

(* One watchdog at a time, as long as nothing has happened.                *)
Alone ==
  causes = {} => \A v, w \in Instance : Working(v) /\ Working(w) => v = w

(* A mail is remembered, or about to be.                                   *)
Remembered ==
  causes = {} =>
    \A a \in Subject : \/ warned[a] <= mailed[a]
                       \/ \E w \in Instance : job[w].stage = "log" /\ job[w].at = a

DebounceInv == DebounceTypes /\ AtWork /\ Alone /\ Remembered /\ DebounceHolds

-----------------------------------------------------------------------------
LEMMA Ages == LongAgo \in Nat /\ Debounce \in Nat /\ LongAgo > Debounce
BY TimesAssumption DEF LongAgo

LEMMA RestIsPlan ==
  ASSUME NEW j \in Plan, j.phase \in {"missed", "locks", "errors"}, NEW T \in SUBSET Subject
  PROVE  /\ Rest(j, T) \in Plan
         /\ Rest(j, T).stage \in {"read", "check"}
         /\ Rest(j, T).phase # "idle"
         /\ Rest(j, T).stage # "read" => Rest(j, T).phase \in {"missed", "locks", "errors"}
<1>1. After(j.phase) \in {"locks", "errors", "done"}
  BY DEF After
<1>2. CASE T = {}
  <2>1. Rest(j, T) = [AtRest EXCEPT !.phase = After(j.phase)]
    BY <1>2 DEF Rest
  <2> QED BY <1>1, <2>1 DEF AtRest, Plan, Phase, Stage
<1>3. CASE T # {}
  <2>1. Rest(j, T) = [j EXCEPT !.stage = "check", !.todo = T, !.at = NoSubject]
    BY <1>3 DEF Rest
  <2> QED BY <2>1 DEF Plan, Phase, Stage
<1> QED BY <1>2, <1>3

LEMMA FindingsAreSubjects ==
  \A ph \in {"missed", "locks", "errors"} : Findings(ph) \in SUBSET Subject
<1>1. checkMissedSchedules \subseteq Subject
  BY DEF checkMissedSchedules, Subject
<1>2. checkLockAnomalies \subseteq Subject
  BY DEF checkLockAnomalies, Subject
<1>3. checkRepeatedErrors \subseteq Subject
  BY DEF checkRepeatedErrors, Subject
<1> QED BY <1>1, <1>2, <1>3 DEF Findings

(* What a step of one instance does to the plans: the others keep theirs.  *)
LEMMA OnePlanChanges ==
  ASSUME NEW w \in Instance, job \in [Instance -> Plan], NEW p \in Plan, Becomes(w, p)
  PROVE  /\ job' \in [Instance -> Plan]
         /\ job'[w] = p
         /\ \A v \in Instance \ {w} : job'[v] = job[v]
BY DEF Becomes

(* A step of a run that neither mails nor writes the entry of a mail.      *)
LEMMA QuietStep ==
  ASSUME DebounceInv, NEW w \in Instance, NEW p \in Plan, Becomes(w, p),
         Working(w), job[w].stage # "log" \/ causes' # {},
         p.stage \in {"read", "check", "log"},
         p.stage = "check" => p.phase \in {"missed", "locks", "errors"},
         p.stage = "log" => p.phase \in {"missed", "locks", "errors"} /\ p.at \in Subject,
         UNCHANGED warned, causes \subseteq causes',
         mailed' \in {mailed, NoMail}, causes' = {} => mailed' = mailed
  PROVE  DebounceInv'
<1>1. /\ job' \in [Instance -> Plan] /\ job'[w] = p
      /\ \A v \in Instance \ {w} : job'[v] = job[v]
  BY OnePlanChanges DEF DebounceInv, DebounceTypes
<1>2. NoMail \in [Subject -> 0 .. LongAgo]
  BY Ages DEF NoMail
<1>3. DebounceTypes'
  BY <1>1, <1>2 DEF DebounceInv, DebounceTypes
<1>4. AtWork'
  BY <1>1 DEF DebounceInv, AtWork
<1>5. Alone'
  BY <1>1 DEF DebounceInv, Alone, Working
<1>6. Remembered'
  <2> SUFFICES ASSUME causes' = {}, NEW a \in Subject
               PROVE  \/ warned[a] <= mailed[a]
                      \/ \E v \in Instance : job'[v].stage = "log" /\ job'[v].at = a
    BY DEF Remembered
  <2>1. causes = {}
    OBVIOUS
  <2>2. ASSUME NEW v \in Instance, job[v].stage = "log", job[v].at = a
        PROVE  v # w
    BY <2>2
  <2> QED BY <1>1, <2>1, <2>2 DEF DebounceInv, Remembered
<1>7. DebounceHolds'
  BY <1>1 DEF DebounceInv, DebounceHolds
<1> QED BY <1>3, <1>4, <1>5, <1>6, <1>7 DEF DebounceInv

-----------------------------------------------------------------------------
LEMMA DebounceInit == AlertInit => DebounceInv
<1> SUFFICES ASSUME AlertInit PROVE DebounceInv
  OBVIOUS
<1>1. AtRest \in Plan /\ AtRest.phase = "idle" /\ AtRest.stage = "read"
  BY DEF AtRest, Plan, Phase, Stage
<1>2. DebounceTypes
  BY <1>1, Ages DEF AlertInit, DebounceTypes, NoMail
<1>3. AtWork /\ Alone /\ DebounceHolds
  BY <1>1 DEF AlertInit, AtWork, Alone, DebounceHolds, Working
<1>4. Remembered
  BY Ages DEF AlertInit, Remembered, NoMail
<1> QED BY <1>2, <1>3, <1>4 DEF DebounceInv

LEMMA DebounceStep == DebounceInv /\ [AlertNext]_alertVars => DebounceInv'
<1> SUFFICES ASSUME DebounceInv, AlertNext \/ UNCHANGED alertVars PROVE DebounceInv'
  OBVIOUS
<1>a. /\ job \in [Instance -> Plan]
      /\ \A w \in Instance : job[w] \in Plan
  BY DEF DebounceInv, DebounceTypes
<1>1. CASE UNCHANGED <<warned, job, mailed, causes>>
  BY <1>1 DEF DebounceInv, DebounceTypes, AtWork, Alone, Remembered, DebounceHolds, Working
<1>2. ASSUME NEW s \in Others, StartSchedule(s) \/ FinishSchedule(s) \/ ScheduleDies(s)
      PROVE  DebounceInv'
  BY <1>1, <1>2 DEF StartSchedule, FinishSchedule, ScheduleDies
<1>3. CASE ErrorsMount
  BY <1>1, <1>3 DEF ErrorsMount
<1>4. ASSUME NEW w \in Instance, StartRun(w) PROVE DebounceInv'
  <2> DEFINE p == [AtRest EXCEPT !.phase = "missed"]
  <2>1. p \in Plan /\ p.stage = "read" /\ p.phase = "missed"
    BY DEF AtRest, Plan, Phase, Stage
  <2>2. Becomes(w, p) /\ ~ Working(w) /\ UNCHANGED warned
    BY <1>4 DEF StartRun
  <2>3. /\ job' \in [Instance -> Plan] /\ job'[w] = p
        /\ \A v \in Instance \ {w} : job'[v] = job[v]
    BY <1>a, <2>1, <2>2, OnePlanChanges
  <2>4. /\ causes' = causes \cup {"overlap" : v \in {v \in Instance : Working(v)}}
        /\ mailed' = IF causes' = {} THEN mailed ELSE NoMail
    BY <1>4 DEF StartRun, Because
  <2> HIDE DEF p
  <2>5. causes' = {} => causes = {} /\ \A v \in Instance : ~ Working(v)
    BY <2>4
  <2>6. DebounceTypes'
    BY <2>2, <2>3, <2>4, Ages DEF DebounceInv, DebounceTypes, NoMail
  <2>7. AtWork'
    BY <2>1, <2>3 DEF DebounceInv, AtWork
  <2>8. Alone'
    BY <2>3, <2>5 DEF Alone, Working
  <2>9. Remembered'
    <3>1. job[w].stage = "read"
      BY <2>2 DEF DebounceInv, AtWork, Working
    <3> QED BY <2>2, <2>3, <2>4, <2>5, <3>1 DEF DebounceInv, Remembered
  <2>10. DebounceHolds'
    BY <2>1, <2>3, <2>4, <2>5 DEF DebounceInv, DebounceHolds
  <2> QED BY <2>6, <2>7, <2>8, <2>9, <2>10 DEF DebounceInv
<1>5. ASSUME NEW w \in Instance, Check(w) PROVE DebounceInv'
  <2>1. job[w].phase \in {"missed", "locks", "errors"} /\ job[w].stage = "read"
    BY <1>5 DEF Check
  <2>2. CASE Becomes(w, Rest(job[w], Findings(job[w].phase)))
    BY <1>5, <1>a, <2>1, <2>2, RestIsPlan, FindingsAreSubjects, QuietStep
       DEF Check, Working, watchVars, DebounceInv
  <2>3. CASE Becomes(w, [job[w] EXCEPT !.phase = "done"])
    <3> DEFINE p == [job[w] EXCEPT !.phase = "done"]
    <3>1. p \in Plan /\ p.stage = "read"
      BY <1>a, <2>1 DEF Plan, Phase
    <3> HIDE DEF p
    <3> QED BY <1>5, <2>1, <2>3, <3>1, QuietStep DEF p, Check, Working, watchVars
  <2> QED BY <1>5, <2>2, <2>3 DEF Check
<1>6. ASSUME NEW w \in Instance, LookUp(w) PROVE DebounceInv'
  <2>1. /\ job[w].phase \in {"missed", "locks", "errors"} /\ job[w].stage = "check"
        /\ UNCHANGED <<warned, mailed, causes>>
    BY <1>6 DEF LookUp, watchVars, DebounceInv, AtWork
  <2>2. PICK a \in job[w].todo :
          \/ ~ Debounced(a) /\ Becomes(w, [job[w] EXCEPT !.stage = "send", !.at = a])
          \/ Becomes(w, Rest(job[w], job[w].todo \ {a}))
    BY <1>6 DEF LookUp
  <2>3. CASE Becomes(w, Rest(job[w], job[w].todo \ {a}))
    <3>1. job[w].todo \ {a} \in SUBSET Subject
      BY <1>a DEF Plan
    <3> QED BY <1>a, <2>1, <2>3, <3>1, RestIsPlan, QuietStep DEF Working, DebounceInv
  <2>4. CASE ~ Debounced(a) /\ Becomes(w, [job[w] EXCEPT !.stage = "send", !.at = a])
    <3> DEFINE p == [job[w] EXCEPT !.stage = "send", !.at = a]
    <3>1. p \in Plan /\ p.stage = "send" /\ p.phase = job[w].phase /\ p.at = a /\ a \in Subject
      BY <1>a DEF Plan, Stage
    <3> HIDE DEF p
    <3>2. /\ job' \in [Instance -> Plan] /\ job'[w] = p
          /\ \A v \in Instance \ {w} : job'[v] = job[v]
      BY <1>a, <2>4, <3>1, OnePlanChanges DEF p
    <3>3. DebounceTypes' /\ AtWork' /\ Alone'
      BY <2>1, <3>1, <3>2 DEF DebounceInv, DebounceTypes, AtWork, Alone, Working
    <3>4. causes = {} => \A v \in Instance \ {w} : job[v].stage = "read"
      BY <2>1 DEF DebounceInv, Alone, AtWork, Working
    <3>5. Remembered'
      BY <2>1, <3>1, <3>2 DEF DebounceInv, Remembered
    <3>6. causes = {} => mailed[a] > Debounce
      <4>1. warned[a] > Debounce
        BY <2>4, <3>1, Ages DEF Debounced, DebounceInv, DebounceTypes
      <4>2. causes = {} => warned[a] <= mailed[a]
        BY <2>1, <3>1, <3>4 DEF DebounceInv, Remembered
      <4> QED BY <3>1, <4>1, <4>2, Ages DEF DebounceInv, DebounceTypes
    <3>7. DebounceHolds'
      BY <2>1, <3>1, <3>2, <3>4, <3>6 DEF DebounceInv, DebounceHolds
    <3> QED BY <3>3, <3>5, <3>7 DEF DebounceInv
  <2> QED BY <2>2, <2>3, <2>4
<1>7. ASSUME NEW w \in Instance, Send(w) PROVE DebounceInv'
  <2> DEFINE p == [job[w] EXCEPT !.stage = "log"]
  <2>1. /\ job[w].stage = "send" /\ job[w].phase \in {"missed", "locks", "errors"}
        /\ job[w].at \in Subject /\ UNCHANGED <<warned, causes>>
        /\ Becomes(w, p)
        /\ mailed' = IF causes = {} THEN [mailed EXCEPT ![job[w].at] = 0] ELSE NoMail
    BY <1>7 DEF Send, watchVars, DebounceInv, AtWork
  <2>2. p \in Plan /\ p.stage = "log" /\ p.phase = job[w].phase /\ p.at = job[w].at
    BY <1>a DEF Plan, Stage
  <2> HIDE DEF p
  <2>3. /\ job' \in [Instance -> Plan] /\ job'[w] = p
        /\ \A v \in Instance \ {w} : job'[v] = job[v]
    BY <1>a, <2>1, <2>2, OnePlanChanges
  <2>4. DebounceTypes'
    BY <2>1, <2>3, Ages DEF DebounceInv, DebounceTypes, NoMail
  <2>5. AtWork' /\ Alone'
    BY <2>1, <2>2, <2>3 DEF DebounceInv, AtWork, Alone, Working
  <2>6. causes = {} => \A v \in Instance \ {w} : job[v].stage = "read"
    BY <2>1 DEF DebounceInv, Alone, AtWork, Working
  <2>7. Remembered'
    BY <2>1, <2>2, <2>3 DEF DebounceInv, DebounceTypes, Remembered
  <2>8. DebounceHolds'
    BY <2>1, <2>2, <2>3, <2>6 DEF DebounceInv, DebounceHolds
  <2> QED BY <2>4, <2>5, <2>7, <2>8 DEF DebounceInv
<1>8. ASSUME NEW w \in Instance, MailFails(w) PROVE DebounceInv'
  <2>1. /\ job[w].stage = "send" /\ job[w].phase \in {"missed", "locks", "errors"}
        /\ job[w].at \in Subject /\ UNCHANGED <<warned, mailed, causes>>
    BY <1>8 DEF MailFails, watchVars, DebounceInv, AtWork
  <2>2. CASE Becomes(w, [job[w] EXCEPT !.stage = "log"])
    <3> DEFINE p == [job[w] EXCEPT !.stage = "log"]
    <3>1. p \in Plan /\ p.stage = "log" /\ p.phase = job[w].phase /\ p.at = job[w].at
      BY <1>a DEF Plan, Stage
    <3> HIDE DEF p
    <3> QED BY <2>1, <2>2, <3>1, QuietStep DEF p, Working, DebounceInv, Remembered, DebounceTypes
  <2>3. CASE Becomes(w, Drop(job[w]))
    <3>1. job[w].todo \ {job[w].at} \in SUBSET Subject
      BY <1>a DEF Plan
    <3> QED BY <1>a, <2>1, <2>3, <3>1, RestIsPlan, QuietStep DEF Drop, Working
  <2> QED BY <1>8, <2>2, <2>3 DEF MailFails
<1>9. ASSUME NEW w \in Instance, Log(w) PROVE DebounceInv'
  <2>1. /\ job[w].stage = "log" /\ job[w].phase \in {"missed", "locks", "errors"}
        /\ job[w].at \in Subject /\ UNCHANGED <<mailed, causes>>
        /\ warned' = [warned EXCEPT ![job[w].at] = 0]
    BY <1>9 DEF Log, DebounceInv, AtWork
  <2> DEFINE p == Drop(job[w])
  <2>2. /\ p \in Plan /\ p.stage \in {"read", "check"}
        /\ p.stage # "read" => p.phase \in {"missed", "locks", "errors"}
    <3>1. job[w].todo \ {job[w].at} \in SUBSET Subject
      BY <1>a DEF Plan
    <3> QED BY <1>a, <2>1, <3>1, RestIsPlan DEF Drop
  <2> HIDE DEF p
  <2>3. /\ job' \in [Instance -> Plan] /\ job'[w] = p
        /\ \A v \in Instance \ {w} : job'[v] = job[v]
    BY <1>9, <1>a, <2>2, OnePlanChanges DEF p, Log
  <2>4. DebounceTypes'
    BY <2>1, <2>3, Ages DEF DebounceInv, DebounceTypes
  <2>5. AtWork'
    BY <2>2, <2>3 DEF DebounceInv, AtWork
  <2>6. Alone'
    BY <2>1, <2>3 DEF DebounceInv, Alone, Working
  <2>7. Remembered'
    <3> SUFFICES ASSUME causes = {}, NEW a \in Subject
                 PROVE  \/ warned'[a] <= mailed[a]
                        \/ \E v \in Instance : job'[v].stage = "log" /\ job'[v].at = a
      BY <2>1 DEF Remembered
    <3>1. CASE a = job[w].at
      BY <2>1, <3>1, Ages DEF DebounceInv, DebounceTypes
    <3>2. CASE a # job[w].at
      BY <2>1, <2>3, <3>2 DEF DebounceInv, DebounceTypes, Remembered
    <3> QED BY <3>1, <3>2
  <2>8. DebounceHolds'
    BY <2>1, <2>2, <2>3 DEF DebounceInv, DebounceHolds
  <2> QED BY <2>4, <2>5, <2>6, <2>7, <2>8 DEF DebounceInv
<1>10. ASSUME NEW w \in Instance, LogFails(w) PROVE DebounceInv'
  <2>1. /\ job[w].stage = "log" /\ job[w].phase \in {"missed", "locks", "errors"}
        /\ Becomes(w, Drop(job[w])) /\ UNCHANGED warned
        /\ "unlogged" \in causes' /\ causes \subseteq causes'
        /\ mailed' = IF causes' = {} THEN mailed ELSE NoMail
    BY <1>10 DEF LogFails, watchVars, Because, DebounceInv, AtWork
  <2>2. job[w].todo \ {job[w].at} \in SUBSET Subject
    BY <1>a DEF Plan
  <2> QED BY <1>a, <2>1, <2>2, RestIsPlan, QuietStep DEF Drop, Working
<1>11. ASSUME NEW w \in Instance, FinishRun(w) PROVE DebounceInv'
  <2>1. job[w].phase = "done" /\ Becomes(w, AtRest) /\ UNCHANGED <<warned, mailed, causes>>
    BY <1>11 DEF FinishRun
  <2>2. job[w].stage = "read"
    BY <2>1 DEF DebounceInv, AtWork
  <2>3. AtRest \in Plan /\ AtRest.stage = "read"
    BY DEF AtRest, Plan, Phase, Stage
  <2> QED BY <2>1, <2>2, <2>3, QuietStep DEF Working, DebounceInv, Remembered, DebounceTypes
<1>12. ASSUME NEW w \in Instance, Crash(w) PROVE DebounceInv'
  <2>1. /\ Working(w) /\ Becomes(w, AtRest) /\ UNCHANGED warned
        /\ causes \subseteq causes' /\ mailed' = IF causes' = {} THEN mailed ELSE NoMail
        /\ job[w].stage = "log" => causes' # {}
    BY <1>12 DEF Crash, Because
  <2>2. AtRest \in Plan /\ AtRest.stage = "read"
    BY DEF AtRest, Plan, Phase, Stage
  <2> QED BY <2>1, <2>2, QuietStep
<1>13. CASE Tick
  <2>1. \A m, n \in 0 .. LongAgo : /\ Older(m, LongAgo) \in 0 .. LongAgo
                                   /\ m <= n => Older(m, LongAgo) <= Older(n, LongAgo)
                                   /\ m <= Older(m, LongAgo)
    BY Ages DEF Older
  <2>2. /\ warned' = [a \in Subject |-> Older(warned[a], LongAgo)]
        /\ mailed' = [a \in Subject |-> Older(mailed[a], LongAgo)]
        /\ UNCHANGED <<job, causes>>
    BY <1>13 DEF Tick
  <2>3. DebounceTypes'
    BY <2>1, <2>2 DEF DebounceInv, DebounceTypes
  <2>4. AtWork' /\ Alone'
    BY <2>2 DEF DebounceInv, AtWork, Alone, Working
  <2>5. Remembered'
    BY <2>1, <2>2 DEF DebounceInv, DebounceTypes, Remembered
  <2>6. DebounceHolds'
    <3> SUFFICES ASSUME causes = {}, NEW w \in Instance, job[w].stage = "send"
                 PROVE  mailed'[job[w].at] > Debounce
      BY <2>2 DEF DebounceHolds
    <3>1. job[w].at \in Subject /\ mailed[job[w].at] > Debounce
      BY DEF DebounceInv, AtWork, DebounceHolds
    <3>2. mailed[job[w].at] <= mailed'[job[w].at] /\ mailed'[job[w].at] \in Nat
      BY <2>1, <2>2, <3>1, Ages DEF DebounceInv, DebounceTypes
    <3> QED BY <3>1, <3>2, Ages DEF DebounceInv, DebounceTypes
  <2> QED BY <2>3, <2>4, <2>5, <2>6 DEF DebounceInv
<1>14. ASSUME UNCHANGED alertVars PROVE DebounceInv'
  BY <1>1, <1>14 DEF alertVars, watchVars
<1>15. ASSUME NEW w \in Instance,
              StartRun(w) \/ Proceed(w) \/ MailFails(w) \/ LogFails(w) \/ Crash(w)
       PROVE  DebounceInv'
  BY <1>4, <1>5, <1>6, <1>7, <1>8, <1>9, <1>10, <1>11, <1>12, <1>15 DEF Proceed
<1> QED BY <1>2, <1>3, <1>13, <1>14, <1>15 DEF AlertNext

(* No alert is mailed again within the debounce window, for any number of  *)
(* instances, schedules and failures, as long as no two watchdogs are at   *)
(* work at once and no entry of a mail is lost.                            *)
THEOREM DebounceIsKept == AlertSpec => []DebounceHolds
<1>1. DebounceInv => DebounceHolds
  BY DEF DebounceInv
<1> QED BY <1>1, DebounceInit, DebounceStep, PTL DEF AlertSpec
=============================================================================
