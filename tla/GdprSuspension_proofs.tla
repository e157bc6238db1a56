----------------------- MODULE GdprSuspension_proofs -----------------------
(***************************************************************************)
(* Proofs about GdprSuspension for any number of accounts, suspensions,    *)
(* requests, callers, workers and faults.                                  *)
(***************************************************************************)
EXTENDS GdprSuspension, TLAPS

(* The rows of i in table t are saved somewhere, or no longer have to be.  *)
Safe(i, t) ==
  \/ \E s \in Suspension : holder[s] = i /\ "original" \in backup[s][t]
  \/ \E s \in closed : holder[s] = i

(* A request or a suspension that exists belongs to an identity.           *)
RowsOK == \A r \in Request : status[r] # "NONE" => owner[r] \in Identity

RecordsOK ==
  /\ \A s \in Suspension : state[s] = "NONE" <=> holder[s] = NoIdentity
  /\ \A s \in closed : state[s] # "NONE"

(* Channels hang on settings.                                              *)
ChannelsNeedSettings ==
  \A i \in Identity : content[i]["settings"] = {} => content[i]["channels"] = {}

(* Whatever was saved first had the rows the account began with.           *)
BackupsOK ==
  \A s \in Suspension, t \in Table :
    backup[s][t] # {} => holder[s] \in Identity /\ Safe(holder[s], t)

OnTables == {"loading", "saving", "erasing"}

(* What callers and workers know.                                          *)
Knows(p) ==
  /\ stage[p] # "idle" => who[p] \in Identity
  /\ stage[p] = "idle" => record[p] = NoSuspension
  /\ stage[p] \in Anonymizing \cup {"collecting", "restoring", "marking", "recovering",
                                    "resuming", "completing", "finishing", "purging",
                                    "expiring"}
       => record[p] \in Suspension
  /\ record[p] \in Suspension => holder[record[p]] = who[p]
  /\ stage[p] \in Calling \cup Recovering => p \in Caller
  /\ stage[p] \in Deferring \cup Finalizing => p \in Worker
  /\ stage[p] \in Deferring => task[p] \in Request
  /\ stage[p] \in Anonymizing /\ p \in Worker => task[p] \in Request
  /\ stage[p] \in OnTables \cup {"restoring", "marking"} => todo[p] # {}
  /\ stage[p] \in Finalizing => record[p] \in closed

(* Where it is with the tables.                                            *)
Tables(p) ==
  /\ stage[p] \in OnTables =>
       IF p \in Worker THEN todo[p] \subseteq {"profile", "log"}
       ELSE /\ todo[p] \subseteq Immediate
            /\ "channels" \notin todo[p] => Safe(who[p], "channels")
  /\ stage[p] = "saving" =>
       "original" \in memory[p][ToErase(p)] \/ Safe(who[p], ToErase(p))
  /\ stage[p] = "erasing" => Safe(who[p], ToErase(p))
  /\ stage[p] \in {"restoring", "marking"} => \A t \in todo[p] : Safe(who[p], t)

SafetyInv ==
  /\ TypeOK /\ RowsOK /\ RecordsOK /\ ChannelsNeedSettings /\ BackupsOK
  /\ \A p \in Process : Knows(p) /\ Tables(p)
  /\ NothingLostBeforeExpiry

LEMMA AgeIsNat == Age \subseteq Nat /\ 0 \in Age
BY StaleAssumption DEF Age

(* The first table of a set is one of them, and not the settings as long   *)
(* as there are channels to erase.                                         *)
LEMMA FirstOfTables ==
  ASSUME NEW S \in SUBSET Table, S # {}
  PROVE  /\ First(S, EraseOrder) \in S
         /\ "channels" \in S => First(S, EraseOrder) # "settings"
         /\ First(S, RestoreOrder) \in S
<1>1. \E t \in S : \A q \in S : EraseOrder[t] <= EraseOrder[q]
  <2>0. S \subseteq {"channels", "settings", "profile", "log"}
    BY DEF Table, Immediate
  <2>1. CASE "channels" \in S
    <3>1. \A q \in S : EraseOrder["channels"] <= EraseOrder[q]
      BY <2>0, <2>1 DEF EraseOrder
    <3>2. QED
      BY <2>1, <3>1
  <2>2. CASE "channels" \notin S /\ "settings" \in S
    <3>1. \A q \in S : EraseOrder["settings"] <= EraseOrder[q]
      BY <2>0, <2>2 DEF EraseOrder
    <3>2. QED
      BY <2>2, <3>1
  <2>3. CASE "channels" \notin S /\ "settings" \notin S /\ "profile" \in S
    <3>1. \A q \in S : EraseOrder["profile"] <= EraseOrder[q]
      BY <2>0, <2>3 DEF EraseOrder
    <3>2. QED
      BY <2>3, <3>1
  <2>4. CASE "channels" \notin S /\ "settings" \notin S /\ "profile" \notin S /\ "log" \in S
    <3>1. \A q \in S : EraseOrder["log"] <= EraseOrder[q]
      BY <2>0, <2>4 DEF EraseOrder
    <3>2. QED
      BY <2>4, <3>1
  <2>5. QED
    BY <2>0, <2>1, <2>2, <2>3, <2>4
<1>2. \E t \in S : \A q \in S : RestoreOrder[t] <= RestoreOrder[q]
  <2>0. S \subseteq {"channels", "settings", "profile", "log"}
    BY DEF Table, Immediate
  <2>1. CASE "settings" \in S
    <3>1. \A q \in S : RestoreOrder["settings"] <= RestoreOrder[q]
      BY <2>0, <2>1 DEF RestoreOrder
    <3>2. QED
      BY <2>1, <3>1
  <2>2. CASE "settings" \notin S /\ "profile" \in S
    <3>1. \A q \in S : RestoreOrder["profile"] <= RestoreOrder[q]
      BY <2>0, <2>2 DEF RestoreOrder
    <3>2. QED
      BY <2>2, <3>1
  <2>3. CASE "settings" \notin S /\ "profile" \notin S /\ "log" \in S
    <3>1. \A q \in S : RestoreOrder["log"] <= RestoreOrder[q]
      BY <2>0, <2>3 DEF RestoreOrder
    <3>2. QED
      BY <2>3, <3>1
  <2>4. CASE "settings" \notin S /\ "profile" \notin S /\ "log" \notin S /\ "channels" \in S
    <3>1. \A q \in S : RestoreOrder["channels"] <= RestoreOrder[q]
      BY <2>0, <2>4 DEF RestoreOrder
    <3>2. QED
      BY <2>4, <3>1
  <2>5. QED
    BY <2>0, <2>1, <2>2, <2>3, <2>4
<1>3. /\ First(S, EraseOrder) \in S
      /\ \A q \in S : EraseOrder[First(S, EraseOrder)] <= EraseOrder[q]
  BY <1>1 DEF First
<1>4. First(S, RestoreOrder) \in S
  BY <1>2 DEF First
<1>5. "channels" \in S => First(S, EraseOrder) # "settings"
  BY <1>3 DEF EraseOrder
<1>6. QED
  BY <1>3, <1>4, <1>5

-----------------------------------------------------------------------------
(* The types of the database and those of the processes.                   *)
RequestTypes == TableTypeOK /\ owner \in [Request -> Identity \cup {NoIdentity}]

AccountTypes ==
  /\ isSuspended \in [Identity -> BOOLEAN]
  /\ cooling \subseteq Identity
  /\ content \in [Identity -> [Table -> SUBSET Row]]
  /\ overlapped \subseteq Identity

RecordTypes ==
  /\ state \in [Suspension -> State]
  /\ holder \in [Suspension -> Identity \cup {NoIdentity}]
  /\ closed \subseteq Suspension
  /\ backup \in [Suspension -> [Table -> SUBSET Row]]
  /\ used \in [Suspension -> SUBSET Table]
  /\ skipped \subseteq Suspension /\ reopened \subseteq Suspension

ProcessTypes ==
  /\ stage \in [Process -> Stages]
  /\ who \in [Process -> Identity \cup {NoIdentity}]
  /\ record \in [Process -> Suspension \cup {NoSuspension}]
  /\ task \in [Process -> Request \cup {NoRequest}]
  /\ todo \in [Process -> SUBSET Table]
  /\ memory \in [Process -> [Table -> SUBSET Row]]

LEMMA TypeParts ==
  TypeOK <=> /\ RequestTypes /\ AccountTypes /\ RecordTypes /\ ProcessTypes
             /\ faults \in 0 .. MaxFaults
BY DEF TypeOK, RequestTypes, AccountTypes, RecordTypes, ProcessTypes

LEMMA LeaveTypes ==
  ASSUME NEW p, ProcessTypes, Leave(p)
  PROVE  ProcessTypes'
<1>1. "idle" \in Stages
  BY DEF Stages
<1>2. memory' \in [Process -> [Table -> SUBSET Row]]
  BY DEF Leave, ProcessTypes, Nothing
<1>3. QED
  BY <1>1, <1>2 DEF Leave, Goto, ProcessTypes

(* What the invariant says of a process at work.                           *)
LEMMA AtWork ==
  ASSUME SafetyInv, NEW p \in Process
  PROVE  /\ Knows(p)
         /\ RequestTypes /\ AccountTypes /\ RecordTypes /\ ProcessTypes
         /\ stage[p] \in OnTables => ToErase(p) \in todo[p] /\ ToErase(p) \in Table
         /\ stage[p] \in {"restoring", "marking"} => ToRestore(p) \in todo[p] /\ ToRestore(p) \in Table
<1>1. /\ Knows(p)
      /\ RequestTypes /\ AccountTypes /\ RecordTypes /\ ProcessTypes
  BY TypeParts DEF SafetyInv
<1>2. todo[p] \in SUBSET Table
  BY <1>1 DEF ProcessTypes
<1>3. QED
  BY <1>1, <1>2, FirstOfTables DEF Knows, ToErase, ToRestore

LEMMA RequestTypesStep == SafetyInv /\ [Next]_vars => RequestTypes'
<1> SUFFICES ASSUME SafetyInv, [Next]_vars
             PROVE  RequestTypes'
  OBVIOUS
<1>0. RequestTypes /\ AccountTypes /\ RecordTypes /\ ProcessTypes
  BY TypeParts DEF SafetyInv
<1> USE <1>0, AgeIsNat, LeaveTypes
<1> USE DEF RequestTypes, TableTypeOK, Status, ProcessTypes,
            Process, tableVars, accountVars, recordVars, backupVars, procVars
<1>1. ASSUME NEW c \in Caller, NEW i \in Identity, requestSuspension(c, i)
      PROVE  RequestTypes'
  BY <1>1 DEF requestSuspension, Begin, Goto
<1>2. ASSUME NEW c \in Caller, NEW i \in Identity, recoverAccount(c, i)
      PROVE  RequestTypes'
  BY <1>2 DEF recoverAccount, Begin, Goto
<1>3. ASSUME NEW c \in Caller, suspendIdentity(c)
      PROVE  RequestTypes'
  BY <1>3 DEF suspendIdentity, Goto
<1>4. ASSUME NEW c \in Caller, CreateRecord(c)
      PROVE  RequestTypes'
  BY <1>4 DEF CreateRecord, Goto
<1>5. ASSUME NEW c \in Caller, CreateRequest(c)
      PROVE  RequestTypes'
  BY <1>5 DEF CreateRequest, createRequest, SetStatus, Leave, Goto
<1>6. ASSUME NEW c \in Caller, getActiveSuspension(c)
      PROVE  RequestTypes'
  BY <1>6 DEF getActiveSuspension, SuspensionsOf, Leave, Goto
<1>7. ASSUME NEW c \in Caller, CollectBackups(c)
      PROVE  RequestTypes'
  BY <1>7 DEF CollectBackups, Unused, Goto
<1>8. ASSUME NEW c \in Caller, RestoreRows(c)
      PROVE  RequestTypes'
  BY <1>8 DEF RestoreRows, Restored, Fault, Goto
<1>9. ASSUME NEW c \in Caller, MarkUsed(c)
      PROVE  RequestTypes'
  BY <1>9 DEF MarkUsed, Advance, Leave, Goto
<1>10. ASSUME NEW c \in Caller, MarkRecovered(c)
      PROVE  RequestTypes'
  BY <1>10 DEF MarkRecovered, Goto
<1>11. ASSUME NEW c \in Caller, resumeIdentity(c)
      PROVE  RequestTypes'
  BY <1>11 DEF resumeIdentity, Goto
<1>12. ASSUME NEW w \in Worker, Claim(w)
      PROVE  RequestTypes'
  BY <1>12 DEF Claim, ClaimRows
<1>13. ASSUME NEW w \in Worker, FindExpired(w)
      PROVE  RequestTypes'
  BY <1>13 DEF FindExpired, Begin, Goto
<1>14. ASSUME NEW w \in Worker, FindRecord(w)
      PROVE  RequestTypes'
  BY <1>14 DEF FindRecord, SuspensionsOf, Goto
<1>15. ASSUME NEW w \in Worker, Complete(w)
      PROVE  RequestTypes'
  BY <1>15 DEF Complete, markRequestCompleted, GuardedUpdate, SetStatus, Leave, Goto
<1>16. ASSUME NEW w \in Worker, Finish(w)
      PROVE  RequestTypes'
  BY <1>16 DEF Finish, Goto
<1>17. ASSUME NEW w \in Worker, Fail(w)
      PROVE  RequestTypes'
  BY <1>17 DEF Fail, markRequestFailed, GuardedUpdate, SetStatus, Leave, Goto
<1>18. ASSUME NEW w \in Worker, DeleteBackups(w)
      PROVE  RequestTypes'
  BY <1>18 DEF DeleteBackups, Nothing, Goto
<1>19. ASSUME NEW w \in Worker, MarkExpired(w)
      PROVE  RequestTypes'
  BY <1>19 DEF MarkExpired, Goto
<1>20. ASSUME NEW w \in Worker, Throw(w)
      PROVE  RequestTypes'
  BY <1>20 DEF Throw, Fault, Abort, Leave, Goto
<1>21. ASSUME NEW p \in Process, Resolve(p)
      PROVE  RequestTypes'
  BY <1>21 DEF Resolve, TablesOf, Goto
<1>22. ASSUME NEW p \in Process, LoadRows(p)
      PROVE  RequestTypes'
  BY <1>22 DEF LoadRows, Advance, AfterTables, Goto
<1>23. ASSUME NEW p \in Process, CreateBackup(p)
      PROVE  RequestTypes'
  BY <1>23 DEF CreateBackup, Abort, Leave, Goto
<1>24. ASSUME NEW p \in Process, EraseRows(p)
      PROVE  RequestTypes'
  BY <1>24 DEF EraseRows, Erased, Advance, AfterTables, Goto
<1>25. ASSUME NEW p \in Process, Notify(p)
      PROVE  RequestTypes'
  BY <1>25 DEF Notify, Leave, Goto
<1>26. ASSUME NEW p \in Process, Crash(p)
      PROVE  RequestTypes'
  BY <1>26 DEF Crash, Fault, Leave, Goto
<1>27. ASSUME NEW s0 \in Suspension, WindowCloses(s0)
      PROVE  RequestTypes'
  BY <1>27 DEF WindowCloses
<1>28. ASSUME NEW i \in Identity, CooldownPasses(i)
      PROVE  RequestTypes'
  BY <1>28 DEF CooldownPasses
<1>29. CASE Tick
  BY <1>29, StaleAssumption DEF Tick, AgeRows, Age
<1>30. CASE UNCHANGED vars
  BY <1>30 DEF vars
<1>31. QED
  BY <1>1, <1>2, <1>3, <1>4, <1>5, <1>6, <1>7, <1>8, <1>9, <1>10, <1>11, <1>12, <1>13,
     <1>14, <1>15, <1>16, <1>17, <1>18, <1>19, <1>20, <1>21, <1>22, <1>23, <1>24,
     <1>25, <1>26, <1>27, <1>28, <1>29, <1>30
     DEF Next, CallerStep, WorkerStep, ProcessStep

LEMMA AccountTypesStep == SafetyInv /\ [Next]_vars => AccountTypes'
<1> SUFFICES ASSUME SafetyInv, [Next]_vars
             PROVE  AccountTypes'
  OBVIOUS
<1>0. RequestTypes /\ AccountTypes /\ RecordTypes /\ ProcessTypes
  BY TypeParts DEF SafetyInv
<1> USE <1>0, AgeIsNat, LeaveTypes
<1> USE DEF AccountTypes, RequestTypes, ProcessTypes, Row,
            Process, tableVars, accountVars, recordVars, backupVars, procVars
<1>1. ASSUME NEW c \in Caller, NEW i \in Identity, requestSuspension(c, i)
      PROVE  AccountTypes'
  BY <1>1 DEF requestSuspension, Begin, Goto
<1>2. ASSUME NEW c \in Caller, NEW i \in Identity, recoverAccount(c, i)
      PROVE  AccountTypes'
  BY <1>2 DEF recoverAccount, Begin, Goto
<1>3. ASSUME NEW c \in Caller, suspendIdentity(c)
      PROVE  AccountTypes'
  BY <1>3 DEF suspendIdentity, Goto
<1>4. ASSUME NEW c \in Caller, CreateRecord(c)
      PROVE  AccountTypes'
  BY <1>4 DEF CreateRecord, Goto
<1>5. ASSUME NEW c \in Caller, CreateRequest(c)
      PROVE  AccountTypes'
  BY <1>5 DEF CreateRequest, Goto
<1>6. ASSUME NEW c \in Caller, getActiveSuspension(c)
      PROVE  AccountTypes'
  BY <1>6 DEF getActiveSuspension, SuspensionsOf, Goto
<1>7. ASSUME NEW c \in Caller, CollectBackups(c)
      PROVE  AccountTypes'
  BY <1>7 DEF CollectBackups, Unused, Goto
<1>8. ASSUME NEW c \in Caller, RestoreRows(c)
      PROVE  AccountTypes'
  <2>1. /\ content[who[c]] \in [Table -> SUBSET Row]
        /\ memory[c] \in [Table -> SUBSET Row]
        /\ ToRestore(c) \in Table
    BY <1>8, AtWork DEF RestoreRows, Knows
  <2>2. Restored(content[who[c]], ToRestore(c), memory[c][ToRestore(c)]) \in [Table -> SUBSET Row]
    BY <2>1 DEF Restored
  <2>3. QED
    BY <1>8, <2>2 DEF RestoreRows
<1>9. ASSUME NEW c \in Caller, MarkUsed(c)
      PROVE  AccountTypes'
  BY <1>9 DEF MarkUsed, Advance, Goto
<1>10. ASSUME NEW c \in Caller, MarkRecovered(c)
      PROVE  AccountTypes'
  BY <1>10, AtWork DEF MarkRecovered, Goto, Knows
<1>11. ASSUME NEW c \in Caller, resumeIdentity(c)
      PROVE  AccountTypes'
  BY <1>11 DEF resumeIdentity, Goto
<1>12. ASSUME NEW w \in Worker, Claim(w)
      PROVE  AccountTypes'
  BY <1>12 DEF Claim, Goto
<1>13. ASSUME NEW w \in Worker, FindExpired(w)
      PROVE  AccountTypes'
  BY <1>13 DEF FindExpired, Begin, Goto
<1>14. ASSUME NEW w \in Worker, FindRecord(w)
      PROVE  AccountTypes'
  BY <1>14 DEF FindRecord, SuspensionsOf, Goto
<1>15. ASSUME NEW w \in Worker, Complete(w)
      PROVE  AccountTypes'
  BY <1>15 DEF Complete, Goto
<1>16. ASSUME NEW w \in Worker, Finish(w)
      PROVE  AccountTypes'
  BY <1>16 DEF Finish, Goto
<1>17. ASSUME NEW w \in Worker, Fail(w)
      PROVE  AccountTypes'
  BY <1>17 DEF Fail, Goto
<1>18. ASSUME NEW w \in Worker, DeleteBackups(w)
      PROVE  AccountTypes'
  BY <1>18 DEF DeleteBackups, Nothing, Goto
<1>19. ASSUME NEW w \in Worker, MarkExpired(w)
      PROVE  AccountTypes'
  BY <1>19 DEF MarkExpired, Goto
<1>20. ASSUME NEW w \in Worker, Throw(w)
      PROVE  AccountTypes'
  BY <1>20 DEF Throw, Fault, Abort, Goto
<1>21. ASSUME NEW p \in Process, Resolve(p)
      PROVE  AccountTypes'
  BY <1>21 DEF Resolve, TablesOf, Goto
<1>22. ASSUME NEW p \in Process, LoadRows(p)
      PROVE  AccountTypes'
  BY <1>22 DEF LoadRows, Advance, AfterTables, Goto
<1>23. ASSUME NEW p \in Process, CreateBackup(p)
      PROVE  AccountTypes'
  BY <1>23 DEF CreateBackup, Abort, Goto
<1>24. ASSUME NEW p \in Process, EraseRows(p)
      PROVE  AccountTypes'
  <2>1. /\ content[who[p]] \in [Table -> SUBSET Row]
        /\ Erased(content[who[p]], ToErase(p)) \in [Table -> SUBSET Row]
    <3>1. content[who[p]] \in [Table -> SUBSET Row]
      BY <1>24, AtWork DEF EraseRows, Knows
    <3>2. QED
      BY <3>1 DEF Erased
  <2>2. QED
    BY <1>24, <2>1 DEF EraseRows
<1>25. ASSUME NEW p \in Process, Notify(p)
      PROVE  AccountTypes'
  <2>1. content[who[p]] \in [Table -> SUBSET Row]
    BY <1>25, AtWork DEF Notify, Knows
  <2>2. [content[who[p]] EXCEPT !["log"] = @ \cup {"notice"}] \in [Table -> SUBSET Row]
    BY <2>1
  <2>3. content' \in [Identity -> [Table -> SUBSET Row]]
    BY <1>25, <2>2 DEF Notify
  <2>4. QED
    BY <1>25, <2>3 DEF Notify
<1>26. ASSUME NEW p \in Process, Crash(p)
      PROVE  AccountTypes'
  BY <1>26 DEF Crash, Fault, Goto
<1>27. ASSUME NEW s0 \in Suspension, WindowCloses(s0)
      PROVE  AccountTypes'
  BY <1>27 DEF WindowCloses
<1>28. ASSUME NEW i \in Identity, CooldownPasses(i)
      PROVE  AccountTypes'
  BY <1>28 DEF CooldownPasses
<1>29. CASE Tick
  BY <1>29 DEF Tick, AgeRows
<1>30. CASE UNCHANGED vars
  BY <1>30 DEF vars
<1>31. QED
  BY <1>1, <1>2, <1>3, <1>4, <1>5, <1>6, <1>7, <1>8, <1>9, <1>10, <1>11, <1>12, <1>13,
     <1>14, <1>15, <1>16, <1>17, <1>18, <1>19, <1>20, <1>21, <1>22, <1>23, <1>24,
     <1>25, <1>26, <1>27, <1>28, <1>29, <1>30
     DEF Next, CallerStep, WorkerStep, ProcessStep

LEMMA RecordTypesStep == SafetyInv /\ [Next]_vars => RecordTypes'
<1> SUFFICES ASSUME SafetyInv, [Next]_vars
             PROVE  RecordTypes'
  OBVIOUS
<1>0. RequestTypes /\ AccountTypes /\ RecordTypes /\ ProcessTypes
  BY TypeParts DEF SafetyInv
<1> USE <1>0, AgeIsNat, LeaveTypes
<1> USE DEF RecordTypes, ProcessTypes, State,
            Process, tableVars, accountVars, recordVars, backupVars, procVars
<1>1. ASSUME NEW c \in Caller, NEW i \in Identity, requestSuspension(c, i)
      PROVE  RecordTypes'
  BY <1>1 DEF requestSuspension, Begin, Goto
<1>2. ASSUME NEW c \in Caller, NEW i \in Identity, recoverAccount(c, i)
      PROVE  RecordTypes'
  BY <1>2 DEF recoverAccount, Begin, Goto
<1>3. ASSUME NEW c \in Caller, suspendIdentity(c)
      PROVE  RecordTypes'
  BY <1>3 DEF suspendIdentity, Goto
<1>4. ASSUME NEW c \in Caller, CreateRecord(c)
      PROVE  RecordTypes'
  BY <1>4 DEF CreateRecord, Goto
<1>5. ASSUME NEW c \in Caller, CreateRequest(c)
      PROVE  RecordTypes'
  BY <1>5 DEF CreateRequest, Goto
<1>6. ASSUME NEW c \in Caller, getActiveSuspension(c)
      PROVE  RecordTypes'
  BY <1>6 DEF getActiveSuspension, SuspensionsOf, Goto
<1>7. ASSUME NEW c \in Caller, CollectBackups(c)
      PROVE  RecordTypes'
  BY <1>7 DEF CollectBackups, Unused, Goto
<1>8. ASSUME NEW c \in Caller, RestoreRows(c)
      PROVE  RecordTypes'
  BY <1>8, AtWork DEF RestoreRows, Knows, Anonymizing
<1>9. ASSUME NEW c \in Caller, MarkUsed(c)
      PROVE  RecordTypes'
  <2>1. ToRestore(c) \in Table
    BY <1>9, AtWork DEF MarkUsed
  <2>2. QED
    BY <1>9, <2>1 DEF MarkUsed
<1>10. ASSUME NEW c \in Caller, MarkRecovered(c)
      PROVE  RecordTypes'
  BY <1>10, AtWork DEF MarkRecovered, Goto, Knows
<1>11. ASSUME NEW c \in Caller, resumeIdentity(c)
      PROVE  RecordTypes'
  BY <1>11 DEF resumeIdentity, Goto
<1>12. ASSUME NEW w \in Worker, Claim(w)
      PROVE  RecordTypes'
  BY <1>12 DEF Claim, Goto
<1>13. ASSUME NEW w \in Worker, FindExpired(w)
      PROVE  RecordTypes'
  BY <1>13 DEF FindExpired, Begin, Goto
<1>14. ASSUME NEW w \in Worker, FindRecord(w)
      PROVE  RecordTypes'
  BY <1>14 DEF FindRecord, SuspensionsOf, Goto
<1>15. ASSUME NEW w \in Worker, Complete(w)
      PROVE  RecordTypes'
  BY <1>15 DEF Complete, Goto
<1>16. ASSUME NEW w \in Worker, Finish(w)
      PROVE  RecordTypes'
  BY <1>16 DEF Finish, Goto
<1>17. ASSUME NEW w \in Worker, Fail(w)
      PROVE  RecordTypes'
  BY <1>17 DEF Fail, Goto
<1>18. ASSUME NEW w \in Worker, DeleteBackups(w)
      PROVE  RecordTypes'
  BY <1>18 DEF DeleteBackups, Nothing, Goto
<1>19. ASSUME NEW w \in Worker, MarkExpired(w)
      PROVE  RecordTypes'
  BY <1>19 DEF MarkExpired, Goto
<1>20. ASSUME NEW w \in Worker, Throw(w)
      PROVE  RecordTypes'
  BY <1>20 DEF Throw, Fault, Abort, Goto
<1>21. ASSUME NEW p \in Process, Resolve(p)
      PROVE  RecordTypes'
  BY <1>21 DEF Resolve, TablesOf, Goto
<1>22. ASSUME NEW p \in Process, LoadRows(p)
      PROVE  RecordTypes'
  BY <1>22 DEF LoadRows, Advance, AfterTables, Goto
<1>23. ASSUME NEW p \in Process, CreateBackup(p)
      PROVE  RecordTypes'
  <2>1. /\ ToErase(p) \in Table /\ record[p] \in Suspension
        /\ memory[p] \in [Table -> SUBSET Row]
    BY <1>23, AtWork DEF CreateBackup, Knows, OnTables, Anonymizing
  <2>2. CASE backup' = [backup EXCEPT ![record[p]][ToErase(p)] = memory[p][ToErase(p)]]
    <3>1. memory[p][ToErase(p)] \in SUBSET Row
      BY <2>1
    <3>2. backup' \in [Suspension -> [Table -> SUBSET Row]]
      BY <2>1, <2>2, <3>1
    <3>3. QED
      BY <1>23, <3>2 DEF CreateBackup
  <2>3. CASE UNCHANGED backup
    BY <1>23, <2>3 DEF CreateBackup
  <2>4. QED
    BY <1>23, <2>2, <2>3 DEF CreateBackup
<1>24. ASSUME NEW p \in Process, EraseRows(p)
      PROVE  RecordTypes'
  BY <1>24 DEF EraseRows, Erased, Advance, AfterTables, Goto
<1>25. ASSUME NEW p \in Process, Notify(p)
      PROVE  RecordTypes'
  BY <1>25 DEF Notify, Goto
<1>26. ASSUME NEW p \in Process, Crash(p)
      PROVE  RecordTypes'
  BY <1>26 DEF Crash, Fault, Goto
<1>27. ASSUME NEW s0 \in Suspension, WindowCloses(s0)
      PROVE  RecordTypes'
  BY <1>27 DEF WindowCloses
<1>28. ASSUME NEW i \in Identity, CooldownPasses(i)
      PROVE  RecordTypes'
  BY <1>28 DEF CooldownPasses
<1>29. CASE Tick
  BY <1>29 DEF Tick, AgeRows
<1>30. CASE UNCHANGED vars
  BY <1>30 DEF vars
<1>31. QED
  BY <1>1, <1>2, <1>3, <1>4, <1>5, <1>6, <1>7, <1>8, <1>9, <1>10, <1>11, <1>12, <1>13,
     <1>14, <1>15, <1>16, <1>17, <1>18, <1>19, <1>20, <1>21, <1>22, <1>23, <1>24,
     <1>25, <1>26, <1>27, <1>28, <1>29, <1>30
     DEF Next, CallerStep, WorkerStep, ProcessStep

LEMMA ProcessTypesStep == SafetyInv /\ [Next]_vars => ProcessTypes'
<1> SUFFICES ASSUME SafetyInv, [Next]_vars
             PROVE  ProcessTypes'
  OBVIOUS
<1>0. RequestTypes /\ AccountTypes /\ RecordTypes /\ ProcessTypes
  BY TypeParts DEF SafetyInv
<1> USE <1>0, AgeIsNat, LeaveTypes
<1> USE DEF ProcessTypes, RecordTypes, RequestTypes, AccountTypes, Stages, Calling, Anonymizing,
            Recovering, Deferring, Finalizing,
            Process, tableVars, accountVars, recordVars, backupVars, procVars
<1>1. ASSUME NEW c \in Caller, NEW i \in Identity, requestSuspension(c, i)
      PROVE  ProcessTypes'
  BY <1>1 DEF requestSuspension, Begin, Goto
<1>2. ASSUME NEW c \in Caller, NEW i \in Identity, recoverAccount(c, i)
      PROVE  ProcessTypes'
  BY <1>2 DEF recoverAccount, Begin, Goto
<1>3. ASSUME NEW c \in Caller, suspendIdentity(c)
      PROVE  ProcessTypes'
  BY <1>3 DEF suspendIdentity, Goto
<1>4. ASSUME NEW c \in Caller, CreateRecord(c)
      PROVE  ProcessTypes'
  BY <1>4 DEF CreateRecord, Goto
<1>5. ASSUME NEW c \in Caller, CreateRequest(c)
      PROVE  ProcessTypes'
  BY <1>5 DEF CreateRequest, Goto
<1>6. ASSUME NEW c \in Caller, getActiveSuspension(c)
      PROVE  ProcessTypes'
  BY <1>6 DEF getActiveSuspension, SuspensionsOf, Goto
<1>7. ASSUME NEW c \in Caller, CollectBackups(c)
      PROVE  ProcessTypes'
  <2>1. Unused(record[c]) \in SUBSET Table
    BY DEF Unused
  <2>2. backup[record[c]] \in [Table -> SUBSET Row]
    BY <1>7, AtWork DEF CollectBackups, Knows
  <2>3. QED
    BY <1>7, <2>1, <2>2 DEF CollectBackups, Goto
<1>8. ASSUME NEW c \in Caller, RestoreRows(c)
      PROVE  ProcessTypes'
  BY <1>8 DEF RestoreRows, Restored, Fault, Goto
<1>9. ASSUME NEW c \in Caller, MarkUsed(c)
      PROVE  ProcessTypes'
  <2>1. CASE Leave(c)
    BY <2>1
  <2>2. CASE Advance(c, ToRestore(c), "restoring", "recovering")
    BY <1>9, <2>2 DEF MarkUsed, Advance, Goto
  <2>3. QED
    BY <1>9, <2>1, <2>2 DEF MarkUsed
<1>10. ASSUME NEW c \in Caller, MarkRecovered(c)
      PROVE  ProcessTypes'
  BY <1>10 DEF MarkRecovered, Goto
<1>11. ASSUME NEW c \in Caller, resumeIdentity(c)
      PROVE  ProcessTypes'
  BY <1>11 DEF resumeIdentity, Goto
<1>12. ASSUME NEW w \in Worker, Claim(w)
      PROVE  ProcessTypes'
  <2>1. PICK r \in Candidates(Request, 1) :
          /\ task' = [task EXCEPT ![w] = r]
          /\ who' = [who EXCEPT ![w] = owner[r]]
    BY <1>12 DEF Claim
  <2>2. r \in Request
    BY DEF Candidates
  <2>3. QED
    BY <1>12, <2>1, <2>2 DEF Claim, Goto
<1>13. ASSUME NEW w \in Worker, FindExpired(w)
      PROVE  ProcessTypes'
  BY <1>13 DEF FindExpired, Begin, Goto
<1>14. ASSUME NEW w \in Worker, FindRecord(w)
      PROVE  ProcessTypes'
  BY <1>14 DEF FindRecord, SuspensionsOf, Goto
<1>15. ASSUME NEW w \in Worker, Complete(w)
      PROVE  ProcessTypes'
  BY <1>15 DEF Complete, Goto
<1>16. ASSUME NEW w \in Worker, Finish(w)
      PROVE  ProcessTypes'
  BY <1>16 DEF Finish, Goto
<1>17. ASSUME NEW w \in Worker, Fail(w)
      PROVE  ProcessTypes'
  BY <1>17 DEF Fail, Goto
<1>18. ASSUME NEW w \in Worker, DeleteBackups(w)
      PROVE  ProcessTypes'
  BY <1>18 DEF DeleteBackups, Nothing, Goto
<1>19. ASSUME NEW w \in Worker, MarkExpired(w)
      PROVE  ProcessTypes'
  BY <1>19 DEF MarkExpired, Goto
<1>20. ASSUME NEW w \in Worker, Throw(w)
      PROVE  ProcessTypes'
  BY <1>20 DEF Throw, Fault, Abort, Goto
<1>21. ASSUME NEW p \in Process, Resolve(p)
      PROVE  ProcessTypes'
  <2>1. TablesOf(p) \subseteq Table
    BY DEF TablesOf, Table, Immediate
  <2>2. QED
    BY <1>21, <2>1 DEF Resolve, Goto
<1>22. ASSUME NEW p \in Process, LoadRows(p)
      PROVE  ProcessTypes'
  <2>1. /\ ToErase(p) \in Table
        /\ content[who[p]][ToErase(p)] \in SUBSET Row
    BY <1>22, AtWork DEF LoadRows, Knows, OnTables
  <2>2. memory' \in [Process -> [Table -> SUBSET Row]]
    BY <1>22, <2>1 DEF LoadRows
  <2>3. /\ stage' \in [Process -> Stages]
        /\ todo' \in [Process -> SUBSET Table]
    <3>1. CASE Goto(p, "saving") /\ UNCHANGED todo
      BY <3>1 DEF Goto
    <3>2. CASE Advance(p, ToErase(p), "loading", AfterTables(p))
      BY <3>2 DEF Advance, AfterTables, Goto
    <3>3. QED
      BY <1>22, <3>1, <3>2 DEF LoadRows
  <2>4. QED
    BY <1>22, <2>2, <2>3 DEF LoadRows
<1>23. ASSUME NEW p \in Process, CreateBackup(p)
      PROVE  ProcessTypes'
  BY <1>23 DEF CreateBackup, Abort, Goto
<1>24. ASSUME NEW p \in Process, EraseRows(p)
      PROVE  ProcessTypes'
  BY <1>24 DEF EraseRows, Erased, Advance, AfterTables, Goto
<1>25. ASSUME NEW p \in Process, Notify(p)
      PROVE  ProcessTypes'
  BY <1>25 DEF Notify, Goto
<1>26. ASSUME NEW p \in Process, Crash(p)
      PROVE  ProcessTypes'
  BY <1>26 DEF Crash, Fault, Goto
<1>27. ASSUME NEW s0 \in Suspension, WindowCloses(s0)
      PROVE  ProcessTypes'
  BY <1>27 DEF WindowCloses
<1>28. ASSUME NEW i \in Identity, CooldownPasses(i)
      PROVE  ProcessTypes'
  BY <1>28 DEF CooldownPasses
<1>29. CASE Tick
  BY <1>29 DEF Tick, AgeRows
<1>30. CASE UNCHANGED vars
  BY <1>30 DEF vars
<1>31. QED
  BY <1>1, <1>2, <1>3, <1>4, <1>5, <1>6, <1>7, <1>8, <1>9, <1>10, <1>11, <1>12, <1>13,
     <1>14, <1>15, <1>16, <1>17, <1>18, <1>19, <1>20, <1>21, <1>22, <1>23, <1>24,
     <1>25, <1>26, <1>27, <1>28, <1>29, <1>30
     DEF Next, CallerStep, WorkerStep, ProcessStep

-----------------------------------------------------------------------------
(* A record keeps its identity, and a window that has closed stays closed. *)
LEMMA HolderStep ==
  SafetyInv /\ [Next]_vars =>
    /\ \A s \in Suspension : holder[s] \in Identity => holder'[s] = holder[s]
    /\ closed \subseteq closed'
<1> SUFFICES ASSUME SafetyInv, [Next]_vars
             PROVE  /\ \A s \in Suspension : holder[s] \in Identity => holder'[s] = holder[s]
             /\ closed \subseteq closed'
  OBVIOUS
<1>0. RequestTypes /\ AccountTypes /\ RecordTypes /\ ProcessTypes
  BY TypeParts DEF SafetyInv
<1> USE DEF tableVars, accountVars, recordVars, backupVars, procVars
<1>1. ASSUME NEW c \in Caller, NEW i \in Identity, requestSuspension(c, i)
      PROVE  /\ \A s \in Suspension : holder[s] \in Identity => holder'[s] = holder[s]
             /\ closed \subseteq closed'
  BY <1>1 DEF requestSuspension, Begin, Goto
<1>2. ASSUME NEW c \in Caller, NEW i \in Identity, recoverAccount(c, i)
      PROVE  /\ \A s \in Suspension : holder[s] \in Identity => holder'[s] = holder[s]
             /\ closed \subseteq closed'
  BY <1>2 DEF recoverAccount, Begin, Goto
<1>3. ASSUME NEW c \in Caller, suspendIdentity(c)
      PROVE  /\ \A s \in Suspension : holder[s] \in Identity => holder'[s] = holder[s]
             /\ closed \subseteq closed'
  BY <1>3 DEF suspendIdentity, Goto
<1>4. ASSUME NEW c \in Caller, CreateRecord(c)
      PROVE  /\ \A s \in Suspension : holder[s] \in Identity => holder'[s] = holder[s]
             /\ closed \subseteq closed'
  <2>1. PICK s \in Suspension :
          /\ state[s] = "NONE"
          /\ holder' = [holder EXCEPT ![s] = who[c]]
    BY <1>4 DEF CreateRecord
  <2>2. holder[s] \notin Identity
    BY <2>1, NoIdentityAssumption DEF SafetyInv, RecordsOK
  <2>3. QED
    BY <1>4, <1>0, <2>1, <2>2 DEF CreateRecord, RecordTypes
<1>5. ASSUME NEW c \in Caller, CreateRequest(c)
      PROVE  /\ \A s \in Suspension : holder[s] \in Identity => holder'[s] = holder[s]
             /\ closed \subseteq closed'
  BY <1>5 DEF CreateRequest, createRequest, SetStatus, Leave, Goto
<1>6. ASSUME NEW c \in Caller, getActiveSuspension(c)
      PROVE  /\ \A s \in Suspension : holder[s] \in Identity => holder'[s] = holder[s]
             /\ closed \subseteq closed'
  BY <1>6 DEF getActiveSuspension, SuspensionsOf, Leave, Goto
<1>7. ASSUME NEW c \in Caller, CollectBackups(c)
      PROVE  /\ \A s \in Suspension : holder[s] \in Identity => holder'[s] = holder[s]
             /\ closed \subseteq closed'
  BY <1>7 DEF CollectBackups, Unused, Goto
<1>8. ASSUME NEW c \in Caller, RestoreRows(c)
      PROVE  /\ \A s \in Suspension : holder[s] \in Identity => holder'[s] = holder[s]
             /\ closed \subseteq closed'
  BY <1>8 DEF RestoreRows, Restored, Fault, Goto
<1>9. ASSUME NEW c \in Caller, MarkUsed(c)
      PROVE  /\ \A s \in Suspension : holder[s] \in Identity => holder'[s] = holder[s]
             /\ closed \subseteq closed'
  BY <1>9 DEF MarkUsed, Advance, Leave, Goto
<1>10. ASSUME NEW c \in Caller, MarkRecovered(c)
      PROVE  /\ \A s \in Suspension : holder[s] \in Identity => holder'[s] = holder[s]
             /\ closed \subseteq closed'
  BY <1>10 DEF MarkRecovered, Goto
<1>11. ASSUME NEW c \in Caller, resumeIdentity(c)
      PROVE  /\ \A s \in Suspension : holder[s] \in Identity => holder'[s] = holder[s]
             /\ closed \subseteq closed'
  BY <1>11 DEF resumeIdentity, Goto
<1>12. ASSUME NEW w \in Worker, Claim(w)
      PROVE  /\ \A s \in Suspension : holder[s] \in Identity => holder'[s] = holder[s]
             /\ closed \subseteq closed'
  BY <1>12 DEF Claim, Goto
<1>13. ASSUME NEW w \in Worker, FindExpired(w)
      PROVE  /\ \A s \in Suspension : holder[s] \in Identity => holder'[s] = holder[s]
             /\ closed \subseteq closed'
  BY <1>13 DEF FindExpired, Begin, Goto
<1>14. ASSUME NEW w \in Worker, FindRecord(w)
      PROVE  /\ \A s \in Suspension : holder[s] \in Identity => holder'[s] = holder[s]
             /\ closed \subseteq closed'
  BY <1>14 DEF FindRecord, SuspensionsOf, Goto
<1>15. ASSUME NEW w \in Worker, Complete(w)
      PROVE  /\ \A s \in Suspension : holder[s] \in Identity => holder'[s] = holder[s]
             /\ closed \subseteq closed'
  BY <1>15 DEF Complete, markRequestCompleted, GuardedUpdate, SetStatus, Leave, Goto
<1>16. ASSUME NEW w \in Worker, Finish(w)
      PROVE  /\ \A s \in Suspension : holder[s] \in Identity => holder'[s] = holder[s]
             /\ closed \subseteq closed'
  BY <1>16 DEF Finish, Goto
<1>17. ASSUME NEW w \in Worker, Fail(w)
      PROVE  /\ \A s \in Suspension : holder[s] \in Identity => holder'[s] = holder[s]
             /\ closed \subseteq closed'
  BY <1>17 DEF Fail, markRequestFailed, GuardedUpdate, SetStatus, Leave, Goto
<1>18. ASSUME NEW w \in Worker, DeleteBackups(w)
      PROVE  /\ \A s \in Suspension : holder[s] \in Identity => holder'[s] = holder[s]
             /\ closed \subseteq closed'
  BY <1>18 DEF DeleteBackups, Nothing, Goto
<1>19. ASSUME NEW w \in Worker, MarkExpired(w)
      PROVE  /\ \A s \in Suspension : holder[s] \in Identity => holder'[s] = holder[s]
             /\ closed \subseteq closed'
  BY <1>19 DEF MarkExpired, Goto
<1>20. ASSUME NEW w \in Worker, Throw(w)
      PROVE  /\ \A s \in Suspension : holder[s] \in Identity => holder'[s] = holder[s]
             /\ closed \subseteq closed'
  BY <1>20 DEF Throw, Fault, Abort, Leave, Goto
<1>21. ASSUME NEW p \in Process, Resolve(p)
      PROVE  /\ \A s \in Suspension : holder[s] \in Identity => holder'[s] = holder[s]
             /\ closed \subseteq closed'
  BY <1>21 DEF Resolve, TablesOf, Goto
<1>22. ASSUME NEW p \in Process, LoadRows(p)
      PROVE  /\ \A s \in Suspension : holder[s] \in Identity => holder'[s] = holder[s]
             /\ closed \subseteq closed'
  BY <1>22 DEF LoadRows, Advance, AfterTables, Goto
<1>23. ASSUME NEW p \in Process, CreateBackup(p)
      PROVE  /\ \A s \in Suspension : holder[s] \in Identity => holder'[s] = holder[s]
             /\ closed \subseteq closed'
  BY <1>23 DEF CreateBackup, Abort, Leave, Goto
<1>24. ASSUME NEW p \in Process, EraseRows(p)
      PROVE  /\ \A s \in Suspension : holder[s] \in Identity => holder'[s] = holder[s]
             /\ closed \subseteq closed'
  BY <1>24 DEF EraseRows, Erased, Advance, AfterTables, Goto
<1>25. ASSUME NEW p \in Process, Notify(p)
      PROVE  /\ \A s \in Suspension : holder[s] \in Identity => holder'[s] = holder[s]
             /\ closed \subseteq closed'
  BY <1>25 DEF Notify, Leave, Goto
<1>26. ASSUME NEW p \in Process, Crash(p)
      PROVE  /\ \A s \in Suspension : holder[s] \in Identity => holder'[s] = holder[s]
             /\ closed \subseteq closed'
  BY <1>26 DEF Crash, Fault, Leave, Goto
<1>27. ASSUME NEW s0 \in Suspension, WindowCloses(s0)
      PROVE  /\ \A s \in Suspension : holder[s] \in Identity => holder'[s] = holder[s]
             /\ closed \subseteq closed'
  BY <1>27 DEF WindowCloses
<1>28. ASSUME NEW i \in Identity, CooldownPasses(i)
      PROVE  /\ \A s \in Suspension : holder[s] \in Identity => holder'[s] = holder[s]
             /\ closed \subseteq closed'
  BY <1>28 DEF CooldownPasses
<1>29. CASE Tick
  BY <1>29 DEF Tick, AgeRows
<1>30. CASE UNCHANGED vars
  BY <1>30 DEF vars
<1>31. QED
  BY <1>1, <1>2, <1>3, <1>4, <1>5, <1>6, <1>7, <1>8, <1>9, <1>10, <1>11, <1>12, <1>13,
     <1>14, <1>15, <1>16, <1>17, <1>18, <1>19, <1>20, <1>21, <1>22, <1>23, <1>24,
     <1>25, <1>26, <1>27, <1>28, <1>29, <1>30
     DEF Next, CallerStep, WorkerStep, ProcessStep

(* A backup is not overwritten, and deleted only once the window is closed. *)
LEMMA BackupStep ==
  SafetyInv /\ [Next]_vars =>
    \A s \in Suspension, t \in Table :
      "original" \in backup[s][t] => "original" \in backup'[s][t] \/ s \in closed
<1> SUFFICES ASSUME SafetyInv, [Next]_vars
             PROVE  \A s \in Suspension, t \in Table :
               "original" \in backup[s][t]
                 => "original" \in backup'[s][t] \/ s \in closed
  OBVIOUS
<1>0. RequestTypes /\ AccountTypes /\ RecordTypes /\ ProcessTypes
  BY TypeParts DEF SafetyInv
<1> USE DEF tableVars, accountVars, recordVars, backupVars, procVars
<1>1. ASSUME NEW c \in Caller, NEW i \in Identity, requestSuspension(c, i)
      PROVE  \A s \in Suspension, t \in Table :
               "original" \in backup[s][t]
                 => "original" \in backup'[s][t] \/ s \in closed
  BY <1>1 DEF requestSuspension, Begin, Goto
<1>2. ASSUME NEW c \in Caller, NEW i \in Identity, recoverAccount(c, i)
      PROVE  \A s \in Suspension, t \in Table :
               "original" \in backup[s][t]
                 => "original" \in backup'[s][t] \/ s \in closed
  BY <1>2 DEF recoverAccount, Begin, Goto
<1>3. ASSUME NEW c \in Caller, suspendIdentity(c)
      PROVE  \A s \in Suspension, t \in Table :
               "original" \in backup[s][t]
                 => "original" \in backup'[s][t] \/ s \in closed
  BY <1>3 DEF suspendIdentity, Goto
<1>4. ASSUME NEW c \in Caller, CreateRecord(c)
      PROVE  \A s \in Suspension, t \in Table :
               "original" \in backup[s][t]
                 => "original" \in backup'[s][t] \/ s \in closed
  BY <1>4 DEF CreateRecord, Goto
<1>5. ASSUME NEW c \in Caller, CreateRequest(c)
      PROVE  \A s \in Suspension, t \in Table :
               "original" \in backup[s][t]
                 => "original" \in backup'[s][t] \/ s \in closed
  BY <1>5 DEF CreateRequest, createRequest, SetStatus, Leave, Goto
<1>6. ASSUME NEW c \in Caller, getActiveSuspension(c)
      PROVE  \A s \in Suspension, t \in Table :
               "original" \in backup[s][t]
                 => "original" \in backup'[s][t] \/ s \in closed
  BY <1>6 DEF getActiveSuspension, SuspensionsOf, Leave, Goto
<1>7. ASSUME NEW c \in Caller, CollectBackups(c)
      PROVE  \A s \in Suspension, t \in Table :
               "original" \in backup[s][t]
                 => "original" \in backup'[s][t] \/ s \in closed
  BY <1>7 DEF CollectBackups, Unused, Goto
<1>8. ASSUME NEW c \in Caller, RestoreRows(c)
      PROVE  \A s \in Suspension, t \in Table :
               "original" \in backup[s][t]
                 => "original" \in backup'[s][t] \/ s \in closed
  BY <1>8 DEF RestoreRows, Restored, Fault, Goto
<1>9. ASSUME NEW c \in Caller, MarkUsed(c)
      PROVE  \A s \in Suspension, t \in Table :
               "original" \in backup[s][t]
                 => "original" \in backup'[s][t] \/ s \in closed
  BY <1>9 DEF MarkUsed, Advance, Leave, Goto
<1>10. ASSUME NEW c \in Caller, MarkRecovered(c)
      PROVE  \A s \in Suspension, t \in Table :
               "original" \in backup[s][t]
                 => "original" \in backup'[s][t] \/ s \in closed
  BY <1>10 DEF MarkRecovered, Goto
<1>11. ASSUME NEW c \in Caller, resumeIdentity(c)
      PROVE  \A s \in Suspension, t \in Table :
               "original" \in backup[s][t]
                 => "original" \in backup'[s][t] \/ s \in closed
  BY <1>11 DEF resumeIdentity, Goto
<1>12. ASSUME NEW w \in Worker, Claim(w)
      PROVE  \A s \in Suspension, t \in Table :
               "original" \in backup[s][t]
                 => "original" \in backup'[s][t] \/ s \in closed
  BY <1>12 DEF Claim, Goto
<1>13. ASSUME NEW w \in Worker, FindExpired(w)
      PROVE  \A s \in Suspension, t \in Table :
               "original" \in backup[s][t]
                 => "original" \in backup'[s][t] \/ s \in closed
  BY <1>13 DEF FindExpired, Begin, Goto
<1>14. ASSUME NEW w \in Worker, FindRecord(w)
      PROVE  \A s \in Suspension, t \in Table :
               "original" \in backup[s][t]
                 => "original" \in backup'[s][t] \/ s \in closed
  BY <1>14 DEF FindRecord, SuspensionsOf, Goto
<1>15. ASSUME NEW w \in Worker, Complete(w)
      PROVE  \A s \in Suspension, t \in Table :
               "original" \in backup[s][t]
                 => "original" \in backup'[s][t] \/ s \in closed
  BY <1>15 DEF Complete, markRequestCompleted, GuardedUpdate, SetStatus, Leave, Goto
<1>16. ASSUME NEW w \in Worker, Finish(w)
      PROVE  \A s \in Suspension, t \in Table :
               "original" \in backup[s][t]
                 => "original" \in backup'[s][t] \/ s \in closed
  BY <1>16 DEF Finish, Goto
<1>17. ASSUME NEW w \in Worker, Fail(w)
      PROVE  \A s \in Suspension, t \in Table :
               "original" \in backup[s][t]
                 => "original" \in backup'[s][t] \/ s \in closed
  BY <1>17 DEF Fail, markRequestFailed, GuardedUpdate, SetStatus, Leave, Goto
<1>18. ASSUME NEW w \in Worker, DeleteBackups(w)
      PROVE  \A s \in Suspension, t \in Table :
               "original" \in backup[s][t]
                 => "original" \in backup'[s][t] \/ s \in closed
  <2>1. record[w] \in closed
    BY <1>18, AtWork DEF DeleteBackups, Knows, Finalizing, Process
  <2>2. QED
    BY <1>18, <1>0, <2>1 DEF DeleteBackups, RecordTypes
<1>19. ASSUME NEW w \in Worker, MarkExpired(w)
      PROVE  \A s \in Suspension, t \in Table :
               "original" \in backup[s][t]
                 => "original" \in backup'[s][t] \/ s \in closed
  BY <1>19 DEF MarkExpired, Goto
<1>20. ASSUME NEW w \in Worker, Throw(w)
      PROVE  \A s \in Suspension, t \in Table :
               "original" \in backup[s][t]
                 => "original" \in backup'[s][t] \/ s \in closed
  BY <1>20 DEF Throw, Fault, Abort, Leave, Goto
<1>21. ASSUME NEW p \in Process, Resolve(p)
      PROVE  \A s \in Suspension, t \in Table :
               "original" \in backup[s][t]
                 => "original" \in backup'[s][t] \/ s \in closed
  BY <1>21 DEF Resolve, TablesOf, Goto
<1>22. ASSUME NEW p \in Process, LoadRows(p)
      PROVE  \A s \in Suspension, t \in Table :
               "original" \in backup[s][t]
                 => "original" \in backup'[s][t] \/ s \in closed
  BY <1>22 DEF LoadRows, Advance, AfterTables, Goto
<1>23. ASSUME NEW p \in Process, CreateBackup(p)
      PROVE  \A s \in Suspension, t \in Table :
               "original" \in backup[s][t]
                 => "original" \in backup'[s][t] \/ s \in closed
  <2>1. \/ UNCHANGED backup
        \/ /\ backup[record[p]][ToErase(p)] = {}
           /\ backup' = [backup EXCEPT ![record[p]][ToErase(p)] = memory[p][ToErase(p)]]
    BY <1>23 DEF CreateBackup
  <2>2. QED
    BY <1>0, <2>1 DEF RecordTypes
<1>24. ASSUME NEW p \in Process, EraseRows(p)
      PROVE  \A s \in Suspension, t \in Table :
               "original" \in backup[s][t]
                 => "original" \in backup'[s][t] \/ s \in closed
  BY <1>24 DEF EraseRows, Erased, Advance, AfterTables, Goto
<1>25. ASSUME NEW p \in Process, Notify(p)
      PROVE  \A s \in Suspension, t \in Table :
               "original" \in backup[s][t]
                 => "original" \in backup'[s][t] \/ s \in closed
  BY <1>25 DEF Notify, Leave, Goto
<1>26. ASSUME NEW p \in Process, Crash(p)
      PROVE  \A s \in Suspension, t \in Table :
               "original" \in backup[s][t]
                 => "original" \in backup'[s][t] \/ s \in closed
  BY <1>26 DEF Crash, Fault, Leave, Goto
<1>27. ASSUME NEW s0 \in Suspension, WindowCloses(s0)
      PROVE  \A s \in Suspension, t \in Table :
               "original" \in backup[s][t]
                 => "original" \in backup'[s][t] \/ s \in closed
  BY <1>27 DEF WindowCloses
<1>28. ASSUME NEW i \in Identity, CooldownPasses(i)
      PROVE  \A s \in Suspension, t \in Table :
               "original" \in backup[s][t]
                 => "original" \in backup'[s][t] \/ s \in closed
  BY <1>28 DEF CooldownPasses
<1>29. CASE Tick
  BY <1>29 DEF Tick, AgeRows
<1>30. CASE UNCHANGED vars
  BY <1>30 DEF vars
<1>31. QED
  BY <1>1, <1>2, <1>3, <1>4, <1>5, <1>6, <1>7, <1>8, <1>9, <1>10, <1>11, <1>12, <1>13,
     <1>14, <1>15, <1>16, <1>17, <1>18, <1>19, <1>20, <1>21, <1>22, <1>23, <1>24,
     <1>25, <1>26, <1>27, <1>28, <1>29, <1>30
     DEF Next, CallerStep, WorkerStep, ProcessStep

(* What is safe stays safe.                                                *)
LEMMA SafeStep ==
  ASSUME SafetyInv, [Next]_vars, NEW i \in Identity, NEW t \in Table, Safe(i, t)
  PROVE  Safe(i, t)'
<1>0. RecordTypes
  BY TypeParts DEF SafetyInv
<1>1. /\ \A s \in Suspension : holder[s] \in Identity => holder'[s] = holder[s]
      /\ closed \subseteq closed'
  BY HolderStep
<1>2. CASE \E s \in closed : holder[s] = i
  BY <1>0, <1>1, <1>2 DEF Safe, RecordTypes
<1>3. CASE \E s \in Suspension : holder[s] = i /\ "original" \in backup[s][t]
  <2>1. PICK s \in Suspension : holder[s] = i /\ "original" \in backup[s][t]
    BY <1>3
  <2>2. holder'[s] = i
    BY <1>1, <2>1
  <2>3. "original" \in backup'[s][t] \/ s \in closed
    BY <2>1, BackupStep
  <2>4. QED
    BY <1>1, <2>2, <2>3 DEF Safe
<1>4. QED
  BY <1>2, <1>3 DEF Safe

-----------------------------------------------------------------------------
(* Requests and suspensions that exist belong to somebody.                 *)
LEMMA RowsStep == SafetyInv /\ [Next]_vars => RowsOK'
<1> SUFFICES ASSUME SafetyInv, [Next]_vars
             PROVE  RowsOK'
  OBVIOUS
<1>0. RequestTypes /\ AccountTypes /\ RecordTypes /\ ProcessTypes
  BY TypeParts DEF SafetyInv
<1>a. RowsOK
  BY DEF SafetyInv
<1> USE <1>0, <1>a
<1> USE DEF tableVars, accountVars, recordVars, backupVars, procVars, RequestTypes, TableTypeOK,
            RowsOK
<1>1. ASSUME NEW c \in Caller, NEW i \in Identity, requestSuspension(c, i)
      PROVE  RowsOK'
  BY <1>1 DEF requestSuspension, Begin, Goto
<1>2. ASSUME NEW c \in Caller, NEW i \in Identity, recoverAccount(c, i)
      PROVE  RowsOK'
  BY <1>2 DEF recoverAccount, Begin, Goto
<1>3. ASSUME NEW c \in Caller, suspendIdentity(c)
      PROVE  RowsOK'
  BY <1>3 DEF suspendIdentity, Goto
<1>4. ASSUME NEW c \in Caller, CreateRecord(c)
      PROVE  RowsOK'
  BY <1>4 DEF CreateRecord, Goto
<1>5. ASSUME NEW c \in Caller, CreateRequest(c)
      PROVE  RowsOK'
  <2>1. who[c] \in Identity
    BY <1>5, AtWork DEF CreateRequest, Knows, Process
  <2>2. PICK r \in Request :
          /\ createRequest(r)
          /\ owner' = [owner EXCEPT ![r] = who[c]]
    BY <1>5 DEF CreateRequest
  <2>3. QED
    BY <2>1, <2>2 DEF createRequest, SetStatus
<1>6. ASSUME NEW c \in Caller, getActiveSuspension(c)
      PROVE  RowsOK'
  BY <1>6 DEF getActiveSuspension, SuspensionsOf, Leave, Goto
<1>7. ASSUME NEW c \in Caller, CollectBackups(c)
      PROVE  RowsOK'
  BY <1>7 DEF CollectBackups, Unused, Goto
<1>8. ASSUME NEW c \in Caller, RestoreRows(c)
      PROVE  RowsOK'
  BY <1>8 DEF RestoreRows, Restored, Fault, Goto
<1>9. ASSUME NEW c \in Caller, MarkUsed(c)
      PROVE  RowsOK'
  BY <1>9 DEF MarkUsed, Advance, Leave, Goto
<1>10. ASSUME NEW c \in Caller, MarkRecovered(c)
      PROVE  RowsOK'
  BY <1>10 DEF MarkRecovered, Goto
<1>11. ASSUME NEW c \in Caller, resumeIdentity(c)
      PROVE  RowsOK'
  BY <1>11 DEF resumeIdentity, Goto
<1>12. ASSUME NEW w \in Worker, Claim(w)
      PROVE  RowsOK'
  <2>1. PICK r \in Candidates(Request, 1) : ClaimRows({r})
    BY <1>12 DEF Claim
  <2>2. r \in Request /\ status[r] # "NONE"
    BY DEF Candidates, Claimable, Stale
  <2>3. QED
    BY <1>12, <2>1, <2>2 DEF Claim, ClaimRows
<1>13. ASSUME NEW w \in Worker, FindExpired(w)
      PROVE  RowsOK'
  BY <1>13 DEF FindExpired, Begin, Goto
<1>14. ASSUME NEW w \in Worker, FindRecord(w)
      PROVE  RowsOK'
  BY <1>14 DEF FindRecord, SuspensionsOf, Goto
<1>15. ASSUME NEW w \in Worker, Complete(w)
      PROVE  RowsOK'
  <2>1. task[w] \in Request
    BY <1>15, AtWork DEF Complete, Knows, Deferring, Process
  <2>2. status[task[w]] = "PROCESSING" \/ UNCHANGED status
    BY <1>15 DEF Complete, markRequestCompleted, GuardedUpdate
  <2>3. QED
    BY <1>15, <2>1, <2>2 DEF Complete, markRequestCompleted, GuardedUpdate, SetStatus
<1>16. ASSUME NEW w \in Worker, Finish(w)
      PROVE  RowsOK'
  BY <1>16 DEF Finish, Goto
<1>17. ASSUME NEW w \in Worker, Fail(w)
      PROVE  RowsOK'
  <2>1. task[w] \in Request
    BY <1>17, AtWork DEF Fail, Knows, Deferring, Process
  <2>2. status[task[w]] = "PROCESSING" \/ UNCHANGED status
    BY <1>17 DEF Fail, markRequestFailed, GuardedUpdate
  <2>3. QED
    BY <1>17, <2>1, <2>2 DEF Fail, markRequestFailed, GuardedUpdate, SetStatus
<1>18. ASSUME NEW w \in Worker, DeleteBackups(w)
      PROVE  RowsOK'
  BY <1>18 DEF DeleteBackups, Nothing, Goto
<1>19. ASSUME NEW w \in Worker, MarkExpired(w)
      PROVE  RowsOK'
  BY <1>19 DEF MarkExpired, Goto
<1>20. ASSUME NEW w \in Worker, Throw(w)
      PROVE  RowsOK'
  BY <1>20 DEF Throw, Fault, Abort, Leave, Goto
<1>21. ASSUME NEW p \in Process, Resolve(p)
      PROVE  RowsOK'
  BY <1>21 DEF Resolve, TablesOf, Goto
<1>22. ASSUME NEW p \in Process, LoadRows(p)
      PROVE  RowsOK'
  BY <1>22 DEF LoadRows, Advance, AfterTables, Goto
<1>23. ASSUME NEW p \in Process, CreateBackup(p)
      PROVE  RowsOK'
  BY <1>23 DEF CreateBackup, Abort, Leave, Goto
<1>24. ASSUME NEW p \in Process, EraseRows(p)
      PROVE  RowsOK'
  BY <1>24 DEF EraseRows, Erased, Advance, AfterTables, Goto
<1>25. ASSUME NEW p \in Process, Notify(p)
      PROVE  RowsOK'
  BY <1>25 DEF Notify, Leave, Goto
<1>26. ASSUME NEW p \in Process, Crash(p)
      PROVE  RowsOK'
  BY <1>26 DEF Crash, Fault, Leave, Goto
<1>27. ASSUME NEW s0 \in Suspension, WindowCloses(s0)
      PROVE  RowsOK'
  BY <1>27 DEF WindowCloses
<1>28. ASSUME NEW i \in Identity, CooldownPasses(i)
      PROVE  RowsOK'
  BY <1>28 DEF CooldownPasses
<1>29. CASE Tick
  BY <1>29 DEF Tick, AgeRows
<1>30. CASE UNCHANGED vars
  BY <1>30 DEF vars
<1>31. QED
  BY <1>1, <1>2, <1>3, <1>4, <1>5, <1>6, <1>7, <1>8, <1>9, <1>10, <1>11, <1>12, <1>13,
     <1>14, <1>15, <1>16, <1>17, <1>18, <1>19, <1>20, <1>21, <1>22, <1>23, <1>24,
     <1>25, <1>26, <1>27, <1>28, <1>29, <1>30
     DEF Next, CallerStep, WorkerStep, ProcessStep

LEMMA RecordsStep == SafetyInv /\ [Next]_vars => RecordsOK'
<1> SUFFICES ASSUME SafetyInv, [Next]_vars
             PROVE  RecordsOK'
  OBVIOUS
<1>0. RequestTypes /\ AccountTypes /\ RecordTypes /\ ProcessTypes
  BY TypeParts DEF SafetyInv
<1>a. RecordsOK
  BY DEF SafetyInv
<1> USE <1>0, <1>a
<1> USE DEF tableVars, accountVars, recordVars, backupVars, procVars, RecordTypes, RecordsOK
<1>1. ASSUME NEW c \in Caller, NEW i \in Identity, requestSuspension(c, i)
      PROVE  RecordsOK'
  BY <1>1 DEF requestSuspension, Begin, Goto
<1>2. ASSUME NEW c \in Caller, NEW i \in Identity, recoverAccount(c, i)
      PROVE  RecordsOK'
  BY <1>2 DEF recoverAccount, Begin, Goto
<1>3. ASSUME NEW c \in Caller, suspendIdentity(c)
      PROVE  RecordsOK'
  BY <1>3 DEF suspendIdentity, Goto
<1>4. ASSUME NEW c \in Caller, CreateRecord(c)
      PROVE  RecordsOK'
  <2>1. who[c] \in Identity
    BY <1>4, AtWork DEF CreateRecord, Knows, Process
  <2>2. QED
    BY <1>4, <2>1, NoIdentityAssumption DEF CreateRecord
<1>5. ASSUME NEW c \in Caller, CreateRequest(c)
      PROVE  RecordsOK'
  BY <1>5 DEF CreateRequest, createRequest, SetStatus, Leave, Goto
<1>6. ASSUME NEW c \in Caller, getActiveSuspension(c)
      PROVE  RecordsOK'
  BY <1>6 DEF getActiveSuspension, SuspensionsOf, Leave, Goto
<1>7. ASSUME NEW c \in Caller, CollectBackups(c)
      PROVE  RecordsOK'
  BY <1>7 DEF CollectBackups, Unused, Goto
<1>8. ASSUME NEW c \in Caller, RestoreRows(c)
      PROVE  RecordsOK'
  BY <1>8 DEF RestoreRows, Restored, Fault, Goto
<1>9. ASSUME NEW c \in Caller, MarkUsed(c)
      PROVE  RecordsOK'
  BY <1>9 DEF MarkUsed, Advance, Leave, Goto
<1>10. ASSUME NEW c \in Caller, MarkRecovered(c)
      PROVE  RecordsOK'
  <2>1. record[c] \in Suspension /\ holder[record[c]] \in Identity
    BY <1>10, AtWork DEF MarkRecovered, Knows, Process
  <2>2. state[record[c]] # "NONE"
    BY <2>1, NoIdentityAssumption
  <2>3. QED
    BY <1>10, <2>2 DEF MarkRecovered
<1>11. ASSUME NEW c \in Caller, resumeIdentity(c)
      PROVE  RecordsOK'
  BY <1>11 DEF resumeIdentity, Goto
<1>12. ASSUME NEW w \in Worker, Claim(w)
      PROVE  RecordsOK'
  BY <1>12 DEF Claim, Goto
<1>13. ASSUME NEW w \in Worker, FindExpired(w)
      PROVE  RecordsOK'
  BY <1>13 DEF FindExpired, Begin, Goto
<1>14. ASSUME NEW w \in Worker, FindRecord(w)
      PROVE  RecordsOK'
  BY <1>14 DEF FindRecord, SuspensionsOf, Goto
<1>15. ASSUME NEW w \in Worker, Complete(w)
      PROVE  RecordsOK'
  BY <1>15 DEF Complete, markRequestCompleted, GuardedUpdate, SetStatus, Leave, Goto
<1>16. ASSUME NEW w \in Worker, Finish(w)
      PROVE  RecordsOK'
  <2>1. record[w] \in Suspension /\ holder[record[w]] \in Identity
    BY <1>16, AtWork DEF Finish, Knows, Process
  <2>2. state[record[w]] # "NONE"
    BY <2>1, NoIdentityAssumption
  <2>3. QED
    BY <1>16, <2>2 DEF Finish
<1>17. ASSUME NEW w \in Worker, Fail(w)
      PROVE  RecordsOK'
  BY <1>17 DEF Fail, markRequestFailed, GuardedUpdate, SetStatus, Leave, Goto
<1>18. ASSUME NEW w \in Worker, DeleteBackups(w)
      PROVE  RecordsOK'
  BY <1>18 DEF DeleteBackups, Nothing, Goto
<1>19. ASSUME NEW w \in Worker, MarkExpired(w)
      PROVE  RecordsOK'
  <2>1. record[w] \in Suspension /\ holder[record[w]] \in Identity
    BY <1>19, AtWork DEF MarkExpired, Knows, Process
  <2>2. state[record[w]] # "NONE"
    BY <2>1, NoIdentityAssumption
  <2>3. QED
    BY <1>19, <2>2 DEF MarkExpired
<1>20. ASSUME NEW w \in Worker, Throw(w)
      PROVE  RecordsOK'
  BY <1>20 DEF Throw, Fault, Abort, Leave, Goto
<1>21. ASSUME NEW p \in Process, Resolve(p)
      PROVE  RecordsOK'
  BY <1>21 DEF Resolve, TablesOf, Goto
<1>22. ASSUME NEW p \in Process, LoadRows(p)
      PROVE  RecordsOK'
  BY <1>22 DEF LoadRows, Advance, AfterTables, Goto
<1>23. ASSUME NEW p \in Process, CreateBackup(p)
      PROVE  RecordsOK'
  BY <1>23 DEF CreateBackup, Abort, Leave, Goto
<1>24. ASSUME NEW p \in Process, EraseRows(p)
      PROVE  RecordsOK'
  BY <1>24 DEF EraseRows, Erased, Advance, AfterTables, Goto
<1>25. ASSUME NEW p \in Process, Notify(p)
      PROVE  RecordsOK'
  BY <1>25 DEF Notify, Leave, Goto
<1>26. ASSUME NEW p \in Process, Crash(p)
      PROVE  RecordsOK'
  BY <1>26 DEF Crash, Fault, Leave, Goto
<1>27. ASSUME NEW s0 \in Suspension, WindowCloses(s0)
      PROVE  RecordsOK'
  BY <1>27 DEF WindowCloses
<1>28. ASSUME NEW i \in Identity, CooldownPasses(i)
      PROVE  RecordsOK'
  BY <1>28 DEF CooldownPasses
<1>29. CASE Tick
  BY <1>29 DEF Tick, AgeRows
<1>30. CASE UNCHANGED vars
  BY <1>30 DEF vars
<1>31. QED
  BY <1>1, <1>2, <1>3, <1>4, <1>5, <1>6, <1>7, <1>8, <1>9, <1>10, <1>11, <1>12, <1>13,
     <1>14, <1>15, <1>16, <1>17, <1>18, <1>19, <1>20, <1>21, <1>22, <1>23, <1>24,
     <1>25, <1>26, <1>27, <1>28, <1>29, <1>30
     DEF Next, CallerStep, WorkerStep, ProcessStep

LEMMA ChannelsStep == SafetyInv /\ [Next]_vars => ChannelsNeedSettings'
<1> SUFFICES ASSUME SafetyInv, [Next]_vars
             PROVE  ChannelsNeedSettings'
  OBVIOUS
<1>0. RequestTypes /\ AccountTypes /\ RecordTypes /\ ProcessTypes
  BY TypeParts DEF SafetyInv
<1>a. ChannelsNeedSettings
  BY DEF SafetyInv
<1> USE <1>0, <1>a
<1> USE DEF tableVars, accountVars, recordVars, backupVars, procVars, AccountTypes,
            ChannelsNeedSettings
<1>b. {"settings", "channels", "log", "profile"} \subseteq Table
  BY DEF Table, Immediate
<1>1. ASSUME NEW c \in Caller, NEW i \in Identity, requestSuspension(c, i)
      PROVE  ChannelsNeedSettings'
  BY <1>1 DEF requestSuspension, Begin, Goto
<1>2. ASSUME NEW c \in Caller, NEW i \in Identity, recoverAccount(c, i)
      PROVE  ChannelsNeedSettings'
  BY <1>2 DEF recoverAccount, Begin, Goto
<1>3. ASSUME NEW c \in Caller, suspendIdentity(c)
      PROVE  ChannelsNeedSettings'
  BY <1>3 DEF suspendIdentity, Goto
<1>4. ASSUME NEW c \in Caller, CreateRecord(c)
      PROVE  ChannelsNeedSettings'
  BY <1>4 DEF CreateRecord, Goto
<1>5. ASSUME NEW c \in Caller, CreateRequest(c)
      PROVE  ChannelsNeedSettings'
  BY <1>5 DEF CreateRequest, createRequest, SetStatus, Leave, Goto
<1>6. ASSUME NEW c \in Caller, getActiveSuspension(c)
      PROVE  ChannelsNeedSettings'
  BY <1>6 DEF getActiveSuspension, SuspensionsOf, Leave, Goto
<1>7. ASSUME NEW c \in Caller, CollectBackups(c)
      PROVE  ChannelsNeedSettings'
  BY <1>7 DEF CollectBackups, Unused, Goto
<1>8. ASSUME NEW c \in Caller, RestoreRows(c)
      PROVE  ChannelsNeedSettings'
  <2>1. who[c] \in Identity /\ ToRestore(c) \in Table
    BY <1>8, AtWork DEF RestoreRows, Knows, Process
  <2>2. CASE UNCHANGED content
    BY <2>2
  <2>3. CASE /\ ~ (ToRestore(c) = "channels" /\ content[who[c]]["settings"] = {})
             /\ content' = [content EXCEPT ![who[c]] =
                              Restored(@, ToRestore(c), memory[c][ToRestore(c)])]
    <3>1. LET new == Restored(content[who[c]], ToRestore(c), memory[c][ToRestore(c)]) IN
            new["settings"] = {} => new["channels"] = {}
      BY <1>b, <2>1, <2>3 DEF Restored
    <3>2. QED
      BY <2>1, <2>3, <3>1
  <2>4. QED
    BY <1>8, <2>2, <2>3 DEF RestoreRows
<1>9. ASSUME NEW c \in Caller, MarkUsed(c)
      PROVE  ChannelsNeedSettings'
  BY <1>9 DEF MarkUsed, Advance, Leave, Goto
<1>10. ASSUME NEW c \in Caller, MarkRecovered(c)
      PROVE  ChannelsNeedSettings'
  BY <1>10 DEF MarkRecovered, Goto
<1>11. ASSUME NEW c \in Caller, resumeIdentity(c)
      PROVE  ChannelsNeedSettings'
  BY <1>11 DEF resumeIdentity, Goto
<1>12. ASSUME NEW w \in Worker, Claim(w)
      PROVE  ChannelsNeedSettings'
  BY <1>12 DEF Claim, Goto
<1>13. ASSUME NEW w \in Worker, FindExpired(w)
      PROVE  ChannelsNeedSettings'
  BY <1>13 DEF FindExpired, Begin, Goto
<1>14. ASSUME NEW w \in Worker, FindRecord(w)
      PROVE  ChannelsNeedSettings'
  BY <1>14 DEF FindRecord, SuspensionsOf, Goto
<1>15. ASSUME NEW w \in Worker, Complete(w)
      PROVE  ChannelsNeedSettings'
  BY <1>15 DEF Complete, markRequestCompleted, GuardedUpdate, SetStatus, Leave, Goto
<1>16. ASSUME NEW w \in Worker, Finish(w)
      PROVE  ChannelsNeedSettings'
  BY <1>16 DEF Finish, Goto
<1>17. ASSUME NEW w \in Worker, Fail(w)
      PROVE  ChannelsNeedSettings'
  BY <1>17 DEF Fail, markRequestFailed, GuardedUpdate, SetStatus, Leave, Goto
<1>18. ASSUME NEW w \in Worker, DeleteBackups(w)
      PROVE  ChannelsNeedSettings'
  BY <1>18 DEF DeleteBackups, Nothing, Goto
<1>19. ASSUME NEW w \in Worker, MarkExpired(w)
      PROVE  ChannelsNeedSettings'
  BY <1>19 DEF MarkExpired, Goto
<1>20. ASSUME NEW w \in Worker, Throw(w)
      PROVE  ChannelsNeedSettings'
  BY <1>20 DEF Throw, Fault, Abort, Leave, Goto
<1>21. ASSUME NEW p \in Process, Resolve(p)
      PROVE  ChannelsNeedSettings'
  BY <1>21 DEF Resolve, TablesOf, Goto
<1>22. ASSUME NEW p \in Process, LoadRows(p)
      PROVE  ChannelsNeedSettings'
  BY <1>22 DEF LoadRows, Advance, AfterTables, Goto
<1>23. ASSUME NEW p \in Process, CreateBackup(p)
      PROVE  ChannelsNeedSettings'
  BY <1>23 DEF CreateBackup, Abort, Leave, Goto
<1>24. ASSUME NEW p \in Process, EraseRows(p)
      PROVE  ChannelsNeedSettings'
  <2>1. who[p] \in Identity /\ ToErase(p) \in Table
    BY <1>24, AtWork DEF EraseRows, Knows, OnTables
  <2>2. LET new == Erased(content[who[p]], ToErase(p)) IN
          new["settings"] = {} => new["channels"] = {}
    BY <1>b, <2>1 DEF Erased, Table, Immediate
  <2>3. QED
    BY <1>24, <2>1, <2>2 DEF EraseRows
<1>25. ASSUME NEW p \in Process, Notify(p)
      PROVE  ChannelsNeedSettings'
  <2>1. who[p] \in Identity
    BY <1>25, AtWork DEF Notify, Knows
  <2>2. QED
    BY <1>25, <1>b, <2>1 DEF Notify
<1>26. ASSUME NEW p \in Process, Crash(p)
      PROVE  ChannelsNeedSettings'
  BY <1>26 DEF Crash, Fault, Leave, Goto
<1>27. ASSUME NEW s0 \in Suspension, WindowCloses(s0)
      PROVE  ChannelsNeedSettings'
  BY <1>27 DEF WindowCloses
<1>28. ASSUME NEW i \in Identity, CooldownPasses(i)
      PROVE  ChannelsNeedSettings'
  BY <1>28 DEF CooldownPasses
<1>29. CASE Tick
  BY <1>29 DEF Tick, AgeRows
<1>30. CASE UNCHANGED vars
  BY <1>30 DEF vars
<1>31. QED
  BY <1>1, <1>2, <1>3, <1>4, <1>5, <1>6, <1>7, <1>8, <1>9, <1>10, <1>11, <1>12, <1>13,
     <1>14, <1>15, <1>16, <1>17, <1>18, <1>19, <1>20, <1>21, <1>22, <1>23, <1>24,
     <1>25, <1>26, <1>27, <1>28, <1>29, <1>30
     DEF Next, CallerStep, WorkerStep, ProcessStep

-----------------------------------------------------------------------------
LEMMA BackupsStep == SafetyInv /\ [Next]_vars => BackupsOK'
<1> SUFFICES ASSUME SafetyInv, [Next]_vars,
                    NEW s \in Suspension, NEW t \in Table, backup'[s][t] # {}
             PROVE  (holder[s] \in Identity /\ Safe(holder[s], t))'
  BY DEF BackupsOK
<1>0. RequestTypes /\ AccountTypes /\ RecordTypes /\ ProcessTypes
  BY TypeParts DEF SafetyInv
<1>a. CASE backup[s][t] # {}
  <2>1. PICK i \in Identity : holder[s] = i /\ Safe(i, t)
    BY <1>a DEF SafetyInv, BackupsOK
  <2>2. holder'[s] = i
    BY <2>1, HolderStep
  <2>3. Safe(i, t)'
    BY <2>1, SafeStep
  <2>4. QED
    BY <2>2, <2>3 DEF Safe
<1>b. CASE backup[s][t] = {}
  <2>1. PICK p \in Process : CreateBackup(p) /\ backup' # backup
    <3> USE DEF tableVars, accountVars, recordVars, backupVars, procVars
    <3> DEFINE Saved == \E p \in Process : CreateBackup(p) /\ backup' # backup
    <3>1. ASSUME NEW c \in Caller, NEW i \in Identity, requestSuspension(c, i)
          PROVE  Saved
      BY <3>1, <1>b DEF requestSuspension, Begin, Goto
    <3>2. ASSUME NEW c \in Caller, NEW i \in Identity, recoverAccount(c, i)
          PROVE  Saved
      BY <3>2, <1>b DEF recoverAccount, Begin, Goto
    <3>3. ASSUME NEW c \in Caller, suspendIdentity(c)
          PROVE  Saved
      BY <3>3, <1>b DEF suspendIdentity, Goto
    <3>4. ASSUME NEW c \in Caller, CreateRecord(c)
          PROVE  Saved
      BY <3>4, <1>b DEF CreateRecord, Goto
    <3>5. ASSUME NEW c \in Caller, CreateRequest(c)
          PROVE  Saved
      BY <3>5, <1>b DEF CreateRequest, createRequest, SetStatus, Leave, Goto
    <3>6. ASSUME NEW c \in Caller, getActiveSuspension(c)
          PROVE  Saved
      BY <3>6, <1>b DEF getActiveSuspension, SuspensionsOf, Leave, Goto
    <3>7. ASSUME NEW c \in Caller, CollectBackups(c)
          PROVE  Saved
      BY <3>7, <1>b DEF CollectBackups, Unused, Goto
    <3>8. ASSUME NEW c \in Caller, RestoreRows(c)
          PROVE  Saved
      BY <3>8, <1>b DEF RestoreRows, Restored, Fault, Goto
    <3>9. ASSUME NEW c \in Caller, MarkUsed(c)
          PROVE  Saved
      BY <3>9, <1>b DEF MarkUsed, Advance, Leave, Goto
    <3>10. ASSUME NEW c \in Caller, MarkRecovered(c)
          PROVE  Saved
      BY <3>10, <1>b DEF MarkRecovered, Goto
    <3>11. ASSUME NEW c \in Caller, resumeIdentity(c)
          PROVE  Saved
      BY <3>11, <1>b DEF resumeIdentity, Goto
    <3>12. ASSUME NEW w \in Worker, Claim(w)
          PROVE  Saved
      BY <3>12, <1>b DEF Claim, Goto
    <3>13. ASSUME NEW w \in Worker, FindExpired(w)
          PROVE  Saved
      BY <3>13, <1>b DEF FindExpired, Begin, Goto
    <3>14. ASSUME NEW w \in Worker, FindRecord(w)
          PROVE  Saved
      BY <3>14, <1>b DEF FindRecord, SuspensionsOf, Goto
    <3>15. ASSUME NEW w \in Worker, Complete(w)
          PROVE  Saved
      BY <3>15, <1>b
         DEF Complete, markRequestCompleted, GuardedUpdate, SetStatus, Leave, Goto
    <3>16. ASSUME NEW w \in Worker, Finish(w)
          PROVE  Saved
      BY <3>16, <1>b DEF Finish, Goto
    <3>17. ASSUME NEW w \in Worker, Fail(w)
          PROVE  Saved
      BY <3>17, <1>b DEF Fail, markRequestFailed, GuardedUpdate, SetStatus, Leave, Goto
    <3>18. ASSUME NEW w \in Worker, DeleteBackups(w)
          PROVE  Saved
      BY <3>18, <1>b, <1>0 DEF DeleteBackups, RecordTypes, Nothing
    <3>19. ASSUME NEW w \in Worker, MarkExpired(w)
          PROVE  Saved
      BY <3>19, <1>b DEF MarkExpired, Goto
    <3>20. ASSUME NEW w \in Worker, Throw(w)
          PROVE  Saved
      BY <3>20, <1>b DEF Throw, Fault, Abort, Leave, Goto
    <3>21. ASSUME NEW p \in Process, Resolve(p)
          PROVE  Saved
      BY <3>21, <1>b DEF Resolve, TablesOf, Goto
    <3>22. ASSUME NEW p \in Process, LoadRows(p)
          PROVE  Saved
      BY <3>22, <1>b DEF LoadRows, Advance, AfterTables, Goto
    <3>23. ASSUME NEW p \in Process, CreateBackup(p)
          PROVE  Saved
      BY <3>23, <1>b DEF CreateBackup
    <3>24. ASSUME NEW p \in Process, EraseRows(p)
          PROVE  Saved
      BY <3>24, <1>b DEF EraseRows, Erased, Advance, AfterTables, Goto
    <3>25. ASSUME NEW p \in Process, Notify(p)
          PROVE  Saved
      BY <3>25, <1>b DEF Notify, Leave, Goto
    <3>26. ASSUME NEW p \in Process, Crash(p)
          PROVE  Saved
      BY <3>26, <1>b DEF Crash, Fault, Leave, Goto
    <3>27. ASSUME NEW s0 \in Suspension, WindowCloses(s0)
          PROVE  Saved
      BY <3>27, <1>b DEF WindowCloses
    <3>28. ASSUME NEW i \in Identity, CooldownPasses(i)
          PROVE  Saved
      BY <3>28, <1>b DEF CooldownPasses
    <3>29. CASE Tick
      BY <3>29, <1>b DEF Tick, AgeRows
    <3>30. CASE UNCHANGED vars
      BY <3>30, <1>b DEF vars
    <3>31. QED
      BY <3>1, <3>2, <3>3, <3>4, <3>5, <3>6, <3>7, <3>8, <3>9, <3>10, <3>11, <3>12, <3>13,
         <3>14, <3>15, <3>16, <3>17, <3>18, <3>19, <3>20, <3>21, <3>22, <3>23, <3>24,
         <3>25, <3>26, <3>27, <3>28, <3>29, <3>30
         DEF Next, CallerStep, WorkerStep, ProcessStep
  <2>2. /\ backup[record[p]][ToErase(p)] = {}
        /\ backup' = [backup EXCEPT ![record[p]][ToErase(p)] = memory[p][ToErase(p)]]
        /\ stage[p] = "saving"
    BY <2>1 DEF CreateBackup
  <2>3. record[p] = s /\ ToErase(p) = t
    BY <1>0, <1>b, <2>2 DEF RecordTypes
  <2>4. backup'[s][t] = memory[p][t]
    BY <1>0, <2>2, <2>3 DEF RecordTypes
  <2>5. PICK i \in Identity : who[p] = i /\ holder[s] = i
    BY <2>2, <2>3, AtWork DEF Knows
  <2>6. holder'[s] = i
    BY <2>5, HolderStep
  <2>7. "original" \in memory[p][t] \/ Safe(i, t)
    BY <2>2, <2>3, <2>5 DEF SafetyInv, Tables
  <2>8. CASE Safe(i, t)
    <3>1. Safe(i, t)'
      BY <2>8, SafeStep
    <3>2. QED
      BY <2>6, <3>1 DEF Safe
  <2>9. CASE "original" \in memory[p][t]
    BY <2>4, <2>6, <2>9 DEF Safe
  <2>10. QED
    BY <2>7, <2>8, <2>9
<1>c. QED
  BY <1>a, <1>b

-----------------------------------------------------------------------------
(* What is in no table any more is safe.                                   *)
LEMMA LostIsSafe ==
  ASSUME SafetyInv, NEW i \in Identity, NEW t \in Table, "original" \notin content[i][t]
  PROVE  Safe(i, t)
BY DEF SafetyInv, NothingLostBeforeExpiry, Safe, SuspensionsOf

(* A process keeps what it knows while others take their steps.            *)
Rests(p) ==
  /\ stage'[p] = stage[p] /\ who'[p] = who[p] /\ record'[p] = record[p]
  /\ task'[p] = task[p] /\ todo'[p] = todo[p] /\ memory'[p] = memory[p]

LEMMA RestsKnows ==
  ASSUME SafetyInv, [Next]_vars, NEW p \in Process, Rests(p)
  PROVE  Knows(p)' /\ Tables(p)'
<1>0. /\ RequestTypes /\ AccountTypes /\ RecordTypes /\ ProcessTypes
      /\ Knows(p) /\ Tables(p)
  BY TypeParts DEF SafetyInv
<1>1. record[p] \in Suspension => holder'[record[p]] = holder[record[p]]
  <2>1. record[p] \in Suspension => stage[p] # "idle"
    BY <1>0, NoSuspensionAssumption DEF Knows
  <2>2. record[p] \in Suspension => holder[record[p]] \in Identity
    BY <1>0, <2>1 DEF Knows
  <2>3. QED
    BY <2>2, HolderStep
<1>2. closed \subseteq closed'
  BY HolderStep
<1>3. Knows(p)'
  BY <1>0, <1>1, <1>2 DEF Knows, Rests
<1>4. CASE stage[p] = "idle"
  BY <1>3, <1>4 DEF Tables, Rests, OnTables
<1>5. CASE stage[p] # "idle"
  <2>1. PICK i \in Identity : who[p] = i
    BY <1>0, <1>5 DEF Knows
  <2>2. \A t \in Table : Safe(i, t) => Safe(i, t)'
    BY SafeStep
  <2>3. /\ stage[p] \in OnTables => ToErase(p) \in Table
        /\ ToErase(p)' = ToErase(p)
        /\ "channels" \in Table
        /\ todo[p] \subseteq Table
    BY <1>0, AtWork DEF ToErase, Rests, First, Table, Immediate, ProcessTypes
  <2>4. /\ who'[p] = i /\ stage'[p] = stage[p] /\ todo'[p] = todo[p]
        /\ memory'[p] = memory[p]
    BY <2>1 DEF Rests
  <2>5. (stage[p] \in OnTables =>
          IF p \in Worker THEN todo[p] \subseteq {"profile", "log"}
          ELSE /\ todo[p] \subseteq Immediate
               /\ "channels" \notin todo[p] => Safe(who[p], "channels"))'
    BY <1>0, <2>1, <2>2, <2>3, <2>4 DEF Tables, Safe
  <2>6. (stage[p] = "saving" =>
          "original" \in memory[p][ToErase(p)] \/ Safe(who[p], ToErase(p)))'
    <3>1. CASE stage[p] = "saving"
      <4>1. PICK t \in Table : ToErase(p) = t /\ ToErase(p)' = t
        BY <2>3, <3>1 DEF OnTables
      <4>2. "original" \in memory[p][t] \/ Safe(i, t)
        BY <1>0, <2>1, <3>1, <4>1 DEF Tables
      <4>3. QED
        BY <2>2, <2>4, <4>1, <4>2 DEF Safe
    <3>2. QED
      BY <2>4, <3>1
  <2>7. (stage[p] = "erasing" => Safe(who[p], ToErase(p)))'
    <3>1. CASE stage[p] = "erasing"
      <4>1. PICK t \in Table : ToErase(p) = t /\ ToErase(p)' = t
        BY <2>3, <3>1 DEF OnTables
      <4>2. Safe(i, t)
        BY <1>0, <2>1, <3>1, <4>1 DEF Tables
      <4>3. QED
        BY <2>2, <2>4, <4>1, <4>2 DEF Safe
    <3>2. QED
      BY <2>4, <3>1
  <2>8. (stage[p] \in {"restoring", "marking"} => \A t \in todo[p] : Safe(who[p], t))'
    BY <1>0, <2>1, <2>2, <2>3, <2>4 DEF Tables, Safe
  <2>9. QED
    BY <1>3, <2>5, <2>6, <2>7, <2>8 DEF Tables
<1>6. QED
  BY <1>3, <1>4, <1>5

LEMMA LeaveKnows ==
  ASSUME SafetyInv, NEW p \in Process, Leave(p)
  PROVE  Knows(p)' /\ Tables(p)'
<1>1. ProcessTypes
  BY TypeParts DEF SafetyInv
<1>2. stage'[p] = "idle" /\ record'[p] = NoSuspension
  BY <1>1 DEF Leave, Goto, ProcessTypes
<1>3. QED
  BY <1>2, NoSuspensionAssumption
     DEF Knows, Tables, OnTables, Anonymizing, Calling, Recovering, Deferring, Finalizing

LEMMA SafeCurrent ==
  ASSUME SafetyInv, [Next]_vars, NEW p \in Process, who'[p] = who[p], who[p] \in Identity
  PROVE  \A t \in Table : Safe(who[p], t) => Safe(who[p], t)'
<1>1. PICK i \in Identity : who[p] = i /\ who'[p] = i
  OBVIOUS
<1>2. \A t \in Table : Safe(i, t) => Safe(i, t)'
  BY SafeStep
<1>3. QED
  BY <1>1, <1>2 DEF Safe

LEMMA ProcessesStep == SafetyInv /\ [Next]_vars => \A q \in Process : (Knows(q) /\ Tables(q))'
<1> SUFFICES ASSUME SafetyInv, [Next]_vars
             PROVE  \A q \in Process : (Knows(q) /\ Tables(q))'
  OBVIOUS
<1>0. RequestTypes /\ AccountTypes /\ RecordTypes /\ ProcessTypes
  BY TypeParts DEF SafetyInv
<1> USE DEF tableVars, accountVars, recordVars, backupVars, procVars
<1> DEFINE AllKnow == \A q \in Process : (Knows(q) /\ Tables(q))'
<1>b. ASSUME \A q \in Process : Rests(q)
      PROVE  AllKnow
  BY <1>b, RestsKnows
<1>c. ASSUME NEW p \in Process, \A q \in Process \ {p} : Rests(q), (Knows(p) /\ Tables(p))'
      PROVE  AllKnow
  BY <1>c, RestsKnows
<1> HIDE DEF AllKnow
<1>1. ASSUME NEW c \in Caller, NEW i \in Identity, requestSuspension(c, i)
      PROVE  AllKnow
  <2>1. \A q \in Process \ {c} : Rests(q)
    BY <1>1, <1>0 DEF requestSuspension, Begin, Goto, Rests, ProcessTypes
  <2>2. (Knows(c) /\ Tables(c))'
    <3>0. c \in Process /\ Knows(c)
      BY AtWork DEF Process
    <3>1. stage'[c] = "suspending"
      BY <1>1, <1>0, <3>0 DEF requestSuspension, Begin, Goto, ProcessTypes
    <3>2. QED
      BY <1>1, <1>0, <3>0, <3>1, ActorAssumption, NoSuspensionAssumption
         DEF requestSuspension, Begin, Goto, Knows, Tables, ProcessTypes,
             OnTables, Anonymizing, Calling, Recovering, Deferring,
             Finalizing
  <2>3. QED
    BY <1>c, <2>1, <2>2 DEF Process
<1>2. ASSUME NEW c \in Caller, NEW i \in Identity, recoverAccount(c, i)
      PROVE  AllKnow
  <2>1. \A q \in Process \ {c} : Rests(q)
    BY <1>2, <1>0 DEF recoverAccount, Begin, Goto, Rests, ProcessTypes
  <2>2. (Knows(c) /\ Tables(c))'
    <3>0. c \in Process /\ Knows(c)
      BY AtWork DEF Process
    <3>1. stage'[c] = "validated"
      BY <1>2, <1>0, <3>0 DEF recoverAccount, Begin, Goto, ProcessTypes
    <3>2. QED
      BY <1>2, <1>0, <3>0, <3>1, ActorAssumption, NoSuspensionAssumption
         DEF recoverAccount, Begin, Goto, Knows, Tables, ProcessTypes,
             OnTables, Anonymizing, Calling, Recovering, Deferring,
             Finalizing
  <2>3. QED
    BY <1>c, <2>1, <2>2 DEF Process
<1>3. ASSUME NEW c \in Caller, suspendIdentity(c)
      PROVE  AllKnow
  <2>1. \A q \in Process \ {c} : Rests(q)
    BY <1>3, <1>0 DEF suspendIdentity, Goto, Rests, ProcessTypes
  <2>2. (Knows(c) /\ Tables(c))'
    <3>0. c \in Process /\ Knows(c)
      BY AtWork DEF Process
    <3>1. stage'[c] = "recording"
      BY <1>3, <1>0, <3>0 DEF suspendIdentity, Goto, ProcessTypes
    <3>2. QED
      BY <1>3, <1>0, <3>0, <3>1, ActorAssumption, NoSuspensionAssumption
         DEF suspendIdentity, Goto, Knows, Tables, ProcessTypes,
             OnTables, Anonymizing, Calling, Recovering, Deferring,
             Finalizing
  <2>3. QED
    BY <1>c, <2>1, <2>2 DEF Process
<1>4. ASSUME NEW c \in Caller, CreateRecord(c)
      PROVE  AllKnow
  <2> USE <1>4
  <2>1. \A q \in Process \ {c} : Rests(q)
    BY <1>0 DEF CreateRecord, Goto, Rests, ProcessTypes
  <2>2. (Knows(c) /\ Tables(c))'
    <3>0. c \in Process /\ Knows(c) /\ Tables(c)
      BY AtWork DEF Process, SafetyInv
    <3>1. PICK s \in Suspension :
            /\ state' = [state EXCEPT ![s] = "SUSPENDING"]
            /\ holder' = [holder EXCEPT ![s] = who[c]]
            /\ record' = [record EXCEPT ![c] = s]
      BY DEF CreateRecord
    <3>2. /\ stage'[c] = "resolving" /\ who'[c] = who[c] /\ record'[c] = s
          /\ holder'[s] = who[c] /\ who[c] \in Identity /\ c \notin Worker
      BY <1>0, <3>0, <3>1, ActorAssumption
         DEF CreateRecord, Goto, ProcessTypes, RecordTypes, Knows
    <3>3. QED
      BY <3>2 DEF Knows, Tables, OnTables, Anonymizing, Calling, Recovering, Deferring,
                  Finalizing
  <2>3. QED
    BY <1>c, <2>1, <2>2 DEF Process
<1>5. ASSUME NEW c \in Caller, CreateRequest(c)
      PROVE  AllKnow
  <2>1. \A q \in Process \ {c} : Rests(q)
    BY <1>5, <1>0 DEF CreateRequest, Leave, Goto, Rests, ProcessTypes
  <2>2. (Knows(c) /\ Tables(c))'
    BY <1>5, LeaveKnows DEF CreateRequest, Process
  <2>3. QED
    BY <1>c, <2>1, <2>2 DEF Process
<1>6. ASSUME NEW c \in Caller, getActiveSuspension(c)
      PROVE  AllKnow
  <2> USE <1>6
  <2>1. \A q \in Process \ {c} : Rests(q)
    BY <1>0 DEF getActiveSuspension, Leave, Goto, Rests, ProcessTypes
  <2>2. (Knows(c) /\ Tables(c))'
    <3>0. c \in Process /\ Knows(c) /\ Tables(c)
      BY AtWork DEF Process, SafetyInv
    <3>1. CASE Leave(c)
      BY <3>0, <3>1, LeaveKnows
    <3>2. CASE \E s \in SuspensionsOf(who[c]) :
                 /\ record' = [record EXCEPT ![c] = s]
                 /\ Goto(c, "collecting")
                 /\ UNCHANGED <<who, task, todo, memory>>
      <4>1. PICK s \in Suspension :
              /\ holder[s] = who[c] /\ record' = [record EXCEPT ![c] = s]
              /\ Goto(c, "collecting")
              /\ UNCHANGED <<who, task, todo, memory>>
        BY <3>2 DEF SuspensionsOf
      <4>2. /\ stage'[c] = "collecting" /\ who'[c] = who[c] /\ record'[c] = s
            /\ holder'[s] = who[c] /\ who[c] \in Identity /\ c \notin Worker
        BY <1>0, <3>0, <4>1, ActorAssumption
           DEF getActiveSuspension, Goto, ProcessTypes, Knows
      <4>3. QED
        BY <4>2
           DEF Knows, Tables, OnTables, Anonymizing, Calling, Recovering, Deferring,
                    Finalizing
    <3>3. QED
      BY <3>1, <3>2 DEF getActiveSuspension
  <2>3. QED
    BY <1>c, <2>1, <2>2 DEF Process
<1>7. ASSUME NEW c \in Caller, CollectBackups(c)
      PROVE  AllKnow
  <2> USE <1>7
  <2>1. \A q \in Process \ {c} : Rests(q)
    BY <1>0 DEF CollectBackups, Goto, Rests, ProcessTypes
  <2>2. (Knows(c) /\ Tables(c))'
    <3>0. c \in Process /\ Knows(c) /\ Tables(c)
      BY AtWork DEF Process, SafetyInv
    <3>1. /\ record[c] \in Suspension /\ holder[record[c]] = who[c]
          /\ who[c] \in Identity /\ c \notin Worker
      BY <3>0, ActorAssumption DEF CollectBackups, Knows
    <3>2. /\ stage'[c] = IF Unused(record[c]) = {} THEN "recovering" ELSE "restoring"
          /\ todo'[c] = Unused(record[c])
          /\ who'[c] = who[c] /\ record'[c] = record[c] /\ holder' = holder
      BY <1>0, <3>0 DEF CollectBackups, Goto, ProcessTypes
    <3>3. Knows(c)'
      BY <3>0, <3>1, <3>2
         DEF Knows, OnTables, Anonymizing, Calling, Recovering, Deferring, Finalizing
    <3>4. \A t \in Unused(record[c]) : t \in Table /\ Safe(who[c], t)
      BY <3>1 DEF Unused, SafetyInv, BackupsOK
    <3>5. \A t \in todo'[c] : Safe(who[c], t)'
      BY <3>0, <3>1, <3>2, <3>4, SafeCurrent
    <3>6. Tables(c)'
      BY <3>2, <3>5 DEF Tables, OnTables, Safe
    <3>7. QED
      BY <3>3, <3>6
  <2>3. QED
    BY <1>c, <2>1, <2>2 DEF Process
<1>8. ASSUME NEW c \in Caller, RestoreRows(c)
      PROVE  AllKnow
  <2> USE <1>8
  <2>1. \A q \in Process \ {c} : Rests(q)
    BY <1>0 DEF RestoreRows, Goto, Rests, ProcessTypes
  <2>2. (Knows(c) /\ Tables(c))'
    <3>0. c \in Process /\ Knows(c) /\ Tables(c)
      BY AtWork DEF Process, SafetyInv
    <3>1. /\ record[c] \in Suspension /\ holder[record[c]] = who[c]
          /\ who[c] \in Identity /\ c \notin Worker /\ todo[c] # {}
          /\ todo[c] \subseteq Table
      BY <1>0, <3>0, ActorAssumption DEF RestoreRows, Knows, ProcessTypes
    <3>2. /\ stage'[c] = "marking" /\ todo'[c] = todo[c]
          /\ who'[c] = who[c] /\ record'[c] = record[c] /\ holder' = holder
      BY <1>0, <3>0 DEF RestoreRows, Goto, ProcessTypes
    <3>3. Knows(c)'
      BY <3>0, <3>1, <3>2
         DEF Knows, OnTables, Anonymizing, Calling, Recovering, Deferring, Finalizing
    <3>4. \A t \in todo[c] : t \in Table /\ Safe(who[c], t)
      BY <3>0, <3>1 DEF RestoreRows, Tables
    <3>5. \A t \in todo'[c] : Safe(who[c], t)'
      BY <3>0, <3>1, <3>2, <3>4, SafeCurrent
    <3>6. Tables(c)'
      BY <3>2, <3>5 DEF Tables, OnTables, Safe
    <3>7. QED
      BY <3>3, <3>6
  <2>3. QED
    BY <1>c, <2>1, <2>2 DEF Process
<1>9. ASSUME NEW c \in Caller, MarkUsed(c)
      PROVE  AllKnow
  <2> USE <1>9
  <2>1. \A q \in Process \ {c} : Rests(q)
    BY <1>0 DEF MarkUsed, Advance, Leave, Goto, Rests, ProcessTypes
  <2>2. (Knows(c) /\ Tables(c))'
    <3>0. c \in Process /\ Knows(c) /\ Tables(c)
      BY AtWork DEF Process, SafetyInv
    <3>1. CASE Leave(c)
      BY <3>0, <3>1, LeaveKnows
    <3>2. CASE /\ Advance(c, ToRestore(c), "restoring", "recovering")
               /\ UNCHANGED <<who, record, task, memory>>
      <4>1. /\ record[c] \in Suspension /\ holder[record[c]] = who[c]
            /\ who[c] \in Identity /\ c \notin Worker /\ ToRestore(c) \in todo[c]
            /\ todo[c] \subseteq Table
        BY <1>0, <3>0, AtWork, ActorAssumption DEF MarkUsed, Knows, ProcessTypes
      <4>2. /\ stage'[c] = IF todo[c] = {ToRestore(c)} THEN "recovering" ELSE "restoring"
            /\ todo'[c] = todo[c] \ {ToRestore(c)}
            /\ who'[c] = who[c] /\ record'[c] = record[c] /\ holder' = holder
        BY <1>0, <3>0, <3>2 DEF MarkUsed, Advance, Goto, ProcessTypes
      <4>3. Knows(c)'
        BY <3>0, <4>1, <4>2
           DEF Knows, OnTables, Anonymizing, Calling, Recovering, Deferring, Finalizing
      <4>4. \A t \in todo[c] : t \in Table /\ Safe(who[c], t)
        BY <3>0, <4>1 DEF MarkUsed, Tables
      <4>5. \A t \in todo'[c] : Safe(who[c], t)'
        BY <3>0, <4>1, <4>2, <4>4, SafeCurrent
      <4>6. Tables(c)'
        BY <4>2, <4>5 DEF Tables, OnTables, Safe
      <4>7. QED
        BY <4>3, <4>6
    <3>3. QED
      BY <3>1, <3>2 DEF MarkUsed
  <2>3. QED
    BY <1>c, <2>1, <2>2 DEF Process
<1>10. ASSUME NEW c \in Caller, MarkRecovered(c)
      PROVE  AllKnow
  <2>1. \A q \in Process \ {c} : Rests(q)
    BY <1>10, <1>0 DEF MarkRecovered, Goto, Rests, ProcessTypes
  <2>2. (Knows(c) /\ Tables(c))'
    <3>0. c \in Process /\ Knows(c)
      BY AtWork DEF Process
    <3>1. stage'[c] = "resuming"
      BY <1>10, <1>0, <3>0 DEF MarkRecovered, Goto, ProcessTypes
    <3>2. QED
      BY <1>10, <1>0, <3>0, <3>1, ActorAssumption, NoSuspensionAssumption
         DEF MarkRecovered, Goto, Knows, Tables, ProcessTypes,
             OnTables, Anonymizing, Calling, Recovering, Deferring,
             Finalizing
  <2>3. QED
    BY <1>c, <2>1, <2>2 DEF Process
<1>11. ASSUME NEW c \in Caller, resumeIdentity(c)
      PROVE  AllKnow
  <2>1. \A q \in Process \ {c} : Rests(q)
    BY <1>11, <1>0 DEF resumeIdentity, Goto, Rests, ProcessTypes
  <2>2. (Knows(c) /\ Tables(c))'
    <3>0. c \in Process /\ Knows(c)
      BY AtWork DEF Process
    <3>1. stage'[c] = "notifying"
      BY <1>11, <1>0, <3>0 DEF resumeIdentity, Goto, ProcessTypes
    <3>2. QED
      BY <1>11, <1>0, <3>0, <3>1, ActorAssumption, NoSuspensionAssumption
         DEF resumeIdentity, Goto, Knows, Tables, ProcessTypes,
             OnTables, Anonymizing, Calling, Recovering, Deferring,
             Finalizing
  <2>3. QED
    BY <1>c, <2>1, <2>2 DEF Process
<1>12. ASSUME NEW w \in Worker, Claim(w)
      PROVE  AllKnow
  <2> USE <1>12
  <2>1. \A q \in Process \ {w} : Rests(q)
    BY <1>0 DEF Claim, Goto, Rests, ProcessTypes
  <2>2. (Knows(w) /\ Tables(w))'
    <3>0. w \in Process /\ Knows(w) /\ Tables(w)
      BY AtWork DEF Process, SafetyInv
    <3>1. PICK r \in Candidates(Request, 1) :
            /\ task' = [task EXCEPT ![w] = r]
            /\ who' = [who EXCEPT ![w] = owner[r]]
      BY DEF Claim
    <3>2. r \in Request /\ owner[r] \in Identity
      BY DEF Candidates, Claimable, Stale, SafetyInv, RowsOK
    <3>3. /\ stage'[w] = "claimed" /\ task'[w] = r /\ who'[w] = owner[r]
          /\ record'[w] = NoSuspension
      BY <1>0, <3>0, <3>1 DEF Claim, Goto, ProcessTypes, Knows
    <3>4. QED
      BY <3>2, <3>3, NoSuspensionAssumption
         DEF Knows, Tables, OnTables, Anonymizing, Calling, Recovering, Deferring,
             Finalizing
  <2>3. QED
    BY <1>c, <2>1, <2>2 DEF Process
<1>13. ASSUME NEW w \in Worker, FindExpired(w)
      PROVE  AllKnow
  <2> USE <1>13
  <2>1. \A q \in Process \ {w} : Rests(q)
    BY <1>0 DEF FindExpired, Begin, Goto, Rests, ProcessTypes
  <2>2. (Knows(w) /\ Tables(w))'
    <3>0. w \in Process /\ Knows(w) /\ Tables(w)
      BY AtWork DEF Process, SafetyInv
    <3>1. PICK s \in closed :
            /\ state[s] = "SUSPENDED" /\ Begin(w, "purging", holder[s], s)
      BY DEF FindExpired
    <3>2. s \in Suspension /\ holder[s] \in Identity
      BY <1>0, <3>1 DEF RecordTypes, SafetyInv, RecordsOK
    <3>3. /\ stage'[w] = "purging" /\ who'[w] = holder[s] /\ record'[w] = s
          /\ holder' = holder /\ s \in closed'
      BY <1>0, <3>0, <3>1 DEF FindExpired, Begin, Goto, ProcessTypes
    <3>4. QED
      BY <3>2, <3>3
         DEF Knows, Tables, OnTables, Anonymizing, Calling, Recovering, Deferring,
                        Finalizing
  <2>3. QED
    BY <1>c, <2>1, <2>2 DEF Process
<1>14. ASSUME NEW w \in Worker, FindRecord(w)
      PROVE  AllKnow
  <2> USE <1>14
  <2>1. \A q \in Process \ {w} : Rests(q)
    BY <1>0 DEF FindRecord, Goto, Rests, ProcessTypes
  <2>2. (Knows(w) /\ Tables(w))'
    <3>0. w \in Process /\ Knows(w) /\ Tables(w)
      BY AtWork DEF Process, SafetyInv
    <3>1. CASE Goto(w, "failing") /\ UNCHANGED record
      <4>1. /\ stage'[w] = "failing" /\ who'[w] = who[w] /\ task'[w] = task[w]
            /\ record'[w] = record[w] /\ holder' = holder
        BY <1>0, <3>0, <3>1 DEF FindRecord, Goto, ProcessTypes
      <4>2. QED
        BY <3>0, <4>1 DEF FindRecord, Knows, Tables, OnTables, Anonymizing, Calling,
                          Recovering, Deferring, Finalizing
    <3>2. CASE /\ \E s \in SuspensionsOf(who[w]) : record' = [record EXCEPT ![w] = s]
               /\ Goto(w, "resolving")
      <4>1. PICK s \in Suspension :
              holder[s] = who[w] /\ record' = [record EXCEPT ![w] = s]
        BY <3>2 DEF SuspensionsOf
      <4>2. /\ stage'[w] = "resolving" /\ who'[w] = who[w] /\ task'[w] = task[w]
            /\ record'[w] = s /\ holder' = holder
        BY <1>0, <3>0, <3>2, <4>1 DEF FindRecord, Goto, ProcessTypes
      <4>3. QED
        BY <3>0, <4>1, <4>2
           DEF FindRecord, Knows, Tables, OnTables, Anonymizing, Calling,
                                Recovering, Deferring, Finalizing
    <3>3. QED
      BY <3>1, <3>2 DEF FindRecord
  <2>3. QED
    BY <1>c, <2>1, <2>2 DEF Process
<1>15. ASSUME NEW w \in Worker, Complete(w)
      PROVE  AllKnow
  <2> USE <1>15
  <2>1. \A q \in Process \ {w} : Rests(q)
    BY <1>0 DEF Complete, Leave, Goto, Rests, ProcessTypes
  <2>2. (Knows(w) /\ Tables(w))'
    <3>0. w \in Process /\ Knows(w) /\ Tables(w)
      BY AtWork DEF Process, SafetyInv
    <3>1. CASE Leave(w)
      BY <3>0, <3>1, LeaveKnows
    <3>2. CASE /\ Goto(w, "finishing")
               /\ UNCHANGED <<who, record, task, todo, memory>>
      <4>1. /\ stage'[w] = "finishing" /\ who'[w] = who[w] /\ task'[w] = task[w]
            /\ record'[w] = record[w] /\ holder' = holder
        BY <1>0, <3>0, <3>2 DEF Complete, Goto, ProcessTypes
      <4>2. QED
        BY <3>0, <4>1 DEF Complete, Knows, Tables, OnTables, Anonymizing, Calling,
                          Recovering, Deferring, Finalizing
    <3>3. QED
      BY <3>1, <3>2 DEF Complete
  <2>3. QED
    BY <1>c, <2>1, <2>2 DEF Process
<1>16. ASSUME NEW w \in Worker, Finish(w)
      PROVE  AllKnow
  <2>1. \A q \in Process \ {w} : Rests(q)
    BY <1>16, <1>0 DEF Finish, Goto, Rests, ProcessTypes
  <2>2. (Knows(w) /\ Tables(w))'
    <3>0. w \in Process /\ Knows(w)
      BY AtWork DEF Process
    <3>1. stage'[w] = "notifying"
      BY <1>16, <1>0, <3>0 DEF Finish, Goto, ProcessTypes
    <3>2. QED
      BY <1>16, <1>0, <3>0, <3>1, ActorAssumption, NoSuspensionAssumption
         DEF Finish, Goto, Knows, Tables, ProcessTypes,
             OnTables, Anonymizing, Calling, Recovering, Deferring,
             Finalizing
  <2>3. QED
    BY <1>c, <2>1, <2>2 DEF Process
<1>17. ASSUME NEW w \in Worker, Fail(w)
      PROVE  AllKnow
  <2>1. \A q \in Process \ {w} : Rests(q)
    BY <1>17, <1>0 DEF Fail, Leave, Goto, Rests, ProcessTypes
  <2>2. (Knows(w) /\ Tables(w))'
    BY <1>17, LeaveKnows DEF Fail, Process
  <2>3. QED
    BY <1>c, <2>1, <2>2 DEF Process
<1>18. ASSUME NEW w \in Worker, DeleteBackups(w)
      PROVE  AllKnow
  <2>1. \A q \in Process \ {w} : Rests(q)
    BY <1>18, <1>0 DEF DeleteBackups, Goto, Rests, ProcessTypes
  <2>2. (Knows(w) /\ Tables(w))'
    <3>0. w \in Process /\ Knows(w)
      BY AtWork DEF Process
    <3>1. stage'[w] = "expiring"
      BY <1>18, <1>0, <3>0 DEF DeleteBackups, Goto, ProcessTypes
    <3>2. QED
      BY <1>18, <1>0, <3>0, <3>1, ActorAssumption, NoSuspensionAssumption
         DEF DeleteBackups, Goto, Knows, Tables, ProcessTypes,
             OnTables, Anonymizing, Calling, Recovering, Deferring,
             Finalizing
  <2>3. QED
    BY <1>c, <2>1, <2>2 DEF Process
<1>19. ASSUME NEW w \in Worker, MarkExpired(w)
      PROVE  AllKnow
  <2>1. \A q \in Process \ {w} : Rests(q)
    BY <1>19, <1>0 DEF MarkExpired, Goto, Rests, ProcessTypes
  <2>2. (Knows(w) /\ Tables(w))'
    <3>0. w \in Process /\ Knows(w)
      BY AtWork DEF Process
    <3>1. stage'[w] = "notifying"
      BY <1>19, <1>0, <3>0 DEF MarkExpired, Goto, ProcessTypes
    <3>2. QED
      BY <1>19, <1>0, <3>0, <3>1, ActorAssumption, NoSuspensionAssumption
         DEF MarkExpired, Goto, Knows, Tables, ProcessTypes,
             OnTables, Anonymizing, Calling, Recovering, Deferring,
             Finalizing
  <2>3. QED
    BY <1>c, <2>1, <2>2 DEF Process
<1>20. ASSUME NEW w \in Worker, Throw(w)
      PROVE  AllKnow
  <2> USE <1>20
  <2>1. \A q \in Process \ {w} : Rests(q)
    BY <1>0 DEF Throw, Abort, Leave, Goto, Rests, ProcessTypes
  <2>2. (Knows(w) /\ Tables(w))'
    <3>0. w \in Process /\ Knows(w) /\ Tables(w)
      BY AtWork DEF Process, SafetyInv
    <3>1. /\ stage'[w] = "failing" /\ who'[w] = who[w] /\ task'[w] = task[w]
          /\ record'[w] = record[w] /\ holder' = holder
      BY <1>0, <3>0 DEF Throw, Abort, Goto, ProcessTypes
    <3>2. QED
      BY <3>0, <3>1
         DEF Throw, Knows, Tables, OnTables, Anonymizing, Calling, Recovering,
                        Deferring, Finalizing
  <2>3. QED
    BY <1>c, <2>1, <2>2 DEF Process
<1>21. ASSUME NEW p \in Process, Resolve(p)
      PROVE  AllKnow
  <2> USE <1>21
  <2>1. \A q \in Process \ {p} : Rests(q)
    BY <1>0 DEF Resolve, Goto, Rests, ProcessTypes
  <2>2. (Knows(p) /\ Tables(p))'
    <3>0. p \in Process /\ Knows(p) /\ Tables(p)
      BY AtWork DEF Process, SafetyInv
    <3>1. who[p] \in Identity
      BY <3>0 DEF Resolve, Knows
    <3>2. /\ stage'[p] = "loading" /\ todo'[p] = TablesOf(p)
          /\ who'[p] = who[p] /\ record'[p] = record[p] /\ task'[p] = task[p]
          /\ holder' = holder
      BY <1>0, <3>0 DEF Resolve, Goto, ProcessTypes
    <3>3. /\ TablesOf(p) # {}
          /\ p \in Worker => TablesOf(p) \subseteq {"profile", "log"}
          /\ p \notin Worker => TablesOf(p) \subseteq Immediate
      BY DEF TablesOf, Table, Immediate
    <3>4. Knows(p)'
      BY <3>0, <3>2, <3>3
         DEF Resolve, Knows, OnTables, Anonymizing, Calling, Recovering, Deferring, Finalizing
    <3>5. p \notin Worker /\ "channels" \notin TablesOf(p) => Safe(who[p], "channels")
      <4>1. p \notin Worker /\ "channels" \notin TablesOf(p)
              => content[who[p]]["channels"] = {}
        BY <3>1 DEF TablesOf, Immediate, SafetyInv, ChannelsNeedSettings
      <4>2. "channels" \in Table
        BY DEF Table, Immediate
      <4>3. QED
        BY <3>1, <4>1, <4>2, LostIsSafe
    <3>6. p \notin Worker /\ "channels" \notin TablesOf(p) => Safe(who[p], "channels")'
      BY <3>0, <3>1, <3>2, <3>5, SafeCurrent DEF Table, Immediate
    <3>7. Tables(p)'
      BY <3>2, <3>3, <3>6 DEF Tables, OnTables, Safe
    <3>8. QED
      BY <3>4, <3>7
  <2>3. QED
    BY <1>c, <2>1, <2>2 DEF Process
<1>22. ASSUME NEW p \in Process, LoadRows(p)
      PROVE  AllKnow
  <2> USE <1>22
  <2>1. \A q \in Process \ {p} : Rests(q)
    BY <1>0 DEF LoadRows, Advance, Goto, Rests, ProcessTypes
  <2>2. (Knows(p) /\ Tables(p))'
    <3>0. p \in Process /\ Knows(p) /\ Tables(p)
      BY AtWork DEF Process, SafetyInv
    <3>1. /\ who[p] \in Identity /\ ToErase(p) \in Table /\ ToErase(p) \in todo[p]
          /\ todo[p] \subseteq Table /\ stage[p] = "loading"
      BY <1>0, <3>0, AtWork DEF LoadRows, Knows, OnTables, ProcessTypes
    <3>2. "original" \notin content[who[p]][ToErase(p)] => Safe(who[p], ToErase(p))
      BY <3>1, LostIsSafe
    <3>3. CASE /\ content[who[p]][ToErase(p)] = {}
               /\ Advance(p, ToErase(p), "loading", AfterTables(p))
      <4>s. Safe(who[p], ToErase(p))
        BY <3>2, <3>3
      <4>1. /\ stage'[p] = IF todo[p] = {ToErase(p)} THEN AfterTables(p) ELSE "loading"
            /\ todo'[p] = todo[p] \ {ToErase(p)}
            /\ who'[p] = who[p] /\ record'[p] = record[p] /\ task'[p] = task[p]
            /\ holder' = holder
        BY <1>0, <3>0, <3>3 DEF LoadRows, Advance, Goto, ProcessTypes
      <4>2. Knows(p)'
        <5>1. p \notin Worker => p \in Caller
          BY <3>0 DEF Process
        <5>2. QED
          BY <3>0, <3>1, <4>1, <5>1, ActorAssumption
             DEF LoadRows, Knows, OnTables, Anonymizing, Calling, Recovering, Deferring,
                 Finalizing, AfterTables
      <4>3. \A t \in Table : t \notin todo'[p] /\ t \in todo[p] => Safe(who[p], t)
        BY <3>1, <4>1, <4>s
      <4>4. p \notin Worker /\ "channels" \notin todo'[p] => Safe(who[p], "channels")
        BY <3>0, <3>1, <4>3 DEF Tables, Table, Immediate, OnTables
      <4>5. p \notin Worker /\ "channels" \notin todo'[p] => Safe(who[p], "channels")'
        BY <3>0, <3>1, <4>1, <4>4, SafeCurrent DEF Table, Immediate
      <4>6. IF p \in Worker THEN todo[p] \subseteq {"profile", "log"}
            ELSE todo[p] \subseteq Immediate
        BY <3>0, <3>1 DEF Tables, OnTables
      <4>7. stage'[p] \in {"loading", "completing", "requesting"}
        BY <4>1 DEF AfterTables
      <4>8. Tables(p)'
        BY <4>1, <4>5, <4>6, <4>7 DEF Tables, OnTables, Safe
      <4>9. QED
        BY <4>2, <4>8
    <3>4. CASE Goto(p, "saving") /\ UNCHANGED todo
      <4>1. /\ stage'[p] = "saving" /\ todo'[p] = todo[p]
            /\ who'[p] = who[p] /\ record'[p] = record[p] /\ task'[p] = task[p]
            /\ holder' = holder /\ ToErase(p)' = ToErase(p)
        BY <1>0, <3>0, <3>4 DEF LoadRows, Goto, ProcessTypes, ToErase, First
      <4>2. memory'[p][ToErase(p)] = content[who[p]][ToErase(p)]
        BY <1>0, <3>0, <3>1 DEF LoadRows, ProcessTypes
      <4>3. Knows(p)'
        BY <3>0, <3>1, <4>1
           DEF Knows, OnTables, Anonymizing, Calling, Recovering, Deferring, Finalizing
      <4>4. \A t \in Table : Safe(who[p], t) => Safe(who[p], t)'
        BY <3>0, <3>1, <4>1, SafeCurrent
      <4>5. p \notin Worker /\ "channels" \notin todo'[p] => Safe(who[p], "channels")'
        BY <3>0, <3>1, <4>1, <4>4 DEF Tables, OnTables, Table, Immediate
      <4>6. "original" \in memory'[p][ToErase(p)] \/ Safe(who[p], ToErase(p))'
        <5>1. PICK t \in Table : ToErase(p) = t /\ ToErase(p)' = t
          BY <3>1, <4>1
        <5>2. Safe(who[p], t) => Safe(who[p], t)'
          BY <4>4
        <5>3. "original" \in memory'[p][t] \/ Safe(who[p], t)'
          BY <3>2, <4>2, <5>1, <5>2
        <5>4. QED
          BY <5>1, <5>3 DEF Safe
      <4>7. Tables(p)'
        BY <3>0, <3>1, <4>1, <4>5, <4>6 DEF Tables, OnTables, Safe
      <4>8. QED
        BY <4>3, <4>7
    <3>5. QED
      BY <3>3, <3>4 DEF LoadRows
  <2>3. QED
    BY <1>c, <2>1, <2>2 DEF Process
<1>23. ASSUME NEW p \in Process, CreateBackup(p)
      PROVE  AllKnow
  <2> USE <1>23
  <2>1. \A q \in Process \ {p} : Rests(q)
    BY <1>0 DEF CreateBackup, Abort, Leave, Goto, Rests, ProcessTypes
  <2>2. (Knows(p) /\ Tables(p))'
    <3>0. p \in Process /\ Knows(p) /\ Tables(p)
      BY AtWork DEF Process, SafetyInv
    <3>1. /\ who[p] \in Identity /\ ToErase(p) \in Table /\ ToErase(p) \in todo[p]
          /\ todo[p] \subseteq Table /\ stage[p] = "saving"
          /\ record[p] \in Suspension /\ holder[record[p]] = who[p]
      BY <1>0, <3>0, AtWork
         DEF CreateBackup, Knows, OnTables, Anonymizing, ProcessTypes
    <3>2. CASE /\ backup' = [backup EXCEPT ![record[p]][ToErase(p)] = memory[p][ToErase(p)]]
               /\ Goto(p, "erasing")
               /\ UNCHANGED <<who, record, task, todo, memory>>
      <4>1. /\ stage'[p] = "erasing" /\ todo'[p] = todo[p]
            /\ who'[p] = who[p] /\ record'[p] = record[p] /\ task'[p] = task[p]
            /\ holder' = holder /\ ToErase(p)' = ToErase(p)
        BY <1>0, <3>0, <3>2 DEF CreateBackup, Goto, ProcessTypes, ToErase, First
      <4>2. backup'[record[p]][ToErase(p)] = memory[p][ToErase(p)]
        BY <1>0, <3>1, <3>2 DEF RecordTypes
      <4>3. Knows(p)'
        BY <3>0, <3>1, <4>1
           DEF Knows, OnTables, Anonymizing, Calling, Recovering, Deferring, Finalizing
      <4>4. \A t \in Table : Safe(who[p], t) => Safe(who[p], t)'
        BY <3>0, <3>1, <4>1, SafeCurrent
      <4>5. p \notin Worker /\ "channels" \notin todo'[p] => Safe(who[p], "channels")'
        BY <3>0, <3>1, <4>1, <4>4 DEF Tables, OnTables, Table, Immediate
      <4>6. Safe(who[p], ToErase(p))'
        <5>1. PICK t \in Table : ToErase(p) = t /\ ToErase(p)' = t
          BY <3>1, <4>1
        <5>2. "original" \in memory[p][t] \/ Safe(who[p], t)
          BY <3>0, <3>1, <5>1 DEF Tables
        <5>3. CASE "original" \in memory[p][t]
          BY <3>1, <4>1, <4>2, <5>1, <5>3 DEF Safe
        <5>4. CASE Safe(who[p], t)
          BY <4>4, <5>1, <5>4 DEF Safe
        <5>5. QED
          BY <5>2, <5>3, <5>4
      <4>7. Tables(p)'
        BY <3>0, <3>1, <4>1, <4>5, <4>6 DEF Tables, OnTables, Safe
      <4>8. QED
        BY <4>3, <4>7
    <3>3. CASE Leave(p)
      BY <3>0, <3>3, LeaveKnows
    <3>4. CASE /\ p \in Worker /\ Goto(p, "failing")
               /\ UNCHANGED <<who, record, task, todo, memory>>
      <4>1. /\ stage'[p] = "failing" /\ who'[p] = who[p] /\ task'[p] = task[p]
            /\ record'[p] = record[p] /\ holder' = holder
        BY <1>0, <3>0, <3>4 DEF CreateBackup, Goto, ProcessTypes
      <4>2. QED
        BY <3>0, <3>1, <3>4, <4>1 DEF Knows, Tables, OnTables, Anonymizing, Calling,
                                      Recovering, Deferring, Finalizing
    <3>5. QED
      BY <3>2, <3>3, <3>4 DEF CreateBackup, Abort
  <2>3. QED
    BY <1>c, <2>1, <2>2 DEF Process
<1>24. ASSUME NEW p \in Process, EraseRows(p)
      PROVE  AllKnow
  <2> USE <1>24
  <2>1. \A q \in Process \ {p} : Rests(q)
    BY <1>0 DEF EraseRows, Advance, Goto, Rests, ProcessTypes
  <2>2. (Knows(p) /\ Tables(p))'
    <3>0. p \in Process /\ Knows(p) /\ Tables(p)
      BY AtWork DEF Process, SafetyInv
    <3>1. /\ who[p] \in Identity /\ ToErase(p) \in Table /\ ToErase(p) \in todo[p]
          /\ todo[p] \subseteq Table /\ stage[p] = "erasing"
      BY <1>0, <3>0, AtWork DEF EraseRows, Knows, OnTables, ProcessTypes
    <3>s. Safe(who[p], ToErase(p))
      BY <3>0, <3>1 DEF Tables
    <3>2. Advance(p, ToErase(p), "loading", AfterTables(p))
      BY DEF EraseRows
    <3>3. QED
      <4>1. /\ stage'[p] = IF todo[p] = {ToErase(p)} THEN AfterTables(p) ELSE "loading"
            /\ todo'[p] = todo[p] \ {ToErase(p)}
            /\ who'[p] = who[p] /\ record'[p] = record[p] /\ task'[p] = task[p]
            /\ holder' = holder
        BY <1>0, <3>0, <3>2 DEF EraseRows, Advance, Goto, ProcessTypes
      <4>2. Knows(p)'
        <5>1. p \notin Worker => p \in Caller
          BY <3>0 DEF Process
        <5>2. QED
          BY <3>0, <3>1, <4>1, <5>1, ActorAssumption
             DEF EraseRows, Knows, OnTables, Anonymizing, Calling, Recovering, Deferring,
                 Finalizing, AfterTables
      <4>3. \A t \in Table : t \notin todo'[p] /\ t \in todo[p] => Safe(who[p], t)
        BY <3>1, <4>1, <3>s
      <4>4. p \notin Worker /\ "channels" \notin todo'[p] => Safe(who[p], "channels")
        BY <3>0, <3>1, <4>3 DEF Tables, Table, Immediate, OnTables
      <4>5. p \notin Worker /\ "channels" \notin todo'[p] => Safe(who[p], "channels")'
        BY <3>0, <3>1, <4>1, <4>4, SafeCurrent DEF Table, Immediate
      <4>6. IF p \in Worker THEN todo[p] \subseteq {"profile", "log"}
            ELSE todo[p] \subseteq Immediate
        BY <3>0, <3>1 DEF Tables, OnTables
      <4>7. stage'[p] \in {"loading", "completing", "requesting"}
        BY <4>1 DEF AfterTables
      <4>8. Tables(p)'
        BY <4>1, <4>5, <4>6, <4>7 DEF Tables, OnTables, Safe
      <4>9. QED
        BY <4>2, <4>8
  <2>3. QED
    BY <1>c, <2>1, <2>2 DEF Process
<1>25. ASSUME NEW p \in Process, Notify(p)
      PROVE  AllKnow
  <2>1. \A q \in Process \ {p} : Rests(q)
    BY <1>25, <1>0 DEF Notify, Leave, Goto, Rests, ProcessTypes
  <2>2. (Knows(p) /\ Tables(p))'
    BY <1>25, LeaveKnows DEF Notify, Process
  <2>3. QED
    BY <1>c, <2>1, <2>2 DEF Process
<1>26. ASSUME NEW p \in Process, Crash(p)
      PROVE  AllKnow
  <2>1. \A q \in Process \ {p} : Rests(q)
    BY <1>26, <1>0 DEF Crash, Leave, Goto, Rests, ProcessTypes
  <2>2. (Knows(p) /\ Tables(p))'
    BY <1>26, LeaveKnows DEF Crash, Process
  <2>3. QED
    BY <1>c, <2>1, <2>2 DEF Process
<1>27. ASSUME NEW s0 \in Suspension, WindowCloses(s0)
      PROVE  AllKnow
  BY <1>27, <1>b DEF WindowCloses, Rests
<1>28. ASSUME NEW i \in Identity, CooldownPasses(i)
      PROVE  AllKnow
  BY <1>28, <1>b DEF CooldownPasses, Rests
<1>29. CASE Tick
  BY <1>29, <1>b DEF Tick, Rests, AllKnow
<1>30. CASE UNCHANGED vars
  BY <1>30, <1>b DEF vars, Rests, AllKnow
<1>31. QED
  BY <1>1, <1>2, <1>3, <1>4, <1>5, <1>6, <1>7, <1>8, <1>9, <1>10, <1>11, <1>12, <1>13,
     <1>14, <1>15, <1>16, <1>17, <1>18, <1>19, <1>20, <1>21, <1>22, <1>23, <1>24,
     <1>25, <1>26, <1>27, <1>28, <1>29, <1>30
     DEF AllKnow, Next, CallerStep, WorkerStep, ProcessStep

-----------------------------------------------------------------------------
LEMMA NothingLostStep == SafetyInv /\ [Next]_vars => NothingLostBeforeExpiry'
<1> SUFFICES ASSUME SafetyInv, [Next]_vars,
                    NEW i \in Identity, NEW t \in Table, "original" \notin content'[i][t]
             PROVE  Safe(i, t)'
  BY RecordTypesStep DEF NothingLostBeforeExpiry, Safe, SuspensionsOf, RecordTypes
<1>0. RequestTypes /\ AccountTypes /\ RecordTypes /\ ProcessTypes
  BY TypeParts DEF SafetyInv
<1> SUFFICES Safe(i, t)
  BY SafeStep
<1>a. CASE "original" \notin content[i][t]
  BY <1>a, LostIsSafe
<1>b. CASE "original" \in content[i][t]
  <2> DEFINE Fine == Safe(i, t)
  <2> USE DEF tableVars, accountVars, recordVars, backupVars, procVars
  <2>1. ASSUME NEW c \in Caller, NEW j \in Identity, requestSuspension(c, j)
      PROVE  Safe(i, t)
    BY <2>1, <1>b DEF requestSuspension, Begin, Goto
  <2>2. ASSUME NEW c \in Caller, NEW j \in Identity, recoverAccount(c, j)
      PROVE  Safe(i, t)
    BY <2>2, <1>b DEF recoverAccount, Begin, Goto
  <2>3. ASSUME NEW c \in Caller, suspendIdentity(c)
      PROVE  Safe(i, t)
    BY <2>3, <1>b DEF suspendIdentity, Goto
  <2>4. ASSUME NEW c \in Caller, CreateRecord(c)
      PROVE  Safe(i, t)
    BY <2>4, <1>b DEF CreateRecord, Goto
  <2>5. ASSUME NEW c \in Caller, CreateRequest(c)
      PROVE  Safe(i, t)
    BY <2>5, <1>b DEF CreateRequest, createRequest, SetStatus, Leave, Goto
  <2>6. ASSUME NEW c \in Caller, getActiveSuspension(c)
      PROVE  Safe(i, t)
    BY <2>6, <1>b DEF getActiveSuspension, SuspensionsOf, Leave, Goto
  <2>7. ASSUME NEW c \in Caller, CollectBackups(c)
      PROVE  Safe(i, t)
    BY <2>7, <1>b DEF CollectBackups, Unused, Goto
  <2>8. ASSUME NEW c \in Caller, RestoreRows(c)
      PROVE  Safe(i, t)
    <3>1. /\ who[c] \in Identity /\ content[who[c]] \in [Table -> SUBSET Row]
          /\ memory[c] \in [Table -> SUBSET Row]
      BY <2>8, <1>0, AtWork
         DEF RestoreRows, Knows, OnTables, AccountTypes, ProcessTypes, Process
    <3>2. /\ ToRestore(c) \in Table /\ ToRestore(c) \in todo[c]
          /\ Tables(c) /\ stage[c] = "restoring"
      BY <2>8, <1>0, AtWork DEF RestoreRows, SafetyInv, Process
    <3>3. content' = [content EXCEPT ![who[c]] =
                        Restored(@, ToRestore(c), memory[c][ToRestore(c)])]
      BY <2>8, <1>b DEF RestoreRows
    <3>4. i = who[c] /\ t = ToRestore(c)
      BY <1>0, <1>b, <3>1, <3>2, <3>3 DEF Restored, AccountTypes
    <3>5. QED
      BY <3>2, <3>4 DEF Tables
  <2>9. ASSUME NEW c \in Caller, MarkUsed(c)
      PROVE  Safe(i, t)
    BY <2>9, <1>b DEF MarkUsed, Advance, Leave, Goto
  <2>10. ASSUME NEW c \in Caller, MarkRecovered(c)
      PROVE  Safe(i, t)
    BY <2>10, <1>b DEF MarkRecovered, Goto
  <2>11. ASSUME NEW c \in Caller, resumeIdentity(c)
      PROVE  Safe(i, t)
    BY <2>11, <1>b DEF resumeIdentity, Goto
  <2>12. ASSUME NEW w \in Worker, Claim(w)
      PROVE  Safe(i, t)
    BY <2>12, <1>b DEF Claim, Goto
  <2>13. ASSUME NEW w \in Worker, FindExpired(w)
      PROVE  Safe(i, t)
    BY <2>13, <1>b DEF FindExpired, Begin, Goto
  <2>14. ASSUME NEW w \in Worker, FindRecord(w)
      PROVE  Safe(i, t)
    BY <2>14, <1>b DEF FindRecord, SuspensionsOf, Goto
  <2>15. ASSUME NEW w \in Worker, Complete(w)
      PROVE  Safe(i, t)
    BY <2>15, <1>b
       DEF Complete, markRequestCompleted, GuardedUpdate, SetStatus, Leave, Goto
  <2>16. ASSUME NEW w \in Worker, Finish(w)
      PROVE  Safe(i, t)
    BY <2>16, <1>b DEF Finish, Goto
  <2>17. ASSUME NEW w \in Worker, Fail(w)
      PROVE  Safe(i, t)
    BY <2>17, <1>b DEF Fail, markRequestFailed, GuardedUpdate, SetStatus, Leave, Goto
  <2>18. ASSUME NEW w \in Worker, DeleteBackups(w)
      PROVE  Safe(i, t)
    BY <2>18, <1>b DEF DeleteBackups, Nothing, Goto
  <2>19. ASSUME NEW w \in Worker, MarkExpired(w)
      PROVE  Safe(i, t)
    BY <2>19, <1>b DEF MarkExpired, Goto
  <2>20. ASSUME NEW w \in Worker, Throw(w)
      PROVE  Safe(i, t)
    BY <2>20, <1>b DEF Throw, Fault, Abort, Leave, Goto
  <2>21. ASSUME NEW p \in Process, Resolve(p)
      PROVE  Safe(i, t)
    BY <2>21, <1>b DEF Resolve, TablesOf, Goto
  <2>22. ASSUME NEW p \in Process, LoadRows(p)
      PROVE  Safe(i, t)
    BY <2>22, <1>b DEF LoadRows, Advance, AfterTables, Goto
  <2>23. ASSUME NEW p \in Process, CreateBackup(p)
      PROVE  Safe(i, t)
    BY <2>23, <1>b DEF CreateBackup, Abort, Leave, Goto
  <2>24. ASSUME NEW p \in Process, EraseRows(p)
      PROVE  Safe(i, t)
    <3>1. /\ who[p] \in Identity /\ content[who[p]] \in [Table -> SUBSET Row]
          /\ memory[p] \in [Table -> SUBSET Row]
      BY <2>24, <1>0, AtWork
         DEF EraseRows, Knows, OnTables, AccountTypes, ProcessTypes, Process
    <3>2. /\ ToErase(p) \in Table /\ ToErase(p) \in todo[p] /\ todo[p] \in SUBSET Table
          /\ Tables(p) /\ stage[p] = "erasing"
      BY <2>24, <1>0, AtWork DEF EraseRows, OnTables, SafetyInv, ProcessTypes
    <3>3. content' = [content EXCEPT ![who[p]] = Erased(@, ToErase(p))]
      BY <2>24 DEF EraseRows
    <3>4. /\ i = who[p]
          /\ t = ToErase(p) \/ (ToErase(p) = "settings" /\ t = "channels")
      BY <1>0, <1>b, <3>1, <3>2, <3>3 DEF Erased, AccountTypes
    <3>5. CASE t = ToErase(p)
      BY <3>2, <3>4, <3>5 DEF Tables
    <3>6. CASE ToErase(p) = "settings" /\ t = "channels"
      <4>1. "channels" \notin todo[p]
        BY <3>2, <3>6, FirstOfTables DEF ToErase
      <4>2. p \notin Worker
        BY <3>2, <3>6 DEF Tables, OnTables
      <4>3. QED
        BY <3>2, <3>4, <3>6, <4>1, <4>2 DEF Tables, OnTables
    <3>7. QED
      BY <3>4, <3>5, <3>6
  <2>25. ASSUME NEW p \in Process, Notify(p)
      PROVE  Safe(i, t)
    <3>1. /\ who[p] \in Identity /\ content[who[p]] \in [Table -> SUBSET Row]
          /\ memory[p] \in [Table -> SUBSET Row]
      BY <2>25, <1>0, AtWork
         DEF Notify, Knows, OnTables, AccountTypes, ProcessTypes, Process
    <3>2. QED
      BY <2>25, <1>0, <1>b, <3>1 DEF Notify, AccountTypes
  <2>26. ASSUME NEW p \in Process, Crash(p)
      PROVE  Safe(i, t)
    BY <2>26, <1>b DEF Crash, Fault, Leave, Goto
  <2>27. ASSUME NEW s0 \in Suspension, WindowCloses(s0)
      PROVE  Safe(i, t)
    BY <2>27, <1>b DEF WindowCloses
  <2>28. ASSUME NEW j \in Identity, CooldownPasses(j)
      PROVE  Safe(i, t)
    BY <2>28, <1>b DEF CooldownPasses
  <2>29. CASE Tick
    BY <2>29, <1>b DEF Tick, AgeRows
  <2>30. CASE UNCHANGED vars
    BY <2>30, <1>b DEF vars
  <2>31. QED
    BY <2>1, <2>2, <2>3, <2>4, <2>5, <2>6, <2>7, <2>8, <2>9, <2>10, <2>11, <2>12, <2>13,
     <2>14, <2>15, <2>16, <2>17, <2>18, <2>19, <2>20, <2>21, <2>22, <2>23, <2>24,
     <2>25, <2>26, <2>27, <2>28, <2>29, <2>30
     DEF Next, CallerStep, WorkerStep, ProcessStep
<1>c. QED
  BY <1>a, <1>b

LEMMA FaultsStep == SafetyInv /\ [Next]_vars => faults' \in 0 .. MaxFaults
<1> SUFFICES ASSUME SafetyInv, [Next]_vars
             PROVE  faults' \in 0 .. MaxFaults
  OBVIOUS
<1>0. faults \in 0 .. MaxFaults
  BY TypeParts DEF SafetyInv
<1> USE <1>0, FaultsAssumption
<1> USE DEF tableVars, accountVars, recordVars, backupVars, procVars
<1>1. ASSUME NEW c \in Caller, NEW i \in Identity, requestSuspension(c, i)
      PROVE  faults' \in 0 .. MaxFaults
  BY <1>1 DEF requestSuspension, Begin, Goto
<1>2. ASSUME NEW c \in Caller, NEW i \in Identity, recoverAccount(c, i)
      PROVE  faults' \in 0 .. MaxFaults
  BY <1>2 DEF recoverAccount, Begin, Goto
<1>3. ASSUME NEW c \in Caller, suspendIdentity(c)
      PROVE  faults' \in 0 .. MaxFaults
  BY <1>3 DEF suspendIdentity, Goto
<1>4. ASSUME NEW c \in Caller, CreateRecord(c)
      PROVE  faults' \in 0 .. MaxFaults
  BY <1>4 DEF CreateRecord, Goto
<1>5. ASSUME NEW c \in Caller, CreateRequest(c)
      PROVE  faults' \in 0 .. MaxFaults
  BY <1>5 DEF CreateRequest, createRequest, SetStatus, Leave, Goto
<1>6. ASSUME NEW c \in Caller, getActiveSuspension(c)
      PROVE  faults' \in 0 .. MaxFaults
  BY <1>6 DEF getActiveSuspension, SuspensionsOf, Leave, Goto
<1>7. ASSUME NEW c \in Caller, CollectBackups(c)
      PROVE  faults' \in 0 .. MaxFaults
  BY <1>7 DEF CollectBackups, Unused, Goto
<1>8. ASSUME NEW c \in Caller, RestoreRows(c)
      PROVE  faults' \in 0 .. MaxFaults
  BY <1>8 DEF RestoreRows, Restored, Fault, Goto
<1>9. ASSUME NEW c \in Caller, MarkUsed(c)
      PROVE  faults' \in 0 .. MaxFaults
  BY <1>9 DEF MarkUsed, Advance, Leave, Goto
<1>10. ASSUME NEW c \in Caller, MarkRecovered(c)
      PROVE  faults' \in 0 .. MaxFaults
  BY <1>10 DEF MarkRecovered, Goto
<1>11. ASSUME NEW c \in Caller, resumeIdentity(c)
      PROVE  faults' \in 0 .. MaxFaults
  BY <1>11 DEF resumeIdentity, Goto
<1>12. ASSUME NEW w \in Worker, Claim(w)
      PROVE  faults' \in 0 .. MaxFaults
  BY <1>12 DEF Claim, Goto
<1>13. ASSUME NEW w \in Worker, FindExpired(w)
      PROVE  faults' \in 0 .. MaxFaults
  BY <1>13 DEF FindExpired, Begin, Goto
<1>14. ASSUME NEW w \in Worker, FindRecord(w)
      PROVE  faults' \in 0 .. MaxFaults
  BY <1>14 DEF FindRecord, SuspensionsOf, Goto
<1>15. ASSUME NEW w \in Worker, Complete(w)
      PROVE  faults' \in 0 .. MaxFaults
  BY <1>15 DEF Complete, markRequestCompleted, GuardedUpdate, SetStatus, Leave, Goto
<1>16. ASSUME NEW w \in Worker, Finish(w)
      PROVE  faults' \in 0 .. MaxFaults
  BY <1>16 DEF Finish, Goto
<1>17. ASSUME NEW w \in Worker, Fail(w)
      PROVE  faults' \in 0 .. MaxFaults
  BY <1>17 DEF Fail, markRequestFailed, GuardedUpdate, SetStatus, Leave, Goto
<1>18. ASSUME NEW w \in Worker, DeleteBackups(w)
      PROVE  faults' \in 0 .. MaxFaults
  BY <1>18 DEF DeleteBackups, Nothing, Goto
<1>19. ASSUME NEW w \in Worker, MarkExpired(w)
      PROVE  faults' \in 0 .. MaxFaults
  BY <1>19 DEF MarkExpired, Goto
<1>20. ASSUME NEW w \in Worker, Throw(w)
      PROVE  faults' \in 0 .. MaxFaults
  BY <1>20 DEF Throw, Fault, Abort, Leave, Goto
<1>21. ASSUME NEW p \in Process, Resolve(p)
      PROVE  faults' \in 0 .. MaxFaults
  BY <1>21 DEF Resolve, TablesOf, Goto
<1>22. ASSUME NEW p \in Process, LoadRows(p)
      PROVE  faults' \in 0 .. MaxFaults
  BY <1>22 DEF LoadRows, Advance, AfterTables, Goto
<1>23. ASSUME NEW p \in Process, CreateBackup(p)
      PROVE  faults' \in 0 .. MaxFaults
  BY <1>23 DEF CreateBackup, Abort, Leave, Goto
<1>24. ASSUME NEW p \in Process, EraseRows(p)
      PROVE  faults' \in 0 .. MaxFaults
  BY <1>24 DEF EraseRows, Erased, Advance, AfterTables, Goto
<1>25. ASSUME NEW p \in Process, Notify(p)
      PROVE  faults' \in 0 .. MaxFaults
  BY <1>25 DEF Notify, Leave, Goto
<1>26. ASSUME NEW p \in Process, Crash(p)
      PROVE  faults' \in 0 .. MaxFaults
  BY <1>26 DEF Crash, Fault, Leave, Goto
<1>27. ASSUME NEW s0 \in Suspension, WindowCloses(s0)
      PROVE  faults' \in 0 .. MaxFaults
  BY <1>27 DEF WindowCloses
<1>28. ASSUME NEW i \in Identity, CooldownPasses(i)
      PROVE  faults' \in 0 .. MaxFaults
  BY <1>28 DEF CooldownPasses
<1>29. CASE Tick
  BY <1>29 DEF Tick, AgeRows
<1>30. CASE UNCHANGED vars
  BY <1>30 DEF vars
<1>31. QED
  BY <1>1, <1>2, <1>3, <1>4, <1>5, <1>6, <1>7, <1>8, <1>9, <1>10, <1>11, <1>12, <1>13,
     <1>14, <1>15, <1>16, <1>17, <1>18, <1>19, <1>20, <1>21, <1>22, <1>23, <1>24,
     <1>25, <1>26, <1>27, <1>28, <1>29, <1>30
     DEF Next, CallerStep, WorkerStep, ProcessStep

LEMMA SafetyInvInit == Init => SafetyInv
<1> SUFFICES ASSUME Init
             PROVE  SafetyInv
  OBVIOUS
<1>1. TypeOK
  BY FaultsAssumption, AgeIsNat
     DEF Init, TypeOK, TableInit, TableTypeOK, Status, Row, State, Stages, Nothing
<1>2. RowsOK /\ RecordsOK /\ ChannelsNeedSettings /\ BackupsOK
  BY DEF Init, TableInit, RowsOK, RecordsOK, ChannelsNeedSettings, BackupsOK, Nothing,
         Table, Immediate
<1>3. ASSUME NEW p \in Process
      PROVE  Knows(p) /\ Tables(p)
  <2>1. stage[p] = "idle" /\ record[p] = NoSuspension
    BY DEF Init
  <2>2. QED
    BY <2>1, NoSuspensionAssumption
       DEF Knows, Tables, OnTables, Anonymizing, Calling, Recovering, Deferring, Finalizing
<1>4. NothingLostBeforeExpiry
  BY DEF Init, NothingLostBeforeExpiry
<1>5. QED
  BY <1>1, <1>2, <1>3, <1>4 DEF SafetyInv

LEMMA SafetyInvStep == SafetyInv /\ [Next]_vars => SafetyInv'
<1> SUFFICES ASSUME SafetyInv, [Next]_vars
             PROVE  SafetyInv'
  OBVIOUS
<1>1. TypeOK'
  <2>1. RequestTypes' /\ AccountTypes' /\ RecordTypes' /\ ProcessTypes'
    BY RequestTypesStep, AccountTypesStep, RecordTypesStep, ProcessTypesStep
  <2>2. QED
    BY <2>1, FaultsStep
       DEF TypeOK, RequestTypes, AccountTypes, RecordTypes, ProcessTypes
<1>2. \A p \in Process : (Knows(p) /\ Tables(p))'
  BY ProcessesStep
<1>3. QED
  BY <1>1, <1>2, RowsStep, RecordsStep, ChannelsStep, BackupsStep, NothingLostStep
     DEF SafetyInv

LEMMA SpecSafetyInv == Spec => []SafetyInv
BY SafetyInvInit, SafetyInvStep, PTL DEF Spec

(* Every variable of the suspension of accounts stays in its range.        *)
THEOREM SuspensionTypes == Spec => []TypeOK
<1>1. SafetyInv => TypeOK
  BY DEF SafetyInv
<1>2. QED
  BY <1>1, SpecSafetyInv, PTL

(* Whatever crashes, overlaps or is retried: until the suspension is        *)
(* finalized, what an account had is in its tables or in a backup.         *)
THEOREM NoDataLost == Spec => []NothingLostBeforeExpiry
<1>1. SafetyInv => NothingLostBeforeExpiry
  BY DEF SafetyInv
<1>2. QED
  BY <1>1, SpecSafetyInv, PTL
-----------------------------------------------------------------------------
(* Once its window has closed nobody is saving rows for a suspension, nor  *)
(* does anybody begin: its record has left SUSPENDING for good.            *)
NotSaving(p) == stage[p] \in Recovering \cup Finalizing \cup {"notifying"}

ExpiryInv ==
  /\ \A p \in Process : record[p] \in closed => NotSaving(p)
  /\ \A s \in closed : state[s] \in {"SUSPENDED", "RECOVERED", "EXPIRED"}
  /\ \A p \in Process : stage[p] = "expiring" => backup[record[p]] = Nothing
  /\ \A s \in Suspension : state[s] = "EXPIRED" => s \in closed
  /\ ExpiredLeavesNoBackup

LEMMA LeaveKeepsExpiry ==
  ASSUME SafetyInv, ExpiryInv, NEW p \in Process, Leave(p), UNCHANGED <<state, closed, backup>>
  PROVE  ExpiryInv'
<1>1. /\ RecordTypes /\ stage' = [stage EXCEPT ![p] = "idle"]
      /\ record' = [record EXCEPT ![p] = NoSuspension]
      /\ stage \in [Process -> Stages]
      /\ record \in [Process -> Suspension \cup {NoSuspension}]
  BY TypeParts DEF SafetyInv, ProcessTypes, Leave, Goto
<1>2. QED
  BY <1>1, NoSuspensionAssumption
     DEF ExpiryInv, NotSaving, ExpiredLeavesNoBackup, RecordTypes

LEMMA ExpiryStep == SafetyInv /\ ExpiryInv /\ [Next]_vars => ExpiryInv'
<1> SUFFICES ASSUME SafetyInv, ExpiryInv, [Next]_vars
             PROVE  ExpiryInv'
  OBVIOUS
<1>0. /\ RequestTypes /\ AccountTypes /\ RecordTypes /\ ProcessTypes
      /\ RecordsOK /\ \A p \in Process : Knows(p)
  BY TypeParts DEF SafetyInv
<1> USE <1>0, NoSuspensionAssumption, NoIdentityAssumption
<1> USE DEF tableVars, accountVars, recordVars, backupVars, procVars,
            ExpiryInv, NotSaving, ExpiredLeavesNoBackup, RecordTypes, ProcessTypes, RecordsOK,
            Knows, Process, Calling, Anonymizing, Recovering, Deferring, Finalizing
<1>1. ASSUME NEW c \in Caller, NEW i \in Identity, requestSuspension(c, i)
      PROVE  ExpiryInv'
  BY <1>1 DEF requestSuspension, Begin, Goto
<1>2. ASSUME NEW c \in Caller, NEW i \in Identity, recoverAccount(c, i)
      PROVE  ExpiryInv'
  BY <1>2 DEF recoverAccount, Begin, Goto
<1>3. ASSUME NEW c \in Caller, suspendIdentity(c)
      PROVE  ExpiryInv'
  BY <1>3 DEF suspendIdentity, Goto
<1>4. ASSUME NEW c \in Caller, CreateRecord(c)
      PROVE  ExpiryInv'
  BY <1>4 DEF CreateRecord, Goto
<1>5. ASSUME NEW c \in Caller, CreateRequest(c)
      PROVE  ExpiryInv'
  BY <1>5 DEF CreateRequest, createRequest, SetStatus, Leave, Goto
<1>6. ASSUME NEW c \in Caller, getActiveSuspension(c)
      PROVE  ExpiryInv'
  <2>1. CASE Leave(c)
    BY <1>6, <2>1, LeaveKeepsExpiry DEF getActiveSuspension
  <2>2. CASE ~ Leave(c)
    <3>1. PICK s \in Suspension : record' = [record EXCEPT ![c] = s]
      BY <1>6, <2>2 DEF getActiveSuspension, SuspensionsOf
    <3>2. /\ stage[c] = "validated" /\ stage' = [stage EXCEPT ![c] = "collecting"]
          /\ UNCHANGED <<state, closed, backup>>
      BY <1>6, <2>2 DEF getActiveSuspension, Goto
    <3>3. QED
      BY <3>1, <3>2
  <2>3. QED
    BY <2>1, <2>2
<1>7. ASSUME NEW c \in Caller, CollectBackups(c)
      PROVE  ExpiryInv'
  BY <1>7 DEF CollectBackups, Unused, Goto
<1>8. ASSUME NEW c \in Caller, RestoreRows(c)
      PROVE  ExpiryInv'
  BY <1>8 DEF RestoreRows, Restored, Fault, Goto
<1>9. ASSUME NEW c \in Caller, MarkUsed(c)
      PROVE  ExpiryInv'
  <2>1. CASE Leave(c)
    BY <1>9, <2>1, LeaveKeepsExpiry DEF MarkUsed
  <2>2. CASE ~ Leave(c)
    <3>1. \E g \in {"restoring", "recovering"} : stage' = [stage EXCEPT ![c] = g]
      BY <1>9, <2>2 DEF MarkUsed, Advance, Goto
    <3>2. UNCHANGED <<state, closed, backup, record>> /\ stage[c] = "marking"
      BY <1>9, <2>2 DEF MarkUsed
    <3>3. QED
      BY <3>1, <3>2
  <2>3. QED
    BY <2>1, <2>2
<1>10. ASSUME NEW c \in Caller, MarkRecovered(c)
      PROVE  ExpiryInv'
  BY <1>10 DEF MarkRecovered, Goto
<1>11. ASSUME NEW c \in Caller, resumeIdentity(c)
      PROVE  ExpiryInv'
  BY <1>11 DEF resumeIdentity, Goto
<1>12. ASSUME NEW w \in Worker, Claim(w)
      PROVE  ExpiryInv'
  BY <1>12 DEF Claim, Goto
<1>13. ASSUME NEW w \in Worker, FindExpired(w)
      PROVE  ExpiryInv'
  BY <1>13 DEF FindExpired, Begin, Goto
<1>14. ASSUME NEW w \in Worker, FindRecord(w)
      PROVE  ExpiryInv'
  <2>1. stage[w] = "claimed" /\ UNCHANGED <<state, closed, backup>>
    BY <1>14 DEF FindRecord
  <2>2. CASE stage' = [stage EXCEPT ![w] = "failing"] /\ record' = record
    <3>1. record[w] \notin closed
      BY <2>1
    <3>2. QED
      BY <2>1, <2>2, <3>1
  <2>3. CASE stage' = [stage EXCEPT ![w] = "resolving"]
    <3>1. PICK s \in Suspension : state[s] = "SUSPENDING" /\ record' = [record EXCEPT ![w] = s]
      BY <1>14, <2>3 DEF FindRecord, SuspensionsOf, Goto
    <3>2. s \notin closed
      BY <3>1
    <3>3. QED
      BY <2>1, <2>3, <3>1, <3>2
  <2>4. QED
    BY <1>14, <2>2, <2>3 DEF FindRecord, Goto
<1>15. ASSUME NEW w \in Worker, Complete(w)
      PROVE  ExpiryInv'
  <2>0. stage[w] = "completing" /\ UNCHANGED <<state, closed, backup>>
    BY <1>15 DEF Complete
  <2>1. CASE Leave(w)
    BY <2>0, <2>1, LeaveKeepsExpiry
  <2>2. CASE stage' = [stage EXCEPT ![w] = "finishing"] /\ record' = record
    <3>1. record[w] \notin closed
      BY <2>0
    <3>2. QED
      BY <2>0, <2>2, <3>1
  <2>3. QED
    BY <1>15, <2>1, <2>2 DEF Complete, Goto
<1>16. ASSUME NEW w \in Worker, Finish(w)
      PROVE  ExpiryInv'
  BY <1>16 DEF Finish, Goto
<1>17. ASSUME NEW w \in Worker, Fail(w)
      PROVE  ExpiryInv'
  BY <1>17 DEF Fail, markRequestFailed, GuardedUpdate, SetStatus, Leave, Goto
<1>18. ASSUME NEW w \in Worker, DeleteBackups(w)
      PROVE  ExpiryInv'
  <2>1. /\ stage[w] = "purging" /\ stage' = [stage EXCEPT ![w] = "expiring"]
        /\ backup' = [backup EXCEPT ![record[w]] = Nothing]
        /\ UNCHANGED <<state, closed, record>>
    BY <1>18 DEF DeleteBackups, Goto
  <2>2. record[w] \in closed
    BY <2>1
  <2>3. \A s \in Suspension : backup'[s] = IF s = record[w] THEN Nothing ELSE backup[s]
    BY <2>1
  <2>4. backup'[record[w]] = Nothing
    BY <2>2, <2>3
  <2>5. \A p \in Process : stage'[p] = "expiring" => record[p] \in Suspension
    BY <2>1, <2>2
  <2> HIDE DEF Nothing
  <2>6. ExpiredLeavesNoBackup'
    BY <2>1, <2>3
  <2>7. \A p \in Process : stage'[p] = "expiring" => backup'[record'[p]] = Nothing
    BY <2>1, <2>3, <2>4, <2>5
  <2>8. \A p \in Process : record'[p] \in closed' => NotSaving(p)'
    BY <2>1, <2>2
  <2>9. QED
    BY <2>1, <2>6, <2>7, <2>8
<1>19. ASSUME NEW w \in Worker, MarkExpired(w)
      PROVE  ExpiryInv'
  BY <1>19 DEF MarkExpired, Goto
<1>20. ASSUME NEW w \in Worker, Throw(w)
      PROVE  ExpiryInv'
  <2>1. /\ stage[w] \in Anonymizing \cup {"completing", "finishing"}
        /\ stage' = [stage EXCEPT ![w] = "failing"]
        /\ UNCHANGED <<state, closed, backup, record>>
    BY <1>20 DEF Throw, Abort, Goto
  <2>2. record[w] \notin closed
    BY <2>1
  <2>3. QED
    BY <2>1, <2>2
<1>21. ASSUME NEW p \in Process, Resolve(p)
      PROVE  ExpiryInv'
  BY <1>21 DEF Resolve, TablesOf, Goto
<1>22. ASSUME NEW p \in Process, LoadRows(p)
      PROVE  ExpiryInv'
  BY <1>22 DEF LoadRows, Advance, AfterTables, Goto
<1>23. ASSUME NEW p \in Process, CreateBackup(p)
      PROVE  ExpiryInv'
  <2>0. stage[p] = "saving" /\ UNCHANGED <<state, closed>>
    BY <1>23 DEF CreateBackup
  <2>1. record[p] \in Suspension \ closed
    BY <2>0
  <2>2. CASE Leave(p) /\ backup' = backup
    BY <2>0, <2>2, LeaveKeepsExpiry
  <2>3. CASE stage' = [stage EXCEPT ![p] = "failing"] /\ UNCHANGED <<record, backup>>
    BY <2>0, <2>1, <2>3
  <2>4. CASE /\ backup' = [backup EXCEPT ![record[p]][ToErase(p)] = memory[p][ToErase(p)]]
             /\ stage' = [stage EXCEPT ![p] = "erasing"] /\ record' = record
    <3>1. \A s \in closed : backup'[s] = backup[s]
      BY <2>1, <2>4
    <3>2. \A q \in Process : stage'[q] = "expiring" => stage[q] = "expiring" /\ record[q] \in closed
      BY <2>4
    <3>3. \A q \in Process : stage'[q] = "expiring" => backup'[record'[q]] = Nothing
      BY <2>4, <3>1, <3>2
    <3>4. ExpiredLeavesNoBackup'
      BY <2>0, <3>1
    <3>5. \A q \in Process : record'[q] \in closed' => NotSaving(q)'
      BY <2>0, <2>1, <2>4
    <3>6. QED
      BY <2>0, <3>3, <3>4, <3>5
  <2>5. QED
    BY <1>23, <2>2, <2>3, <2>4 DEF CreateBackup, Abort, Goto
<1>24. ASSUME NEW p \in Process, EraseRows(p)
      PROVE  ExpiryInv'
  BY <1>24 DEF EraseRows, Erased, Advance, AfterTables, Goto
<1>25. ASSUME NEW p \in Process, Notify(p)
      PROVE  ExpiryInv'
  BY <1>25 DEF Notify, Leave, Goto
<1>26. ASSUME NEW p \in Process, Crash(p)
      PROVE  ExpiryInv'
  BY <1>26 DEF Crash, Fault, Leave, Goto
<1>27. ASSUME NEW s0 \in Suspension, WindowCloses(s0)
      PROVE  ExpiryInv'
  BY <1>27 DEF WindowCloses
<1>28. ASSUME NEW i \in Identity, CooldownPasses(i)
      PROVE  ExpiryInv'
  BY <1>28 DEF CooldownPasses
<1>29. CASE Tick
  BY <1>29 DEF Tick, AgeRows
<1>30. CASE UNCHANGED vars
  BY <1>30 DEF vars
<1>31. QED
  BY <1>1, <1>2, <1>3, <1>4, <1>5, <1>6, <1>7, <1>8, <1>9, <1>10, <1>11, <1>12, <1>13,
     <1>14, <1>15, <1>16, <1>17, <1>18, <1>19, <1>20, <1>21, <1>22, <1>23, <1>24,
     <1>25, <1>26, <1>27, <1>28, <1>29, <1>30
     DEF Next, CallerStep, WorkerStep, ProcessStep

(* An expired suspension keeps no backup, although a slow worker or a      *)
(* recovery may still be at the account when its window closes.            *)
THEOREM ExpiredIsForgotten == Spec => []ExpiredLeavesNoBackup
<1>1. Init => ExpiryInv
  BY NoSuspensionAssumption DEF Init, ExpiryInv, ExpiredLeavesNoBackup
<1>2. ExpiryInv => ExpiredLeavesNoBackup
  BY DEF ExpiryInv
<1>3. QED
  BY <1>1, <1>2, SpecSafetyInv, ExpiryStep, PTL DEF Spec

-----------------------------------------------------------------------------
(* Who is busy with an account, as long as no calls for its suspension     *)
(* have overlapped.  The latest suspension is the one everybody works on.  *)
Over(s) == state[s] \in {"RECOVERED", "EXPIRED"}
Left(s) == state[s] \in {"SUSPENDED", "RECOVERED", "EXPIRED"}
Active(s) == state[s] \in {"SUSPENDING", "SUSPENDED"}
Open(r) == status[r] \in {"PENDING", "PROCESSING"}
Latest(s) == \A q \in SuspensionsOf(holder[s]) : q <= s
AllOver(i) == \A s \in SuspensionsOf(i) : Over(s)
NoneOpen(i) == \A r \in RequestsOf(i) : ~ Open(r)

Outside == Calling \ {"requesting"}
Ending == {"collecting", "restoring", "marking", "recovering", "resuming"} \cup Finalizing

(* Who is idle holds nothing, who asks has a record by the end; numbers    *)
(* are taken in order; what does not exist yet has left no trace; a worker *)
(* has a request of its identity.                                          *)
AtRest ==
  /\ \A p \in Process : stage[p] = "idle" => who[p] = NoIdentity /\ memory[p] = Nothing
  /\ \A c \in Caller : stage[c] \in Outside => memory[c] = Nothing
  /\ \A c \in Caller : stage[c] = "requesting" => record[c] \in Suspension
  /\ \A q, s \in Suspension : state[q] # "NONE" /\ state[s] = "NONE" => q < s
  /\ \A s \in Suspension : state[s] = "NONE" =>
       backup[s] = Nothing /\ used[s] = {} /\ s \notin closed \cup skipped \cup reopened
  /\ \A r \in Request : status[r] = "NONE" => owner[r] = NoIdentity
  /\ \A w \in Worker : stage[w] \in Deferring \cup Anonymizing =>
       owner[task[w]] = who[w] /\ status[task[w]] # "NONE"

(* A call for suspension is alone with the account.                        *)
Alone(c, i) ==
  /\ \A p \in Process : who[p] = i => p = c
  /\ NoneOpen(i)
  /\ stage[c] # "suspending" => isSuspended[i]
  /\ IF stage[c] \in Outside THEN AllOver(i) ELSE state[record[c]] = "SUSPENDING"

(* Where a process on i can be.                                            *)
InOrder(p, i) ==
  /\ record[p] \in Suspension => Latest(record[p])
  /\ stage[p] # "suspending" => isSuspended[i] \/ i \in cooling
  /\ stage[p] = "resuming" => i \in cooling /\ AllOver(i) /\ NoneOpen(i)
  /\ stage[p] = "finishing" =>
       /\ state[record[p]] = "SUSPENDING" /\ NoneOpen(i)
       /\ \A q \in Process : who[q] = i /\ stage[q] = "finishing" => q = p
  /\ stage[p] \in Ending => Left(record[p])

Ordered(i) ==
  /\ \A c \in Caller : who[c] = i /\ stage[c] \in Calling \cup Anonymizing => Alone(c, i)
  /\ \A p \in Process : who[p] = i => InOrder(p, i)
  /\ \A s \in SuspensionsOf(i) : Active(s) => isSuspended[i] /\ Latest(s)
  /\ \A r \in RequestsOf(i) : Open(r) =>
       /\ \E s \in SuspensionsOf(i) : state[s] = "SUSPENDING"
       /\ \A q \in RequestsOf(i) : Open(q) => q = r

OrderInv == \A i \in Identity \ overlapped : Ordered(i)

-----------------------------------------------------------------------------
(* What the pass of p, or those before it, have been through.              *)
Cleared(p) ==
  CASE stage[p] \in OnTables -> (IF p \in Worker THEN Table ELSE Immediate) \ todo[p]
    [] stage[p] \in {"claimed", "requesting"} -> Immediate
    [] stage[p] = "resolving" /\ p \in Worker -> Immediate
    [] stage[p] \in {"completing", "finishing"} -> Table
    [] OTHER -> {}

Hidden(i, t) == "original" \notin content[i][t]

(* Not a row of i is left that could come back.                            *)
Blank(i) ==
  \A t \in Table :
    /\ Hidden(i, t)
    /\ \A q \in SuspensionsOf(i) : Latest(q) => "original" \notin backup[q][t]
    /\ \A p \in Process : who[p] = i => "original" \notin memory[p][t]

Concealed(s, i) ==
  /\ Latest(s) =>
       /\ Left(s) => \A t \in Table : Hidden(i, t)
       /\ ~ NoneOpen(i) => \A t \in Immediate : Hidden(i, t)
       /\ \A p \in Process : who[p] = i => \A t \in Cleared(p) : Hidden(i, t)
  /\ ~ Latest(s) /\ state[s] = "EXPIRED" => Blank(i)

HiddenInv ==
  \A i \in Identity \ overlapped :
    \A s \in SuspensionsOf(i) \ reopened : Concealed(s, i)

-----------------------------------------------------------------------------
(* Without faults the flag is only set while there is a reason.            *)
Excused(i) ==
  \/ \E s \in SuspensionsOf(i) : Active(s) \/ s \in closed
  \/ \E c \in Caller : who[c] = i /\ stage[c] \in {"recording", "resuming"}

FlagInv == faults = 0 => \A i \in Identity : isSuspended[i] => Excused(i)

-----------------------------------------------------------------------------
Erases(p, s, t) == stage[p] = "erasing" /\ record[p] = s /\ ToErase(p) = t

(* The rows of t are saved, and nobody is about to erase them any more.    *)
Done(s, t) == backup[s][t] # {} /\ \A p \in Process : ~ Erases(p, s, t)

Original(i, t) == "original" \in content[i][t]

(* What a process on i has in its hands, s being the latest suspension.    *)
Holds(p, s, i) ==
  /\ \A t \in Cleared(p) : Done(s, t)
  /\ stage[p] = "saving" /\ backup[s][ToErase(p)] = {} => "original" \in memory[p][ToErase(p)]
  /\ stage[p] = "erasing" =>
       /\ state[s] = "SUSPENDING" /\ backup[s][ToErase(p)] # {}
       /\ ToErase(p) = "settings" => Done(s, "channels")
       /\ \A q \in Process : Erases(q, s, ToErase(p)) => q = p
  /\ stage[p] \in {"restoring", "marking"} =>
       memory[p] = backup[s] /\ Table \ todo[p] \subseteq used[s]
  /\ stage[p] = "marking" => Original(i, ToRestore(p))
  /\ stage[p] \in {"recovering", "resuming"} => used[s] = Table

(* What was saved for the latest suspension is what the account had.       *)
Kept(s, i) ==
  /\ state[s] = "SUSPENDING" => used[s] = {}
  /\ state[s] = "RECOVERED" => used[s] = Table
  /\ Left(s) => \A t \in Table : Done(s, t)
  /\ ~ NoneOpen(i) => \A t \in Immediate : Done(s, t)
  /\ \A t \in Table :
       /\ content[i][t] = {} => Done(s, t)
       /\ IF backup[s][t] = {} THEN Original(i, t)
          ELSE "original" \in backup[s][t] /\ (t \in used[s] => Original(i, t))

Sound(s, i) == Kept(s, i) /\ \A p \in Process : who[p] = i => Holds(p, s, i)

Whole(i) ==
  /\ SuspensionsOf(i) = {} => \A t \in Table : Original(i, t)
  /\ SuspensionsOf(i) # {} => \E s \in SuspensionsOf(i) : Latest(s)
  /\ \A s \in SuspensionsOf(i) : Latest(s) => Sound(s, i)

WholeInv == \A i \in Identity : Undisturbed(i) => Whole(i)



LEMMA LeaveAtRest ==
  ASSUME SafetyInv, AtRest, NEW p \in Process, Leave(p),
         UNCHANGED <<tableVars, owner, state, closed, backupVars>>
  PROVE  AtRest'
<1>1. ProcessTypes /\ RequestTypes
  BY TypeParts DEF SafetyInv
<1>2. /\ stage' = [stage EXCEPT ![p] = "idle"] /\ who' = [who EXCEPT ![p] = NoIdentity]
      /\ record' = [record EXCEPT ![p] = NoSuspension]
      /\ task' = [task EXCEPT ![p] = NoRequest] /\ memory' = [memory EXCEPT ![p] = Nothing]
  BY DEF Leave, Goto
<1>3. QED
  BY <1>1, <1>2, ActorAssumption
     DEF AtRest, ProcessTypes, Process, Outside, Calling, Deferring, Anonymizing, tableVars,
         backupVars

LEMMA AtRestStep ==
  SafetyInv /\ AtRest /\ [Next]_vars => AtRest'
<1> SUFFICES ASSUME SafetyInv, AtRest, [Next]_vars
             PROVE  AtRest'
  OBVIOUS
<1>0. /\ RequestTypes /\ AccountTypes /\ RecordTypes /\ ProcessTypes
      /\ RecordsOK /\ RowsOK /\ \A p \in Process : Knows(p)
  BY TypeParts DEF SafetyInv
<1> USE <1>0, NoSuspensionAssumption, NoIdentityAssumption, ActorAssumption
<1> USE DEF tableVars, accountVars, recordVars, backupVars, procVars, AtRest, RecordTypes,
            ProcessTypes, RequestTypes, TableTypeOK, RecordsOK, RowsOK, Knows, Process, Outside,
            Calling, Anonymizing, Recovering, Deferring, Finalizing
<1>1. ASSUME NEW c \in Caller, NEW j \in Identity, requestSuspension(c, j)
      PROVE  AtRest'
  BY <1>1 DEF requestSuspension, Begin, Goto
<1>2. ASSUME NEW c \in Caller, NEW j \in Identity, recoverAccount(c, j)
      PROVE  AtRest'
  BY <1>2 DEF recoverAccount, Begin, Goto
<1>3. ASSUME NEW c \in Caller, suspendIdentity(c)
      PROVE  AtRest'
  BY <1>3 DEF suspendIdentity, Goto
<1>4. ASSUME NEW c \in Caller, CreateRecord(c)
      PROVE  AtRest'
  <2>1. PICK s \in Suspension :
          /\ state[s] = "NONE" /\ \A q \in Suspension : state[q] = "NONE" => s <= q
          /\ state' = [state EXCEPT ![s] = "SUSPENDING"]
    BY <1>4 DEF CreateRecord
  <2>2. /\ stage' = [stage EXCEPT ![c] = "resolving"]
        /\ UNCHANGED <<tableVars, owner, closed, backupVars, who, task, memory>>
    BY <1>4 DEF CreateRecord, Goto
  <2>3. \A q, t \in Suspension : state'[q] # "NONE" /\ state'[t] = "NONE" => q < t
    BY <2>1, SuspensionAssumption
  <2>4. QED
    BY <1>4, <2>1, <2>2, <2>3 DEF CreateRecord
<1>5. ASSUME NEW c \in Caller, CreateRequest(c)
      PROVE  AtRest'
  BY <1>5 DEF CreateRequest, createRequest, SetStatus, Leave, Goto
<1>6. ASSUME NEW c \in Caller, getActiveSuspension(c)
      PROVE  AtRest'
  <2>1. CASE Leave(c)
    BY <1>6, <2>1, LeaveAtRest DEF getActiveSuspension
  <2>2. CASE ~ Leave(c)
    <3>1. /\ stage[c] = "validated" /\ stage' = [stage EXCEPT ![c] = "collecting"]
          /\ \E s \in Suspension : record' = [record EXCEPT ![c] = s]
          /\ UNCHANGED <<tableVars, owner, recordVars, backupVars, who, task, memory>>
      BY <1>6, <2>2 DEF getActiveSuspension, SuspensionsOf, Goto
    <3>2. QED
      BY <3>1
  <2>3. QED
    BY <2>1, <2>2
<1>7. ASSUME NEW c \in Caller, CollectBackups(c)
      PROVE  AtRest'
  BY <1>7 DEF CollectBackups, Goto
<1>8. ASSUME NEW c \in Caller, RestoreRows(c)
      PROVE  AtRest'
  BY <1>8 DEF RestoreRows, Restored, Fault, Goto
<1>9. ASSUME NEW c \in Caller, MarkUsed(c)
      PROVE  AtRest'
  <2>1. CASE Leave(c) /\ UNCHANGED used
    BY <1>9, <2>1, LeaveAtRest DEF MarkUsed
  <2>2. CASE ~ (Leave(c) /\ UNCHANGED used)
    <3>1. /\ used' = [used EXCEPT ![record[c]] = @ \cup {ToRestore(c)}]
          /\ stage[c] = "marking" /\ backup[record[c]][ToRestore(c)] # {}
          /\ \E g \in {"restoring", "recovering"} : stage' = [stage EXCEPT ![c] = g]
          /\ UNCHANGED <<tableVars, owner, state, closed, backup, skipped, reopened, who,
                         record, task, memory>>
      BY <1>9, <2>2 DEF MarkUsed, Advance, Goto
    <3>2. state[record[c]] # "NONE"
      BY <3>1
    <3>3. QED
      BY <3>1, <3>2
  <2>3. QED
    BY <2>1, <2>2
<1>10. ASSUME NEW c \in Caller, MarkRecovered(c)
      PROVE  AtRest'
  BY <1>10 DEF MarkRecovered, Goto
<1>11. ASSUME NEW c \in Caller, resumeIdentity(c)
      PROVE  AtRest'
  BY <1>11 DEF resumeIdentity, Goto
<1>12. ASSUME NEW w \in Worker, Claim(w)
      PROVE  AtRest'
  BY <1>12 DEF Claim, ClaimRows, Candidates, Claimable, Stale, Goto
<1>13. ASSUME NEW w \in Worker, FindExpired(w)
      PROVE  AtRest'
  BY <1>13 DEF FindExpired, Begin, Goto
<1>14. ASSUME NEW w \in Worker, FindRecord(w)
      PROVE  AtRest'
  <2>1. /\ stage[w] = "claimed"
        /\ \E g \in {"failing", "resolving"} : stage' = [stage EXCEPT ![w] = g]
        /\ \A c \in Caller : record'[c] = record[c]
        /\ UNCHANGED <<tableVars, owner, recordVars, backupVars, who, task, memory>>
    BY <1>14 DEF FindRecord, Goto
  <2>2. QED
    BY <2>1
<1>15. ASSUME NEW w \in Worker, Complete(w)
      PROVE  AtRest'
  <2>1. /\ stage[w] = "completing" /\ task[w] \in Request /\ status[task[w]] # "NONE"
        /\ status' = IF status[task[w]] = "PROCESSING"
                       THEN [status EXCEPT ![task[w]] = "COMPLETED"] ELSE status
        /\ UNCHANGED <<owner, recordVars, backupVars>>
        /\ \A c \in Caller : stage'[c] = stage[c] /\ record'[c] = record[c]
    BY <1>15 DEF Complete, Leave, Goto, markRequestCompleted, GuardedUpdate, SetStatus
  <2>2. \A r \in Request : status'[r] = "NONE" <=> status[r] = "NONE"
    BY <2>1
  <2>3. \/ stage' = [stage EXCEPT ![w] = "finishing"] /\ UNCHANGED <<who, task, memory>>
        \/ /\ stage' = [stage EXCEPT ![w] = "idle"]
           /\ who' = [who EXCEPT ![w] = NoIdentity]
           /\ task' = [task EXCEPT ![w] = NoRequest]
           /\ memory' = [memory EXCEPT ![w] = Nothing]
    BY <1>15 DEF Complete, Leave, Goto
  <2>4. \A v \in Worker : stage'[v] \in Deferring \cup Anonymizing =>
          stage[v] \in Deferring \cup Anonymizing /\ task'[v] = task[v] /\ who'[v] = who[v]
    BY <2>1, <2>3
  <2>5. \A v \in Worker : stage'[v] \in Deferring \cup Anonymizing =>
          owner'[task'[v]] = who'[v] /\ status'[task'[v]] # "NONE"
    BY <2>1, <2>2, <2>4
  <2>6. /\ \A p \in Process : stage'[p] = "idle" => who'[p] = NoIdentity /\ memory'[p] = Nothing
        /\ \A c \in Caller : stage'[c] \in Outside => memory'[c] = Nothing
    <3>1. CASE stage' = [stage EXCEPT ![w] = "finishing"] /\ UNCHANGED <<who, task, memory>>
      BY <2>1, <3>1
    <3>2. CASE /\ stage' = [stage EXCEPT ![w] = "idle"]
               /\ who' = [who EXCEPT ![w] = NoIdentity]
               /\ memory' = [memory EXCEPT ![w] = Nothing]
      BY <2>1, <3>2
    <3>3. QED
      BY <2>3, <3>1, <3>2
  <2>7. QED
    BY <2>1, <2>2, <2>5, <2>6
<1>16. ASSUME NEW w \in Worker, Finish(w)
      PROVE  AtRest'
  BY <1>16 DEF Finish, Goto
<1>17. ASSUME NEW w \in Worker, Fail(w)
      PROVE  AtRest'
  BY <1>17 DEF Fail, markRequestFailed, GuardedUpdate, SetStatus, Leave, Goto
<1>18. ASSUME NEW w \in Worker, DeleteBackups(w)
      PROVE  AtRest'
  <2>1. /\ stage[w] = "purging" /\ stage' = [stage EXCEPT ![w] = "expiring"]
        /\ backup' = [backup EXCEPT ![record[w]] = Nothing]
        /\ used' = [used EXCEPT ![record[w]] = {}]
        /\ UNCHANGED <<tableVars, owner, recordVars, skipped, reopened, who, record, task,
                       memory>>
    BY <1>18 DEF DeleteBackups, Goto
  <2>2. \A s \in Suspension : /\ backup[s] = Nothing => backup'[s] = Nothing
                             /\ used[s] = {} => used'[s] = {}
    BY <2>1
  <2>3. QED
    BY <2>1, <2>2
<1>19. ASSUME NEW w \in Worker, MarkExpired(w)
      PROVE  AtRest'
  BY <1>19 DEF MarkExpired, Goto
<1>20. ASSUME NEW w \in Worker, Throw(w)
      PROVE  AtRest'
  BY <1>20 DEF Throw, Fault, Abort, Leave, Goto
<1>21. ASSUME NEW p \in Process, Resolve(p)
      PROVE  AtRest'
  BY <1>21 DEF Resolve, TablesOf, Goto
<1>22. ASSUME NEW p \in Process, LoadRows(p)
      PROVE  AtRest'
  BY <1>22 DEF LoadRows, Advance, AfterTables, Goto
<1>23. ASSUME NEW p \in Process, CreateBackup(p)
      PROVE  AtRest'
  <2>1. CASE Leave(p) /\ UNCHANGED backup
    BY <1>23, <2>1, LeaveAtRest DEF CreateBackup
  <2>2. CASE ~ (Leave(p) /\ UNCHANGED backup)
    <3>1. /\ stage[p] = "saving" /\ record[p] \in Suspension /\ state[record[p]] # "NONE"
          /\ stage' = [stage EXCEPT ![p] = "erasing"]
               \/ (p \in Worker /\ stage' = [stage EXCEPT ![p] = "failing"])
          /\ UNCHANGED <<tableVars, owner, recordVars, used, skipped, reopened, who, record,
                         task, memory>>
      BY <1>23, <2>2 DEF CreateBackup, Abort, Goto
    <3>2. \A s \in Suspension : s # record[p] => backup'[s] = backup[s]
      BY <1>23 DEF CreateBackup
    <3>3. QED
      BY <3>1, <3>2
  <2>3. QED
    BY <2>1, <2>2
<1>24. ASSUME NEW p \in Process, EraseRows(p)
      PROVE  AtRest'
  BY <1>24 DEF EraseRows, Advance, AfterTables, Goto
<1>25. ASSUME NEW p \in Process, Notify(p)
      PROVE  AtRest'
  BY <1>25 DEF Notify, Leave, Goto
<1>26. ASSUME NEW p \in Process, Crash(p)
      PROVE  AtRest'
  BY <1>26 DEF Crash, Fault, Leave, Goto
<1>27. ASSUME NEW s0 \in Suspension, WindowCloses(s0)
      PROVE  AtRest'
  BY <1>27 DEF WindowCloses
<1>28. ASSUME NEW j \in Identity, CooldownPasses(j)
      PROVE  AtRest'
  BY <1>28 DEF CooldownPasses
<1>29. CASE Tick
  BY <1>29 DEF Tick, AgeRows
<1>30. CASE UNCHANGED vars
  BY <1>30 DEF vars
<1>31. QED
  BY <1>1, <1>2, <1>3, <1>4, <1>5, <1>6, <1>7, <1>8, <1>9, <1>10, <1>11, <1>12, <1>13,
     <1>14, <1>15, <1>16, <1>17, <1>18, <1>19, <1>20, <1>21, <1>22, <1>23, <1>24, <1>25,
     <1>26, <1>27, <1>28, <1>29, <1>30
     DEF Next, CallerStep, WorkerStep, ProcessStep


-----------------------------------------------------------------------------
(* A step leaves the accounts alone that it is not about.                  *)
Untouched(i) ==
  /\ isSuspended'[i] = isSuspended[i] /\ content'[i] = content[i]
  /\ i \in cooling' <=> i \in cooling
  /\ i \in overlapped' <=> i \in overlapped
  /\ \A s \in Suspension :
       /\ holder'[s] = i <=> holder[s] = i
       /\ holder[s] = i =>
            /\ state'[s] = state[s] /\ backup'[s] = backup[s] /\ used'[s] = used[s]
            /\ s \in closed' <=> s \in closed
            /\ s \in skipped' <=> s \in skipped
            /\ s \in reopened' <=> s \in reopened
  /\ \A p \in Process :
       /\ who'[p] = i <=> who[p] = i
       /\ who[p] = i => /\ stage'[p] = stage[p] /\ record'[p] = record[p]
                        /\ todo'[p] = todo[p] /\ memory'[p] = memory[p]
  /\ \A r \in Request :
       /\ owner'[r] = i <=> owner[r] = i
       /\ owner[r] = i => (Open(r)' <=> Open(r))

(* The account a process deals with, after the step if it was idle before. *)
Deals(p, i) == who[p] = i \/ (stage[p] = "idle" /\ who'[p] = i)

(* The steps of a process.                                                 *)
Moves(p) ==
  \/ p \in Caller /\ \E i \in Identity : requestSuspension(p, i) \/ recoverAccount(p, i)
  \/ p \in Caller /\ CallerStep(p)
  \/ p \in Worker /\ (Claim(p) \/ FindExpired(p) \/ WorkerStep(p) \/ Throw(p))
  \/ ProcessStep(p) \/ Crash(p)

LEMMA Elsewhere ==
  ASSUME SafetyInv, AtRest, NEW p \in Process, Moves(p),
         NEW i \in Identity, ~ Deals(p, i)
  PROVE  Untouched(i)
<1>0. /\ RequestTypes /\ AccountTypes /\ RecordTypes /\ ProcessTypes
      /\ RecordsOK /\ RowsOK /\ Knows(p)
  BY TypeParts DEF SafetyInv
<1> USE <1>0, NoSuspensionAssumption, NoIdentityAssumption, ActorAssumption
<1> USE DEF tableVars, accountVars, recordVars, backupVars, procVars, AtRest, RecordTypes,
            ProcessTypes, RequestTypes, AccountTypes, TableTypeOK, RecordsOK, RowsOK, Knows,
            Process, Calling, Anonymizing, Recovering, Deferring, Finalizing,
            Untouched, Deals, Open
<1>1. ASSUME NEW j \in Identity, p \in Caller, requestSuspension(p, j)
      PROVE  Untouched(i)
  BY <1>1 DEF requestSuspension, Begin, Goto
<1>2. ASSUME NEW j \in Identity, p \in Caller, recoverAccount(p, j)
      PROVE  Untouched(i)
  BY <1>2 DEF recoverAccount, Begin, Goto
<1>3. CASE p \in Caller /\ suspendIdentity(p)
  BY <1>3 DEF suspendIdentity, Goto
<1>4. CASE p \in Caller /\ CreateRecord(p)
  BY <1>4 DEF CreateRecord, Goto
<1>5. CASE p \in Caller /\ CreateRequest(p)
  BY <1>5 DEF CreateRequest, createRequest, SetStatus, Leave, Goto
<1>6. CASE p \in Caller /\ getActiveSuspension(p)
  BY <1>6 DEF getActiveSuspension, SuspensionsOf, Leave, Goto
<1>7. CASE p \in Caller /\ CollectBackups(p)
  BY <1>7 DEF CollectBackups, Goto
<1>8. CASE p \in Caller /\ RestoreRows(p)
  BY <1>8 DEF RestoreRows, Restored, Fault, Goto
<1>9. CASE p \in Caller /\ MarkUsed(p)
  BY <1>9 DEF MarkUsed, Advance, Leave, Goto
<1>10. CASE p \in Caller /\ MarkRecovered(p)
  BY <1>10 DEF MarkRecovered, Goto
<1>11. CASE p \in Caller /\ resumeIdentity(p)
  BY <1>11 DEF resumeIdentity, Goto
<1>12. CASE p \in Worker /\ Claim(p)
  BY <1>12 DEF Claim, ClaimRows, Candidates, Claimable, Stale, Goto
<1>13. CASE p \in Worker /\ FindExpired(p)
  BY <1>13 DEF FindExpired, Begin, Goto
<1>14. CASE p \in Worker /\ FindRecord(p)
  BY <1>14 DEF FindRecord, SuspensionsOf, Goto
<1>15. CASE p \in Worker /\ Complete(p)
  BY <1>15 DEF Complete, markRequestCompleted, GuardedUpdate, SetStatus, Leave, Goto
<1>16. CASE p \in Worker /\ Finish(p)
  BY <1>16 DEF Finish, Goto
<1>17. CASE p \in Worker /\ Fail(p)
  BY <1>17 DEF Fail, markRequestFailed, GuardedUpdate, SetStatus, Leave, Goto
<1>18. CASE p \in Worker /\ DeleteBackups(p)
  BY <1>18 DEF DeleteBackups, Nothing, Goto
<1>19. CASE p \in Worker /\ MarkExpired(p)
  BY <1>19 DEF MarkExpired, Goto
<1>20. CASE p \in Worker /\ Throw(p)
  BY <1>20 DEF Throw, Fault, Abort, Leave, Goto
<1>21. CASE Resolve(p)
  BY <1>21 DEF Resolve, TablesOf, Goto
<1>22. CASE LoadRows(p)
  BY <1>22 DEF LoadRows, Advance, AfterTables, Goto
<1>23. CASE CreateBackup(p)
  BY <1>23 DEF CreateBackup, Abort, Leave, Goto
<1>24. CASE EraseRows(p)
  BY <1>24 DEF EraseRows, Advance, AfterTables, Goto
<1>25. CASE Notify(p)
  BY <1>25 DEF Notify, Leave, Goto
<1>26. CASE Crash(p)
  BY <1>26 DEF Crash, Fault, Leave, Goto
<1>27. QED
  BY <1>1, <1>2, <1>3, <1>4, <1>5, <1>6, <1>7, <1>8, <1>9, <1>10, <1>11, <1>12, <1>13,
     <1>14, <1>15, <1>16, <1>17, <1>18, <1>19, <1>20, <1>21, <1>22, <1>23, <1>24, <1>25,
     <1>26
     DEF Moves, CallerStep, WorkerStep, ProcessStep


LEMMA OrderedFrame ==
  ASSUME SafetyInv, AtRest, NEW i \in Identity, Ordered(i), Untouched(i)
  PROVE  Ordered(i)'
<1>1. \A s \in Suspension : holder[s] = i => (Latest(s)' <=> Latest(s))
  BY DEF Latest, SuspensionsOf, Untouched
<1>2. \A p \in Process : who[p] = i =>
        /\ record[p] \in Suspension => holder[record[p]] = i
        /\ stage[p] \in Ending \cup {"finishing"} => record[p] \in Suspension
        /\ stage[p] \in (Calling \cup Anonymizing) \ Outside => record[p] \in Suspension
  BY DEF SafetyInv, AtRest, Process, Knows, Ending, Finalizing, Calling, Anonymizing, Outside
<1>3. NoneOpen(i)' <=> NoneOpen(i)
  BY DEF NoneOpen, RequestsOf, Untouched
<1>4. AllOver(i)' <=> AllOver(i)
  BY DEF AllOver, Over, SuspensionsOf, Untouched
<1>5. ASSUME NEW c \in Caller, who'[c] = i, stage'[c] \in Calling \cup Anonymizing
      PROVE  Alone(c, i)'
  BY <1>2, <1>3, <1>4, <1>5 DEF Ordered, Alone, Untouched, Process
<1>6. ASSUME NEW p \in Process, who'[p] = i
      PROVE  InOrder(p, i)'
  <2>1. who[p] = i /\ InOrder(p, i)
    BY <1>6 DEF Ordered, Untouched
  <2>2. \A q \in Process : who'[q] = i /\ stage'[q] = "finishing" =>
          who[q] = i /\ stage[q] = "finishing"
    BY DEF Untouched
  <2>3. QED
    BY <1>1, <1>2, <1>3, <1>4, <2>1, <2>2 DEF InOrder, Untouched, Left
<1>7. \A s \in SuspensionsOf(i)' : Active(s)' => isSuspended'[i] /\ Latest(s)'
  BY <1>1 DEF Ordered, Active, SuspensionsOf, Untouched
<1>8. \A r \in RequestsOf(i)' : Open(r)' =>
        /\ \E s \in SuspensionsOf(i)' : state'[s] = "SUSPENDING"
        /\ \A q \in RequestsOf(i)' : Open(q)' => q = r
  BY DEF Ordered, SuspensionsOf, RequestsOf, Untouched
<1>9. QED
  BY <1>5, <1>6, <1>7, <1>8 DEF Ordered


(* While a suspension is in force nobody asks for another.                 *)
LEMMA NobodyAsks ==
  ASSUME SafetyInv, AtRest, NEW i \in Identity, Ordered(i),
         NEW s \in SuspensionsOf(i), state[s] = "SUSPENDED"
  PROVE  \A c \in Caller : who[c] = i => stage[c] \notin Calling \cup Anonymizing
<1>1. SUFFICES ASSUME NEW c \in Caller, who[c] = i, stage[c] \in Calling \cup Anonymizing
               PROVE  FALSE
  OBVIOUS
<1>2. Alone(c, i) /\ Knows(c) /\ InOrder(c, i) /\ Latest(s) /\ s \in Suspension /\ holder[s] = i
  BY <1>1 DEF Ordered, SafetyInv, Active, SuspensionsOf, Process
<1>3. stage[c] \notin Outside
  BY <1>2 DEF Alone, AllOver, Over
<1>4. record[c] \in Suspension /\ state[record[c]] = "SUSPENDING" /\ holder[record[c]] = i
  BY <1>1, <1>2, <1>3 DEF Alone, Knows, Calling, Outside, AtRest
<1>5. record[c] = s
  BY <1>1, <1>2, <1>4, SuspensionAssumption DEF InOrder, Latest, SuspensionsOf
<1>6. QED
  BY <1>4, <1>5

LEMMA OrderedMove ==
  ASSUME SafetyInv, AtRest, NEW p \in Process, Moves(p),
         NEW i \in Identity, i \notin overlapped', Ordered(i), Deals(p, i)
  PROVE  Ordered(i)'
<1>taken. ASSUME CreateRecord(p), who[p] = i
          PROVE  \E s \in Suspension :
                   /\ state[s] = "NONE" /\ state' = [state EXCEPT ![s] = "SUSPENDING"]
                   /\ holder' = [holder EXCEPT ![s] = i] /\ record' = [record EXCEPT ![p] = s]
  BY <1>taken DEF CreateRecord
<1>asked. ASSUME CreateRequest(p), who[p] = i
          PROVE  \E r \in Request :
                   /\ status[r] = "NONE" /\ status' = [status EXCEPT ![r] = "PENDING"]
                   /\ owner' = [owner EXCEPT ![r] = i]
  BY <1>asked DEF CreateRequest, createRequest, SetStatus
<1>found. ASSUME FindExpired(p)
          PROVE  \E s \in Suspension :
                   /\ s \in closed /\ state[s] = "SUSPENDED" /\ holder[s] = i /\ stage[p] = "idle"
                   /\ stage' = [stage EXCEPT ![p] = "purging"]
                   /\ who' = [who EXCEPT ![p] = i] /\ record' = [record EXCEPT ![p] = s]
  <2>1. PICK s \in closed : state[s] = "SUSPENDED" /\ Begin(p, "purging", holder[s], s)
    BY <1>found DEF FindExpired
  <2>2. /\ s \in Suspension /\ who \in [Process -> Identity \cup {NoIdentity}]
        /\ who[p] # i
    BY <2>1, TypeParts, NoIdentityAssumption
       DEF SafetyInv, RecordTypes, ProcessTypes, AtRest, Begin
  <2>3. holder[s] = i
    BY <2>1, <2>2 DEF Begin, Deals
  <2>4. QED
    BY <2>1, <2>2, <2>3 DEF Begin, Goto
<1>chosen. ASSUME getActiveSuspension(p), who[p] = i
           PROVE  \/ /\ stage' = [stage EXCEPT ![p] = "idle"]
                     /\ who' = [who EXCEPT ![p] = NoIdentity]
                     /\ record' = [record EXCEPT ![p] = NoSuspension]
                  \/ /\ \E s \in Suspension :
                          /\ holder[s] = i /\ state[s] = "SUSPENDED"
                          /\ record' = [record EXCEPT ![p] = s]
                     /\ stage' = [stage EXCEPT ![p] = "collecting"] /\ UNCHANGED who
  BY <1>chosen DEF getActiveSuspension, SuspensionsOf, Leave, Goto
<1>one. \A q, s \in Suspension :
          holder[q] = i /\ holder[s] = i /\ Latest(q) /\ Latest(s) => q = s
  BY SuspensionAssumption DEF Latest, SuspensionsOf
<1>asks. \A s \in Suspension : holder[s] = i /\ state[s] = "SUSPENDED" =>
           \A c \in Caller : who[c] = i => stage[c] \notin Calling \cup Anonymizing
  BY NobodyAsks DEF SuspensionsOf
<1>0. /\ RequestTypes /\ AccountTypes /\ RecordTypes /\ ProcessTypes
      /\ RecordsOK /\ RowsOK /\ \A q \in Process : Knows(q)
  BY TypeParts DEF SafetyInv
<1> USE <1>0, NoSuspensionAssumption, NoIdentityAssumption, ActorAssumption
<1> USE DEF tableVars, accountVars, recordVars, backupVars, procVars, AtRest, RecordTypes,
            ProcessTypes, RequestTypes, AccountTypes, TableTypeOK, RecordsOK, RowsOK, Knows,
            Process, Calling, Anonymizing, Recovering, Deferring, Finalizing,
            Deals, Open, Ordered, InOrder, Alone, Active, Left, Over, AllOver, NoneOpen,
            Latest, Outside, Ending, SuspensionsOf, RequestsOf
<1>1. ASSUME NEW j \in Identity, p \in Caller, requestSuspension(p, j)
      PROVE  Ordered(i)'
  <2>1. /\ i = j /\ stage[p] = "idle" /\ ~ isSuspended[i] /\ i \notin cooling
        /\ NoneOpen(i) /\ \A s \in SuspensionsOf(i) : ~ Active(s)
    BY <1>1 DEF requestSuspension, Begin, hasPendingRequest, hasActiveSuspension
  <2>2. /\ stage' = [stage EXCEPT ![p] = "suspending"] /\ who' = [who EXCEPT ![p] = i]
        /\ record' = [record EXCEPT ![p] = NoSuspension]
        /\ UNCHANGED <<tableVars, owner, accountVars, state, holder>>
    BY <1>1, <2>1 DEF requestSuspension, Begin, Goto
  <2>3. \A q \in Process : who[q] # i
    <3>1. ASSUME NEW q \in Process, who[q] = i
          PROVE  stage[q] = "suspending"
      BY <2>1, <3>1
    <3>2. \A d \in Caller : who[d] # i
      BY <1>1, <2>1 DEF requestSuspension
    <3>3. QED
      BY <3>1, <3>2
  <2>4. \A q \in Process : who'[q] = i => q = p
    BY <2>2, <2>3
  <2>5. AllOver(i)
    BY <2>1, NoIdentityAssumption DEF State
  <2>6. Alone(p, i)'
    BY <2>1, <2>2, <2>4, <2>5
  <2>7. InOrder(p, i)'
    BY <2>2
  <2>8. QED
    BY <2>1, <2>2, <2>4, <2>6, <2>7
<1>2. ASSUME NEW j \in Identity, p \in Caller, recoverAccount(p, j)
      PROVE  Ordered(i)'
  <2>1. i = j /\ stage[p] = "idle" /\ isSuspended[i]
    BY <1>2 DEF recoverAccount, Begin
  <2>2. /\ stage' = [stage EXCEPT ![p] = "validated"] /\ who' = [who EXCEPT ![p] = i]
        /\ record' = [record EXCEPT ![p] = NoSuspension]
        /\ UNCHANGED <<tableVars, owner, accountVars, state, holder>>
    BY <1>2, <2>1 DEF recoverAccount, Begin, Goto
  <2>3. PICK s \in SuspensionsOf(i) : state[s] = "SUSPENDED"
    BY <1>2, <2>1 DEF recoverAccount, Recoverable
  <2>4. \A c \in Caller : who[c] = i => stage[c] \notin Calling \cup Anonymizing
    BY <2>3, <1>asks
  <2>5. \A q \in Process : who'[q] = i => q = p \/ who[q] = i
    BY <2>2
  <2>6. QED
    BY <2>1, <2>2, <2>4, <2>5
<1>3. CASE p \in Caller /\ suspendIdentity(p)
  BY <1>3 DEF suspendIdentity, Goto
<1>4. CASE p \in Caller /\ CreateRecord(p)
  <2>1. /\ who[p] = i /\ stage[p] = "recording" /\ Alone(p, i) /\ InOrder(p, i)
        /\ stage' = [stage EXCEPT ![p] = "resolving"]
        /\ UNCHANGED <<tableVars, owner, accountVars, who>>
    BY <1>4 DEF CreateRecord, Goto
  <2>2. PICK s \in Suspension :
          /\ state[s] = "NONE" /\ state' = [state EXCEPT ![s] = "SUSPENDING"]
          /\ holder' = [holder EXCEPT ![s] = i] /\ record' = [record EXCEPT ![p] = s]
    BY <1>taken, <1>4, <2>1
  <2>3. /\ holder[s] = NoIdentity
        /\ \A q \in Suspension : holder'[q] = i => q = s \/ (holder[q] = i /\ q < s /\ Over(q))
    BY <2>1, <2>2
  <2>4. Latest(s)' /\ state'[s] = "SUSPENDING"
    BY <2>2, <2>3, SuspensionAssumption
  <2>5. \A q \in Process : who'[q] = i => q = p
    BY <2>1
  <2>7. Alone(p, i)' /\ InOrder(p, i)'
    BY <2>1, <2>2, <2>4, <2>5
  <2>8. \A q \in SuspensionsOf(i)' : Active(q)' => isSuspended'[i] /\ Latest(q)'
    <3>1. SUFFICES ASSUME NEW q \in Suspension, holder'[q] = i, Active(q)'
                   PROVE  isSuspended'[i] /\ Latest(q)'
      OBVIOUS
    <3>2. q = s
      <4>1. q # s => Over(q) /\ state'[q] = state[q]
        BY <2>2, <2>3, <3>1
      <4>2. QED
        BY <3>1, <4>1
    <3>3. isSuspended'[i]
      BY <2>1
    <3>4. QED
      BY <2>4, <3>2, <3>3
  <2>9. \A r \in RequestsOf(i)' : ~ Open(r)'
    BY <2>1
  <2>10. QED
    BY <2>5, <2>7, <2>8, <2>9
<1>5. CASE p \in Caller /\ CreateRequest(p)
  <2>1. /\ who[p] = i /\ stage[p] = "requesting" /\ Alone(p, i) /\ InOrder(p, i)
        /\ record[p] \in Suspension /\ state[record[p]] = "SUSPENDING" /\ holder[record[p]] = i
        /\ UNCHANGED <<accountVars, recordVars>>
    BY <1>5 DEF CreateRequest
  <2>2. PICK r \in Request :
          /\ status[r] = "NONE" /\ status' = [status EXCEPT ![r] = "PENDING"]
          /\ owner' = [owner EXCEPT ![r] = i]
    BY <1>asked, <1>5, <2>1
  <2>3. \A q \in Request : owner'[q] = i /\ Open(q)' => q = r
    BY <2>1, <2>2
  <2>4. \A q \in Process : who'[q] # i
    BY <1>5, <2>1 DEF CreateRequest, Leave, Goto
  <2>5. \A s \in SuspensionsOf(i) : Active(s) => isSuspended[i] /\ Latest(s)
    OBVIOUS
  <2>6. \E s \in SuspensionsOf(i)' : state'[s] = "SUSPENDING"
    BY <2>1
  <2>7. \A s \in SuspensionsOf(i)' : Active(s)' => isSuspended'[i] /\ Latest(s)'
    BY <2>1, <2>5
  <2>8. \A q \in RequestsOf(i)' : Open(q)' => \A k \in RequestsOf(i)' : Open(k)' => k = q
    BY <2>3
  <2>9. /\ \A d \in Caller : who'[d] = i /\ stage'[d] \in Calling \cup Anonymizing => Alone(d, i)'
        /\ \A q \in Process : who'[q] = i => InOrder(q, i)'
    BY <2>4
  <2>10. QED
    BY <2>6, <2>7, <2>8, <2>9
<1>6. CASE p \in Caller /\ getActiveSuspension(p)
  <2>1. /\ who[p] = i /\ stage[p] = "validated" /\ InOrder(p, i)
        /\ UNCHANGED <<tableVars, owner, accountVars, recordVars>>
    BY <1>6 DEF getActiveSuspension
  <2>2. \/ /\ stage' = [stage EXCEPT ![p] = "idle"] /\ who' = [who EXCEPT ![p] = NoIdentity]
           /\ record' = [record EXCEPT ![p] = NoSuspension]
        \/ /\ \E s \in Suspension :
                /\ holder[s] = i /\ state[s] = "SUSPENDED"
                /\ record' = [record EXCEPT ![p] = s]
           /\ stage' = [stage EXCEPT ![p] = "collecting"] /\ UNCHANGED who
    BY <1>chosen, <1>6, <2>1
  <2>3. CASE /\ stage' = [stage EXCEPT ![p] = "idle"] /\ who' = [who EXCEPT ![p] = NoIdentity]
             /\ record' = [record EXCEPT ![p] = NoSuspension]
    BY <2>1, <2>3
  <2>4. CASE /\ \E s \in Suspension :
                  /\ holder[s] = i /\ state[s] = "SUSPENDED"
                  /\ record' = [record EXCEPT ![p] = s]
             /\ stage' = [stage EXCEPT ![p] = "collecting"] /\ UNCHANGED who
    <3>1. PICK s \in Suspension : /\ holder[s] = i /\ state[s] = "SUSPENDED"
                                  /\ record' = [record EXCEPT ![p] = s]
      BY <2>4
    <3>2. Latest(s)
      BY <3>1
    <3>3. InOrder(p, i)'
      BY <2>1, <2>4, <3>1, <3>2
    <3>4. QED
      BY <2>1, <2>4, <3>3
  <2>5. QED
    BY <2>2, <2>3, <2>4
<1>7. CASE p \in Caller /\ CollectBackups(p)
  BY <1>7 DEF CollectBackups, Goto
<1>8. CASE p \in Caller /\ RestoreRows(p)
  BY <1>8 DEF RestoreRows, Restored, Fault, Goto
<1>9. CASE p \in Caller /\ MarkUsed(p)
  <2>1. /\ who[p] = i /\ stage[p] = "marking" /\ record[p] \in Suspension
        /\ UNCHANGED <<tableVars, owner, accountVars, recordVars>>
    BY <1>9 DEF MarkUsed
  <2>2. \/ /\ stage' = [stage EXCEPT ![p] = "idle"] /\ who' = [who EXCEPT ![p] = NoIdentity]
           /\ record' = [record EXCEPT ![p] = NoSuspension]
        \/ /\ \E g \in {"restoring", "recovering"} : stage' = [stage EXCEPT ![p] = g]
           /\ UNCHANGED <<who, record>>
    BY <1>9 DEF MarkUsed, Advance, Leave, Goto
  <2>3. CASE who' = [who EXCEPT ![p] = NoIdentity] /\ stage' = [stage EXCEPT ![p] = "idle"]
               /\ record' = [record EXCEPT ![p] = NoSuspension]
    BY <2>1, <2>3
  <2>4. CASE /\ \E g \in {"restoring", "recovering"} : stage' = [stage EXCEPT ![p] = g]
             /\ UNCHANGED <<who, record>>
    BY <2>1, <2>4
  <2>5. QED
    BY <2>2, <2>3, <2>4
<1>10. CASE p \in Caller /\ MarkRecovered(p)
  <2>1. /\ who[p] = i /\ stage[p] = "recovering" /\ record[p] \in Suspension
        /\ Left(record[p]) /\ Latest(record[p]) /\ holder[record[p]] = i /\ InOrder(p, i)
        /\ state' = [state EXCEPT ![record[p]] = "RECOVERED"]
        /\ cooling' = cooling \cup {i} /\ stage' = [stage EXCEPT ![p] = "resuming"]
        /\ UNCHANGED <<tableVars, owner, isSuspended, holder, who, record>>
    BY <1>10 DEF MarkRecovered, Goto
  <2>2. \A s \in SuspensionsOf(i) : s # record[p] => Over(s)
    <3>1. SUFFICES ASSUME NEW s \in SuspensionsOf(i), s # record[p]
                   PROVE  Over(s)
      OBVIOUS
    <3>3. ~ Latest(s)
      BY <2>1, <3>1, <1>one
    <3>4. ~ Active(s)
      BY <2>1, <3>3
    <3>5. state[s] \in State /\ state[s] # "NONE"
      OBVIOUS
    <3>6. QED
      BY <3>4, <3>5 DEF State
  <2>3. AllOver(i)' /\ NoneOpen(i)'
    <3>1. NoneOpen(i)
      BY <2>1, <2>2
    <3>2. QED
      BY <2>1, <2>2, <3>1
  <2>4. \A q \in Process : who[q] = i => stage[q] # "finishing"
    <3>1. SUFFICES ASSUME NEW q \in Process, who[q] = i, stage[q] = "finishing"
                   PROVE  FALSE
      OBVIOUS
    <3>2. record[q] \in Suspension /\ state[record[q]] = "SUSPENDING" /\ holder[record[q]] = i
      BY <3>1
    <3>3. QED
      BY <2>1, <2>2, <3>2
  <2>5. \A c \in Caller : who[c] = i => stage[c] \notin Calling \cup Anonymizing
    BY <2>1
  <2>6. \A s \in SuspensionsOf(i) : state'[s] = state[s] \/ Over(s)'
    BY <2>1
  <2>7. ASSUME NEW q \in Process, who'[q] = i
        PROVE  InOrder(q, i)'
    <3>1. who[q] = i /\ InOrder(q, i) /\ (record[q] \in Suspension => holder[record[q]] = i)
      BY <2>1, <2>7
    <3>2. record'[q] \in Suspension => Latest(record[q])'
      BY <2>1, <3>1
    <3>3. stage'[q] \in Ending => Left(record[q])'
      BY <2>1, <2>6, <3>1
    <3>4. stage'[q] # "finishing" /\ i \in cooling'
      BY <2>1, <2>4, <2>7
    <3>5. QED
      BY <2>1, <2>3, <3>2, <3>3, <3>4
  <2>8. QED
    BY <2>1, <2>3, <2>5, <2>7
<1>11. CASE p \in Caller /\ resumeIdentity(p)
  <2>1. /\ who[p] = i /\ stage[p] = "resuming" /\ InOrder(p, i)
        /\ isSuspended' = [isSuspended EXCEPT ![i] = FALSE]
        /\ stage' = [stage EXCEPT ![p] = "notifying"]
        /\ UNCHANGED <<tableVars, owner, cooling, recordVars, who, record>>
    BY <1>11 DEF resumeIdentity, Goto
  <2>2. i \in cooling /\ AllOver(i) /\ NoneOpen(i)
    BY <2>1
  <2>3. \A c \in Caller : who[c] = i => stage[c] \notin Calling \cup Anonymizing
    BY <2>1
  <2>4. QED
    BY <2>1, <2>2, <2>3
<1>12. CASE p \in Worker /\ Claim(p)
  BY <1>12 DEF Claim, ClaimRows, Candidates, Claimable, Stale, Goto
<1>13. CASE p \in Worker /\ FindExpired(p)
  <2>1. PICK s \in Suspension :
          /\ s \in closed /\ state[s] = "SUSPENDED" /\ holder[s] = i /\ stage[p] = "idle"
          /\ stage' = [stage EXCEPT ![p] = "purging"]
          /\ who' = [who EXCEPT ![p] = i] /\ record' = [record EXCEPT ![p] = s]
    BY <1>found, <1>13
  <2>2. s \in SuspensionsOf(i) /\ Latest(s) /\ isSuspended[i]
    BY <2>1
  <2>3. UNCHANGED <<tableVars, owner, accountVars, recordVars>>
    BY <1>13 DEF FindExpired
  <2>4. \A c \in Caller : who[c] = i => stage[c] \notin Calling \cup Anonymizing
    BY <2>1, <2>2, <1>asks
  <2>5. \A q \in Process : who'[q] = i => q = p \/ who[q] = i
    BY <2>1
  <2>6. InOrder(p, i)'
    BY <2>1, <2>2, <2>3
  <2>7. QED
    BY <2>1, <2>3, <2>4, <2>5, <2>6
<1>14. CASE p \in Worker /\ FindRecord(p)
  BY <1>14 DEF FindRecord, SuspensionsOf, Goto
<1>15. CASE p \in Worker /\ Complete(p)
  <2>1. /\ who[p] = i /\ stage[p] = "completing" /\ InOrder(p, i) /\ record[p] \in Suspension
        /\ owner[task[p]] = i /\ task[p] \in Request
        /\ UNCHANGED <<owner, accountVars, recordVars>>
    BY <1>15 DEF Complete
  <2>2. CASE status[task[p]] # "PROCESSING"
    <3>1. /\ stage' = [stage EXCEPT ![p] = "idle"] /\ who' = [who EXCEPT ![p] = NoIdentity]
          /\ record' = [record EXCEPT ![p] = NoSuspension] /\ status' = status
      BY <1>15, <2>2 DEF Complete, markRequestCompleted, GuardedUpdate, Leave, Goto
    <3>2. QED
      BY <2>1, <3>1
  <2>3. CASE status[task[p]] = "PROCESSING"
    <3>1. /\ stage' = [stage EXCEPT ![p] = "finishing"]
          /\ status' = [status EXCEPT ![task[p]] = "COMPLETED"]
          /\ UNCHANGED <<who, record>>
      BY <1>15, <2>3 DEF Complete, markRequestCompleted, GuardedUpdate, SetStatus, Goto
    <3>2. task[p] \in RequestsOf(i) /\ Open(task[p])
      BY <2>1, <2>3
    <3>3. NoneOpen(i)'
      BY <2>1, <3>1, <3>2
    <3>4. \A q \in Process : who[q] = i => stage[q] # "finishing"
      BY <3>2
    <3>5. state[record[p]] = "SUSPENDING"
      <4>1. PICK s \in SuspensionsOf(i) : state[s] = "SUSPENDING"
        BY <3>2
      <4>2. Latest(s) /\ Latest(record[p]) /\ holder[record[p]] = i
        BY <2>1, <4>1
      <4>3. s = record[p]
        BY <2>1, <4>2, <1>one
      <4>4. QED
        BY <4>1, <4>3
    <3>6. \A c \in Caller : who[c] = i => stage[c] \notin Calling \cup Anonymizing
      BY <3>2
    <3>7. InOrder(p, i)'
      BY <2>1, <3>1, <3>3, <3>4, <3>5
    <3>8. \A q \in Process : who[q] = i /\ q # p => InOrder(q, i)'
      BY <2>1, <3>1, <3>3, <3>4
    <3>9. QED
      BY <2>1, <3>1, <3>3, <3>6, <3>7, <3>8
  <2>4. QED
    BY <2>2, <2>3
<1>16. CASE p \in Worker /\ Finish(p)
  BY <1>16 DEF Finish, Goto
<1>17. CASE p \in Worker /\ Fail(p)
  BY <1>17 DEF Fail, markRequestFailed, GuardedUpdate, SetStatus, Leave, Goto
<1>18. CASE p \in Worker /\ DeleteBackups(p)
  BY <1>18 DEF DeleteBackups, Nothing, Goto
<1>19. CASE p \in Worker /\ MarkExpired(p)
  <2>1. /\ who[p] = i /\ stage[p] = "expiring" /\ record[p] \in Suspension
        /\ Left(record[p]) /\ Latest(record[p]) /\ holder[record[p]] = i /\ InOrder(p, i)
        /\ state' = [state EXCEPT ![record[p]] = "EXPIRED"]
        /\ stage' = [stage EXCEPT ![p] = "notifying"]
        /\ UNCHANGED <<tableVars, owner, accountVars, holder, who, record>>
    BY <1>19 DEF MarkExpired, Goto
  <2>2. \A s \in SuspensionsOf(i) : /\ state'[s] = state[s] \/ (Left(s) /\ Over(s)')
                                    /\ Latest(s)' <=> Latest(s)
    BY <2>1
  <2>3. ASSUME NEW q \in Process, who'[q] = i
        PROVE  InOrder(q, i)'
    <3>1. who[q] = i /\ InOrder(q, i) /\ (record[q] \in Suspension => record[q] \in SuspensionsOf(i))
      BY <2>1, <2>3
    <3>2. stage'[q] \in Ending => Left(record[q])'
      BY <2>1, <2>2, <3>1
    <3>3. stage'[q] = "resuming" => AllOver(i)' /\ NoneOpen(i)'
      BY <2>1, <2>2, <3>1
    <3>4. stage'[q] = "finishing" => state'[record[q]] = "SUSPENDING"
      BY <2>1, <2>2, <3>1
    <3>5. QED
      BY <2>1, <2>2, <3>1, <3>2, <3>3, <3>4
  <2>4. \A c \in Caller : who'[c] = i /\ stage'[c] \in Calling \cup Anonymizing => Alone(c, i)'
    BY <2>1, <2>2
  <2>5. \A r \in RequestsOf(i) : Open(r) => \E s \in SuspensionsOf(i) : state'[s] = "SUSPENDING"
    BY <2>1, <2>2
  <2>6. QED
    BY <2>1, <2>2, <2>3, <2>4, <2>5
<1>20. CASE p \in Worker /\ Throw(p)
  BY <1>20 DEF Throw, Fault, Abort, Leave, Goto
<1>21. CASE Resolve(p)
  BY <1>21 DEF Resolve, TablesOf, Goto
<1>22. CASE LoadRows(p)
  BY <1>22 DEF LoadRows, Advance, AfterTables, Goto
<1>23. CASE CreateBackup(p)
  BY <1>23 DEF CreateBackup, Abort, Leave, Goto
<1>24. CASE EraseRows(p)
  BY <1>24 DEF EraseRows, Advance, AfterTables, Goto
<1>25. CASE Notify(p)
  BY <1>25 DEF Notify, Leave, Goto
<1>26. CASE Crash(p)
  BY <1>26 DEF Crash, Fault, Leave, Goto
<1>27. QED
  BY <1>1, <1>2, <1>3, <1>4, <1>5, <1>6, <1>7, <1>8, <1>9, <1>10, <1>11, <1>12, <1>13,
     <1>14, <1>15, <1>16, <1>17, <1>18, <1>19, <1>20, <1>21, <1>22, <1>23, <1>24, <1>25,
     <1>26
     DEF Moves, CallerStep, WorkerStep, ProcessStep


LEMMA NextMoves ==
  ASSUME [Next]_vars
  PROVE  \/ \E p \in Process : Moves(p)
         \/ \E s \in Suspension : WindowCloses(s)
         \/ \E i \in Identity : CooldownPasses(i)
         \/ Tick \/ UNCHANGED vars
BY DEF Next, Moves, Process

LEMMA OverlappedGrows == [Next]_vars => overlapped \subseteq overlapped'
<1> SUFFICES ASSUME [Next]_vars
             PROVE  overlapped \subseteq overlapped'
  OBVIOUS
<1>1. CASE \E c \in Caller, i \in Identity : requestSuspension(c, i)
  BY <1>1 DEF requestSuspension
<1>2. CASE ~ \E c \in Caller, i \in Identity : requestSuspension(c, i)
  BY <1>2
     DEF Next, vars, recordVars, CallerStep, WorkerStep, ProcessStep, recoverAccount,
         suspendIdentity, CreateRecord, CreateRequest, getActiveSuspension, CollectBackups,
         RestoreRows, MarkUsed, MarkRecovered, resumeIdentity, Claim, FindExpired, FindRecord,
         Complete, Finish, Fail, DeleteBackups, MarkExpired, Throw, Resolve, LoadRows,
         CreateBackup, EraseRows, Notify, Crash, WindowCloses, CooldownPasses, Tick
<1>3. QED
  BY <1>1, <1>2

LEMMA OrderStep ==
  ASSUME SafetyInv, AtRest, OrderInv, [Next]_vars
  PROVE  OrderInv'
<1> SUFFICES ASSUME NEW i \in Identity, i \notin overlapped'
             PROVE  Ordered(i)'
  BY DEF OrderInv
<1>1. i \notin overlapped /\ Ordered(i)
  BY OverlappedGrows DEF OrderInv
<1>2. ASSUME NEW p \in Process, Moves(p)
      PROVE  Ordered(i)'
  <2>1. CASE Deals(p, i)
    BY <1>1, <1>2, <2>1, OrderedMove
  <2>2. CASE ~ Deals(p, i)
    BY <1>1, <1>2, <2>2, Elsewhere, OrderedFrame
  <2>3. QED
    BY <2>1, <2>2
<1>3. ASSUME NEW s \in Suspension, WindowCloses(s)
      PROVE  Ordered(i)'
  <2>1. UNCHANGED <<tableVars, owner, accountVars, state, holder, procVars>>
    BY <1>3 DEF WindowCloses
  <2>2. QED
    BY <1>1, <2>1
       DEF tableVars, accountVars, procVars, Ordered, Alone, InOrder, Active, Left, Over, Open,
           AllOver, NoneOpen, Latest, SuspensionsOf, RequestsOf
<1>4. ASSUME NEW j \in Identity, CooldownPasses(j)
      PROVE  Ordered(i)'
  <2>1. /\ UNCHANGED <<tableVars, owner, isSuspended, content, state, holder, procVars>>
        /\ cooling' = cooling \ {j} /\ \A p \in Process : who[p] # j
    BY <1>4 DEF CooldownPasses, recordVars
  <2>2. \A p \in Process : who'[p] = i => InOrder(p, i)'
    BY <1>1, <2>1
       DEF tableVars, procVars, Ordered, InOrder, Left, Over, Open, AllOver, NoneOpen, Latest,
           SuspensionsOf, RequestsOf
  <2>3. QED
    BY <1>1, <2>1, <2>2
       DEF tableVars, procVars, Ordered, Alone, Active, Over, Open, AllOver, NoneOpen, Latest,
           SuspensionsOf, RequestsOf
<1>5. CASE Tick
  <2>1. UNCHANGED <<status, owner, accountVars, recordVars, procVars>>
    BY <1>5 DEF Tick, AgeRows
  <2>2. QED
    BY <1>1, <2>1
       DEF accountVars, recordVars, procVars, Ordered, Alone, InOrder, Active, Left, Over, Open,
           AllOver, NoneOpen, Latest, SuspensionsOf, RequestsOf
<1>6. CASE UNCHANGED vars
  BY <1>1, <1>6
     DEF vars, tableVars, accountVars, recordVars, procVars, Ordered, Alone, InOrder, Active,
         Left, Over, Open, AllOver, NoneOpen, Latest, SuspensionsOf, RequestsOf
<1>7. QED
  BY <1>2, <1>3, <1>4, <1>5, <1>6, NextMoves

OrderedInv == SafetyInv /\ ExpiryInv /\ AtRest /\ OrderInv

LEMMA OrderedInvInit == Init => OrderedInv
<1> SUFFICES ASSUME Init
             PROVE  OrderedInv
  OBVIOUS
<1>1. SafetyInv
  BY SafetyInvInit
<1>2. ExpiryInv
  BY NoSuspensionAssumption DEF Init, ExpiryInv, ExpiredLeavesNoBackup
<1>3. AtRest
  BY DEF Init, AtRest, TableInit, Process, Outside, Calling, Deferring, Anonymizing
<1>4. \A i \in Identity, p \in Process : who[p] # i
  BY NoIdentityAssumption DEF Init
<1>5. \A i \in Identity : SuspensionsOf(i) = {} /\ RequestsOf(i) = {}
  BY NoIdentityAssumption DEF Init, SuspensionsOf, RequestsOf
<1>6. OrderInv
  BY <1>4, <1>5 DEF OrderInv, Ordered, Process
<1>7. QED
  BY <1>1, <1>2, <1>3, <1>6 DEF OrderedInv

LEMMA OrderedInvStep == OrderedInv /\ [Next]_vars => OrderedInv'
BY SafetyInvStep, ExpiryStep, AtRestStep, OrderStep DEF OrderedInv


LEMMA LatestIsUnique ==
  ASSUME NEW q \in Suspension, NEW s \in Suspension, holder[q] = holder[s],
         Latest(q), Latest(s)
  PROVE  q = s
BY SuspensionAssumption DEF Latest, SuspensionsOf

LEMMA ErasedHides ==
  ASSUME NEW rows \in [Table -> SUBSET Row], NEW t \in Table
  PROVE  /\ "original" \notin Erased(rows, t)[t]
         /\ \A q \in Table : "original" \in Erased(rows, t)[q] => "original" \in rows[q]
<1>1. "original" \notin Erased(rows, t)[t]
  BY DEF Erased
<1>2. \A q \in Table : \/ Erased(rows, t)[q] = rows[q] \/ Erased(rows, t)[q] = {}
                       \/ Erased(rows, t)[q] = {"placeholder"}
  BY DEF Erased, Table
<1>3. QED
  BY <1>1, <1>2

(* What a step may do to the rows, as seen from one suspension of i.       *)
LEMMA ConcealedFrame ==
  ASSUME SafetyInv, NEW i \in Identity, Untouched(i), NEW s \in Suspension, holder[s] = i,
         Concealed(s, i)
  PROVE  Concealed(s, i)'
<1>1. \A q \in Suspension : holder[q] = i => (Latest(q)' <=> Latest(q))
  BY DEF Latest, SuspensionsOf, Untouched
<1>2. \A p \in Process : who[p] = i => Cleared(p)' = Cleared(p)
  BY DEF Cleared, Untouched
<1>3. NoneOpen(i)' <=> NoneOpen(i)
  BY DEF NoneOpen, RequestsOf, Untouched
<1>4. \A t \in Table : Hidden(i, t)' <=> Hidden(i, t)
  BY DEF Hidden, Untouched
<1>5. Blank(i) => Blank(i)'
  BY <1>1, <1>4 DEF Blank, SuspensionsOf, Untouched
<1>6. \A p \in Process : who'[p] = i => who[p] = i /\ Cleared(p)' = Cleared(p)
  BY <1>2 DEF Untouched
<1>7. state'[s] = state[s] /\ (Left(s)' <=> Left(s))
  BY DEF Untouched, Left
<1>8. QED
  BY <1>1, <1>3, <1>4, <1>5, <1>6, <1>7 DEF Concealed, Immediate, Table, Cleared

LEMMA ConcealedMove ==
  ASSUME OrderedInv, OrderedInv', NEW p \in Process, Moves(p),
         NEW i \in Identity, i \notin overlapped, Deals(p, i),
         NEW s \in Suspension, holder[s] = i, s \notin reopened', Concealed(s, i)
  PROVE  Concealed(s, i)'
<1>0. /\ RequestTypes /\ AccountTypes /\ RecordTypes /\ ProcessTypes
      /\ \A q \in Process : Knows(q)
      /\ SafetyInv /\ AtRest /\ Ordered(i)
  BY TypeParts DEF OrderedInv, SafetyInv, OrderInv
<1>taken. ASSUME CreateRecord(p), who[p] = i
          PROVE  \E q \in Suspension :
                   /\ state[q] = "NONE" /\ state' = [state EXCEPT ![q] = "SUSPENDING"]
                   /\ holder' = [holder EXCEPT ![q] = i]
  BY <1>taken DEF CreateRecord
<1>none. \A n \in Suspension : state[n] = "NONE" =>
           /\ backup[n] = Nothing /\ holder[n] = NoIdentity
           /\ \A q \in Suspension : holder[q] = i => q # n /\ q < n
  BY NoIdentityAssumption DEF OrderedInv, SafetyInv, RecordsOK, AtRest
<1> USE <1>0, NoSuspensionAssumption, NoIdentityAssumption, ActorAssumption
<1> USE DEF tableVars, accountVars, recordVars, backupVars, procVars, AtRest, RecordTypes,
            ProcessTypes, RequestTypes, AccountTypes, TableTypeOK, Knows,
            Process, Calling, Anonymizing, Recovering, Deferring, Finalizing, OnTables,
            Deals, Open, NoneOpen, Left, Latest, Outside, SuspensionsOf, RequestsOf,
            Concealed, Cleared, Hidden, Blank, Nothing
<1>1. ASSUME NEW j \in Identity, p \in Caller, requestSuspension(p, j)
      PROVE  Concealed(s, i)'
  BY <1>1 DEF requestSuspension, Begin, Goto
<1>2. ASSUME NEW j \in Identity, p \in Caller, recoverAccount(p, j)
      PROVE  Concealed(s, i)'
  BY <1>2 DEF recoverAccount, Begin, Goto
<1>3. CASE p \in Caller /\ suspendIdentity(p)
  BY <1>3 DEF suspendIdentity, Goto
<1>4. CASE p \in Caller /\ CreateRecord(p)
  <2>1. /\ who[p] = i /\ stage[p] = "recording" /\ Alone(p, i)
        /\ stage' = [stage EXCEPT ![p] = "resolving"]
        /\ UNCHANGED <<tableVars, owner, accountVars, backupVars, who, memory>>
    BY <1>4 DEF CreateRecord, Goto, Ordered
  <2>2. PICK n \in Suspension :
          /\ state[n] = "NONE" /\ state' = [state EXCEPT ![n] = "SUSPENDING"]
          /\ holder' = [holder EXCEPT ![n] = i]
    BY <1>taken, <1>4, <2>1
  <2>3. backup[n] = Nothing /\ s # n /\ s < n
    BY <2>2, <1>none
  <2>4. ~ Latest(s)' /\ state'[s] = state[s]
    BY <2>2, <2>3, SuspensionAssumption
  <2>5. state[s] = "EXPIRED" => \A t \in Table : Hidden(i, t)
    OBVIOUS
  <2>6. \A q \in Suspension : holder'[q] = i /\ Latest(q)' => q = n
    <3>1. \A q \in Suspension : holder'[q] = i /\ q # n => q < n /\ holder'[n] = i
      BY <2>2, <1>none, <1>0
    <3>2. QED
      BY <2>2, <3>1, SuspensionAssumption
  <2>7. \A q \in Process : who'[q] = i => memory'[q] = Nothing
    BY <2>1 DEF Alone
  <2>8. state'[s] = "EXPIRED" => Blank(i)'
    <3>1. SUFFICES ASSUME state[s] = "EXPIRED"
                   PROVE  Blank(i)'
      BY <2>4
    <3>2. \A t \in Table : Hidden(i, t)'
      BY <2>1, <2>5, <3>1
    <3>3. \A q \in Suspension : holder'[q] = i /\ Latest(q)' =>
            \A t \in Table : backup'[q][t] = {}
      BY <2>1, <2>3, <2>6
    <3>4. \A q \in Process : who'[q] = i => \A t \in Table : memory'[q][t] = {}
      BY <2>7
    <3>5. QED
      BY <3>2, <3>3, <3>4
  <2>9. QED
    BY <2>4, <2>8
<1>5. CASE p \in Caller /\ CreateRequest(p)
  <2>1. /\ who[p] = i /\ stage[p] = "requesting" /\ Cleared(p) = Immediate
        /\ UNCHANGED <<accountVars, recordVars, backupVars>>
    BY <1>5 DEF CreateRequest
  <2>2. /\ stage' = [stage EXCEPT ![p] = "idle"] /\ who' = [who EXCEPT ![p] = NoIdentity]
        /\ memory' = [memory EXCEPT ![p] = Nothing] /\ todo' = [todo EXCEPT ![p] = {}]
    BY <1>5 DEF CreateRequest, Leave, Goto
  <2>3. Latest(s) => \A t \in Immediate : Hidden(i, t)
    BY <2>1
  <2>4. QED
    BY <2>1, <2>2, <2>3
<1>6. CASE p \in Caller /\ getActiveSuspension(p)
  <2>1. /\ who[p] = i /\ stage[p] = "validated"
        /\ UNCHANGED <<tableVars, owner, accountVars, recordVars, backupVars>>
    BY <1>6 DEF getActiveSuspension
  <2>2. \/ /\ stage' = [stage EXCEPT ![p] = "idle"] /\ who' = [who EXCEPT ![p] = NoIdentity]
           /\ memory' = [memory EXCEPT ![p] = Nothing] /\ todo' = [todo EXCEPT ![p] = {}]
        \/ stage' = [stage EXCEPT ![p] = "collecting"] /\ UNCHANGED <<who, todo, memory>>
    BY <1>6 DEF getActiveSuspension, Leave, Goto
  <2>3. CASE /\ stage' = [stage EXCEPT ![p] = "idle"] /\ who' = [who EXCEPT ![p] = NoIdentity]
             /\ memory' = [memory EXCEPT ![p] = Nothing] /\ todo' = [todo EXCEPT ![p] = {}]
    BY <2>1, <2>3
  <2>4. CASE stage' = [stage EXCEPT ![p] = "collecting"] /\ UNCHANGED <<who, todo, memory>>
    BY <2>1, <2>4
  <2>5. QED
    BY <2>2, <2>3, <2>4
<1>7. CASE p \in Caller /\ CollectBackups(p)
  <2>1. /\ who[p] = i /\ stage[p] = "collecting" /\ record[p] \in Suspension
        /\ Latest(record[p]) /\ holder[record[p]] = i
        /\ memory' = [memory EXCEPT ![p] = backup[record[p]]]
        /\ \E g \in {"recovering", "restoring"} : stage' = [stage EXCEPT ![p] = g]
        /\ \E x : todo' = [todo EXCEPT ![p] = x]
        /\ UNCHANGED <<tableVars, owner, accountVars, recordVars, backupVars, who>>
    BY <1>7, <1>0 DEF CollectBackups, Goto, Ordered, InOrder
  <2>2. Blank(i) => Blank(i)'
    BY <2>1
  <2>3. \A q \in Process : Cleared(q)' = Cleared(q)
    BY <2>1
  <2>4. QED
    BY <2>1, <2>2, <2>3
<1>8. CASE p \in Caller /\ RestoreRows(p)
  <2>1. /\ who[p] = i /\ stage[p] = "restoring" /\ record[p] \in Suspension
        /\ Latest(record[p]) /\ holder[record[p]] = i /\ record[p] \in reopened'
        /\ UNCHANGED <<tableVars, owner, recordVars, backup, who, todo, memory>>
    BY <1>8, <1>0 DEF RestoreRows, Goto, Ordered, InOrder
  <2>2. ~ Latest(s) /\ ~ Latest(s)'
    BY <2>1, LatestIsUnique
  <2>3. \A t \in Table : "original" \in content'[i][t] =>
          "original" \in content[i][t] \/ "original" \in memory[p][t]
    <3>1. /\ ToRestore(p) \in Table
          /\ \/ content' = content
             \/ content' = [content EXCEPT ![i] =
                              Restored(content[i], ToRestore(p), memory[p][ToRestore(p)])]
      BY <1>8, <2>1, AtWork, <1>0 DEF RestoreRows
    <3>2. QED
      BY <3>1 DEF Restored
  <2>4. Blank(i) => Blank(i)'
    BY <2>1, <2>3
  <2>5. QED
    BY <2>1, <2>2, <2>4
<1>9. CASE p \in Caller /\ MarkUsed(p)
  <2>1. /\ who[p] = i /\ stage[p] = "marking"
        /\ UNCHANGED <<tableVars, owner, accountVars, recordVars, backup, reopened>>
    BY <1>9 DEF MarkUsed
  <2>2. \/ /\ stage' = [stage EXCEPT ![p] = "idle"] /\ who' = [who EXCEPT ![p] = NoIdentity]
           /\ memory' = [memory EXCEPT ![p] = Nothing] /\ todo' = [todo EXCEPT ![p] = {}]
        \/ /\ \E g \in {"restoring", "recovering"} : stage' = [stage EXCEPT ![p] = g]
           /\ \E x : todo' = [todo EXCEPT ![p] = x]
           /\ UNCHANGED <<who, memory>>
    BY <1>9 DEF MarkUsed, Advance, Leave, Goto
  <2>3. CASE /\ stage' = [stage EXCEPT ![p] = "idle"] /\ who' = [who EXCEPT ![p] = NoIdentity]
             /\ memory' = [memory EXCEPT ![p] = Nothing] /\ todo' = [todo EXCEPT ![p] = {}]
    BY <2>1, <2>3
  <2>4. CASE /\ \E g \in {"restoring", "recovering"} : stage' = [stage EXCEPT ![p] = g]
             /\ \E x : todo' = [todo EXCEPT ![p] = x]
             /\ UNCHANGED <<who, memory>>
    <3>1. \A q \in Process : Cleared(q)' = Cleared(q)
      BY <2>1, <2>4
    <3>2. QED
      BY <2>1, <2>4, <3>1
  <2>5. QED
    BY <2>2, <2>3, <2>4
<1>10. CASE p \in Caller /\ MarkRecovered(p)
  <2>1. /\ who[p] = i /\ stage[p] = "recovering" /\ record[p] \in Suspension
        /\ Left(record[p]) /\ stage' = [stage EXCEPT ![p] = "resuming"]
        /\ state' = [state EXCEPT ![record[p]] = "RECOVERED"]
        /\ UNCHANGED <<tableVars, owner, content, holder, backupVars, who, todo, memory>>
    BY <1>10, <1>0 DEF MarkRecovered, Goto, Ordered, InOrder, Ending
  <2>2. \A q \in Process : Cleared(q)' = Cleared(q)
    BY <2>1
  <2>3. (Left(s)' => Left(s)) /\ (state'[s] = "EXPIRED" => state[s] = "EXPIRED")
    BY <2>1
  <2>4. Blank(i)' <=> Blank(i)
    BY <2>1
  <2>5. QED
    BY <2>1, <2>2, <2>3, <2>4
<1>11. CASE p \in Caller /\ resumeIdentity(p)
  BY <1>11 DEF resumeIdentity, Goto
<1>12. CASE p \in Worker /\ Claim(p)
  BY <1>12 DEF Claim, ClaimRows, Candidates, Claimable, Stale, Goto
<1>13. CASE p \in Worker /\ FindExpired(p)
  BY <1>13 DEF FindExpired, Begin, Goto
<1>14. CASE p \in Worker /\ FindRecord(p)
  <2>1. /\ who[p] = i /\ stage[p] = "claimed" /\ p \in Worker
        /\ \E g \in {"failing", "resolving"} : stage' = [stage EXCEPT ![p] = g]
        /\ UNCHANGED <<tableVars, owner, accountVars, recordVars, backupVars, who, todo, memory>>
    BY <1>14 DEF FindRecord, Goto
  <2>2. \A q \in Process : Cleared(q)' \subseteq Cleared(q)
    BY <2>1
  <2>3. QED
    BY <2>1, <2>2
<1>15. CASE p \in Worker /\ Complete(p)
  <2>1. /\ who[p] = i /\ stage[p] = "completing" /\ Cleared(p) = Table
        /\ UNCHANGED <<owner, accountVars, recordVars, backupVars>>
        /\ \/ /\ stage' = [stage EXCEPT ![p] = "finishing"]
              /\ UNCHANGED <<who, todo, memory>>
           \/ /\ stage' = [stage EXCEPT ![p] = "idle"] /\ who' = [who EXCEPT ![p] = NoIdentity]
              /\ memory' = [memory EXCEPT ![p] = Nothing] /\ todo' = [todo EXCEPT ![p] = {}]
    BY <1>15 DEF Complete, Leave, Goto
  <2>2. ~ NoneOpen(i)' => ~ NoneOpen(i)
    BY <1>15, <2>1 DEF Complete, markRequestCompleted, GuardedUpdate, SetStatus
  <2>3. \A q \in Process : who'[q] = i => who[q] = i /\ Cleared(q)' \subseteq Cleared(q)
    BY <2>1
  <2>4. \A q \in Process : who'[q] = i => memory'[q] = memory[q]
    BY <2>1
  <2>5. QED
    BY <2>1, <2>2, <2>3, <2>4
<1>16. CASE p \in Worker /\ Finish(p)
  BY <1>16 DEF Finish, Goto
<1>17. CASE p \in Worker /\ Fail(p)
  BY <1>17 DEF Fail, markRequestFailed, GuardedUpdate, SetStatus, Leave, Goto
<1>18. CASE p \in Worker /\ DeleteBackups(p)
  <2>1. /\ who[p] = i /\ stage[p] = "purging" /\ stage' = [stage EXCEPT ![p] = "expiring"]
        /\ backup' = [backup EXCEPT ![record[p]] = Nothing]
        /\ UNCHANGED <<tableVars, owner, accountVars, recordVars, reopened, who, todo, memory>>
    BY <1>18 DEF DeleteBackups, Goto
  <2>2. \A q \in Process : Cleared(q)' = Cleared(q)
    BY <2>1
  <2>3. Blank(i) => Blank(i)'
    BY <2>1
  <2>4. QED
    BY <2>1, <2>2, <2>3
<1>19. CASE p \in Worker /\ MarkExpired(p)
  <2>1. /\ who[p] = i /\ stage[p] = "expiring" /\ record[p] \in Suspension
        /\ Left(record[p]) /\ Latest(record[p]) /\ stage' = [stage EXCEPT ![p] = "notifying"]
        /\ state' = [state EXCEPT ![record[p]] = "EXPIRED"]
        /\ UNCHANGED <<tableVars, owner, accountVars, holder, backupVars, who, todo, memory>>
    BY <1>19, <1>0 DEF MarkExpired, Goto, Ordered, InOrder, Ending
  <2>2. \A q \in Process : Cleared(q)' = Cleared(q)
    BY <2>1
  <2>3. (Left(s)' => Left(s)) /\ (state'[s] = "EXPIRED" => state[s] = "EXPIRED" \/ Latest(s))
    BY <2>1
  <2>4. Blank(i)' <=> Blank(i)
    BY <2>1
  <2>5. QED
    BY <2>1, <2>2, <2>3, <2>4
<1>20. CASE p \in Worker /\ Throw(p)
  <2>1. /\ p \in Worker /\ stage' = [stage EXCEPT ![p] = "failing"]
        /\ UNCHANGED <<tableVars, owner, accountVars, recordVars, backupVars, who, todo, memory>>
    BY <1>20 DEF Throw, Abort, Goto
  <2>2. \A q \in Process : Cleared(q)' \subseteq Cleared(q)
    BY <2>1
  <2>3. QED
    BY <2>1, <2>2
<1>21. CASE Resolve(p)
  <2>1. /\ who[p] = i /\ stage[p] = "resolving" /\ stage' = [stage EXCEPT ![p] = "loading"]
        /\ todo' = [todo EXCEPT ![p] = TablesOf(p)]
        /\ UNCHANGED <<tableVars, owner, accountVars, recordVars, backupVars, who, memory>>
    BY <1>21 DEF Resolve, Goto
  <2>2. \A t \in Cleared(p)' : t \in Cleared(p) \/ content[i][t] = {}
    <3>1. CASE p \in Worker
      BY <2>1, <3>1 DEF TablesOf
    <3>2. CASE p \in Caller
      <4>1. p \notin Worker /\ Cleared(p)' = Immediate \ TablesOf(p)
        BY <2>1, <3>2
      <4>2. content[i]["settings"] = {} => content[i]["channels"] = {}
        BY <1>0 DEF SafetyInv, ChannelsNeedSettings
      <4>3. TablesOf(p) = IF content[i]["settings"] = {} THEN {"settings"} ELSE Immediate
        BY <2>1, <4>1 DEF TablesOf
      <4>4. QED
        BY <4>1, <4>2, <4>3 DEF Immediate
    <3>3. QED
      BY <3>1, <3>2
  <2>3. \A q \in Process : q # p => Cleared(q)' = Cleared(q)
    BY <2>1
  <2>4. QED
    BY <2>1, <2>2, <2>3
<1>22. CASE LoadRows(p)
  <2>1. /\ who[p] = i /\ stage[p] = "loading" /\ ToErase(p) \in todo[p] /\ ToErase(p) \in Table
        /\ memory' = [memory EXCEPT ![p][ToErase(p)] = content[i][ToErase(p)]]
        /\ UNCHANGED <<tableVars, owner, accountVars, recordVars, backupVars, who>>
    BY <1>22, <1>0, AtWork DEF LoadRows
  <2>2. \A t \in Cleared(p)' : t \in Cleared(p) \/ content[i][t] = {}
    <3>1. CASE content[i][ToErase(p)] = {}
      <4>1. /\ todo' = [todo EXCEPT ![p] = @ \ {ToErase(p)}]
            /\ stage' = [stage EXCEPT ![p] = IF todo[p] = {ToErase(p)} THEN AfterTables(p)
                                             ELSE "loading"]
        BY <1>22, <2>1, <3>1 DEF LoadRows, Advance, Goto
      <4>2. QED
        BY <2>1, <3>1, <4>1 DEF AfterTables, Immediate, Table
    <3>2. CASE content[i][ToErase(p)] # {}
      <4>1. stage' = [stage EXCEPT ![p] = "saving"] /\ UNCHANGED todo
        BY <1>22, <2>1, <3>2 DEF LoadRows, Goto
      <4>2. QED
        BY <2>1, <4>1
    <3>3. QED
      BY <3>1, <3>2
  <2>3. \A q \in Process : q # p => Cleared(q)' = Cleared(q)
    <3>1. ASSUME NEW q \in Process, q # p
          PROVE  todo'[q] = todo[q] /\ stage'[q] = stage[q]
      BY <1>22, <3>1 DEF LoadRows, Advance, Goto
    <3>2. QED
      BY <3>1
  <2>4. Blank(i) => Blank(i)'
    BY <2>1
  <2>5. ASSUME NEW q \in Process, who'[q] = i, NEW t \in Cleared(q)', Latest(s)
        PROVE  Hidden(i, t)
    <3> HIDE DEF Cleared
    <3>1. who[q] = i /\ \A k \in Cleared(q) : Hidden(i, k)
      BY <2>1, <2>5
    <3>2. t \in Cleared(q) \/ content[i][t] = {}
      BY <2>2, <2>3, <2>5
    <3>3. QED
      BY <3>1, <3>2
  <2>6. QED
    BY <2>1, <2>4, <2>5
<1>23. CASE CreateBackup(p)
  <2>1. /\ who[p] = i /\ stage[p] = "saving" /\ ToErase(p) \in Table /\ record[p] \in Suspension
        /\ UNCHANGED <<tableVars, owner, accountVars, recordVars, reopened>>
    BY <1>23, <1>0, AtWork DEF CreateBackup
  <2>2. \/ /\ backup' = [backup EXCEPT ![record[p]][ToErase(p)] = memory[p][ToErase(p)]]
           /\ stage' = [stage EXCEPT ![p] = "erasing"] /\ UNCHANGED <<who, todo, memory>>
        \/ /\ stage' = [stage EXCEPT ![p] = "failing"] /\ UNCHANGED <<who, todo, memory, backup>>
        \/ /\ stage' = [stage EXCEPT ![p] = "idle"] /\ who' = [who EXCEPT ![p] = NoIdentity]
           /\ memory' = [memory EXCEPT ![p] = Nothing] /\ todo' = [todo EXCEPT ![p] = {}]
           /\ UNCHANGED backup
    BY <1>23 DEF CreateBackup, Abort, Leave, Goto
  <2>3. \A q \in Process : who'[q] = i => who[q] = i /\ Cleared(q)' \subseteq Cleared(q)
    BY <2>1, <2>2
  <2>4. \A q \in Suspension, t \in Table : \/ backup'[q][t] = backup[q][t]
                                         \/ backup'[q][t] = memory[p][t]
    <3>1. CASE backup' = [backup EXCEPT ![record[p]][ToErase(p)] = memory[p][ToErase(p)]]
      BY <2>1, <3>1
    <3>2. CASE UNCHANGED backup
      BY <3>2
    <3>3. QED
      BY <2>2, <3>1, <3>2
  <2>5. \A q \in Process : who'[q] = i => memory'[q] = memory[q]
    BY <2>1, <2>2
  <2>6. Blank(i) => Blank(i)'
    <3> HIDE DEF Cleared, Concealed
    <3>1. SUFFICES ASSUME Blank(i)
                   PROVE  Blank(i)'
      OBVIOUS
    <3>2. \A t \in Table : "original" \notin memory[p][t]
      BY <2>1, <3>1
    <3>3. \A q \in Suspension : holder[q] = i /\ Latest(q) =>
            \A t \in Table : "original" \notin backup'[q][t]
      <4>1. \A q \in Suspension : holder[q] = i /\ Latest(q) =>
              \A t \in Table : "original" \notin backup[q][t]
        BY <3>1
      <4>2. SUFFICES ASSUME NEW q \in Suspension, holder[q] = i, Latest(q), NEW t \in Table
                     PROVE  "original" \notin backup'[q][t]
        OBVIOUS
      <4>3. backup'[q][t] = backup[q][t] \/ backup'[q][t] = memory[p][t]
        BY <2>4
      <4>4. "original" \notin backup[q][t] /\ "original" \notin memory[p][t]
        BY <3>2, <4>1, <4>2
      <4>5. QED
        BY <4>3, <4>4
    <3>4. \A q \in Process : who'[q] = i => \A t \in Table : "original" \notin memory'[q][t]
      BY <2>3, <2>5, <3>1
    <3>5. QED
      BY <2>1, <3>1, <3>3, <3>4
  <2>7. QED
    BY <2>1, <2>3, <2>6
<1>24. CASE EraseRows(p)
  <2>1. /\ who[p] = i /\ stage[p] = "erasing" /\ ToErase(p) \in todo[p] /\ ToErase(p) \in Table
        /\ content' = [content EXCEPT ![i] = Erased(content[i], ToErase(p))]
        /\ todo' = [todo EXCEPT ![p] = @ \ {ToErase(p)}]
        /\ stage' = [stage EXCEPT ![p] = IF todo[p] = {ToErase(p)} THEN AfterTables(p)
                                         ELSE "loading"]
        /\ UNCHANGED <<tableVars, owner, recordVars, backupVars, who, memory>>
    BY <1>24, <1>0, AtWork DEF EraseRows, Advance, Goto
  <2>2. /\ "original" \notin content'[i][ToErase(p)]
        /\ \A t \in Table : "original" \in content'[i][t] => "original" \in content[i][t]
    <3>1. content'[i] = Erased(content[i], ToErase(p)) /\ content[i] \in [Table -> SUBSET Row]
      BY <2>1
    <3>2. QED
      BY <2>1, <3>1, ErasedHides
  <2>3. \A t \in Cleared(p)' : t \in Cleared(p) \/ t = ToErase(p)
    BY <2>1 DEF AfterTables, Immediate, Table
  <2>4. \A q \in Process : q # p => Cleared(q)' = Cleared(q)
    BY <2>1
  <2>5. Cleared(p)' \subseteq Table
    BY <2>1 DEF AfterTables, Immediate, Table
  <2>6. Blank(i) => Blank(i)'
    BY <2>1, <2>2
  <2>7. \A q \in Process : who'[q] = i => \A t \in Cleared(q)' :
          (Latest(s) => Hidden(i, t)')
    <3>1. \A q \in Process : Cleared(q) \subseteq Table
      BY DEF Table, Immediate
    <3> HIDE DEF Cleared
    <3>2. SUFFICES ASSUME NEW q \in Process, who'[q] = i, NEW t \in Cleared(q)', Latest(s)
                   PROVE  Hidden(i, t)'
      BY <2>1
    <3>3. who[q] = i /\ \A k \in Cleared(q) : Hidden(i, k)
      BY <2>1, <3>2
    <3>4. t \in Cleared(q) \/ t = ToErase(p)
      BY <2>3, <2>4, <3>2
    <3>5. t \in Table /\ (Hidden(i, t) => Hidden(i, t)')
      BY <2>1, <2>2, <3>1, <3>4
    <3>6. QED
      BY <2>2, <3>3, <3>4, <3>5
  <2>8. Immediate \subseteq Table
    BY DEF Table
  <2>9. QED
    BY <2>1, <2>2, <2>6, <2>7, <2>8
<1>25. CASE Notify(p)
  BY <1>25 DEF Notify, Leave, Goto
<1>26. CASE Crash(p)
  BY <1>26 DEF Crash, Fault, Leave, Goto
<1>27. QED
  BY <1>1, <1>2, <1>3, <1>4, <1>5, <1>6, <1>7, <1>8, <1>9, <1>10, <1>11, <1>12, <1>13,
     <1>14, <1>15, <1>16, <1>17, <1>18, <1>19, <1>20, <1>21, <1>22, <1>23, <1>24, <1>25,
     <1>26
     DEF Moves, CallerStep, WorkerStep, ProcessStep


LEMMA HiddenInit == Init => HiddenInv
BY NoIdentityAssumption DEF Init, HiddenInv, SuspensionsOf

(* A suspension begins when the rows of the one before are gone.           *)
LEMMA NewIsConcealed ==
  ASSUME OrderedInv, HiddenInv, NEW c \in Caller, CreateRecord(c),
         NEW i \in Identity, i \notin overlapped,
         NEW s \in Suspension, holder'[s] = i, holder[s] # i
  PROVE  Concealed(s, i)'
<1>1. /\ SafetyInv /\ AtRest /\ Ordered(i) /\ c \in Process /\ Knows(c) /\ RecordTypes
      /\ ProcessTypes
  BY TypeParts DEF OrderedInv, OrderInv, SafetyInv, Process
<1>2. /\ stage[c] = "recording" /\ who[c] = i /\ state' = [state EXCEPT ![s] = "SUSPENDING"]
      /\ holder' = [holder EXCEPT ![s] = i] /\ state[s] = "NONE"
      /\ stage' = [stage EXCEPT ![c] = "resolving"]
      /\ UNCHANGED <<status, owner, content, backup, who, memory>>
  BY <1>1 DEF CreateRecord, Goto, RecordTypes, tableVars, accountVars, backupVars
<1>3. \A q \in Process : who'[q] = i => q = c
  BY <1>1, <1>2 DEF Ordered, Alone, Calling
<1>4. Cleared(c)' = {}
  BY <1>1, <1>2, ActorAssumption DEF Cleared, OnTables, ProcessTypes, Process
<1>5. NoneOpen(i)'
  BY <1>1, <1>2 DEF Ordered, Alone, Calling, NoneOpen, RequestsOf, Open
<1>6. state'[s] = "SUSPENDING"
  BY <1>1, <1>2 DEF RecordTypes
<1>7. QED
  BY <1>3, <1>4, <1>5, <1>6 DEF Concealed, Left

LEMMA HolderStays ==
  ASSUME SafetyInv, [Next]_vars, NEW i \in Identity, NEW s \in Suspension, holder'[s] = i,
         holder[s] # i
  PROVE  \E c \in Caller : CreateRecord(c)
BY DEF Next, vars, recordVars, CallerStep, WorkerStep, ProcessStep, requestSuspension,
       recoverAccount,
       suspendIdentity, CreateRequest, getActiveSuspension, CollectBackups,
       RestoreRows, MarkUsed, MarkRecovered, resumeIdentity, Claim, FindExpired, FindRecord,
       Complete, Finish, Fail, DeleteBackups, MarkExpired, Throw, Resolve, LoadRows,
       CreateBackup, EraseRows, Notify, Crash, WindowCloses, CooldownPasses, Tick

LEMMA ReopenedGrows == [Next]_vars => reopened \subseteq reopened'
BY DEF Next, vars, backupVars, CallerStep, WorkerStep, ProcessStep, requestSuspension,
       recoverAccount, suspendIdentity, CreateRecord, CreateRequest, getActiveSuspension,
       CollectBackups, RestoreRows, MarkUsed, MarkRecovered, resumeIdentity, Claim,
       FindExpired, FindRecord, Complete, Finish, Fail, DeleteBackups, MarkExpired, Throw,
       Resolve, LoadRows, CreateBackup, EraseRows, Notify, Crash, WindowCloses,
       CooldownPasses, Tick

(* Steps that change no row and no account the invariants speak of.        *)
Silent ==
  /\ UNCHANGED <<status, owner, content, isSuspended, state, holder, overlapped, backup, used,
                 skipped, reopened, stage, who, record, todo, memory>>
  /\ closed \subseteq closed'

LEMMA SilentSteps ==
  ASSUME [Next]_vars
  PROVE  Silent \/ \E p \in Process : Moves(p)
<1>1. ASSUME NEW s \in Suspension, WindowCloses(s)
      PROVE  Silent
  BY <1>1 DEF WindowCloses, Silent, tableVars, accountVars, backupVars, procVars
<1>2. ASSUME NEW i \in Identity, CooldownPasses(i)
      PROVE  Silent
  BY <1>2 DEF CooldownPasses, Silent, tableVars, recordVars, backupVars, procVars
<1>3. CASE Tick
  BY <1>3 DEF Tick, AgeRows, Silent, accountVars, recordVars, backupVars, procVars
<1>4. CASE UNCHANGED vars
  BY <1>4 DEF vars, Silent, tableVars, accountVars, recordVars, backupVars, procVars
<1>5. QED
  BY <1>1, <1>2, <1>3, <1>4, NextMoves

LEMMA HiddenStep ==
  ASSUME OrderedInv, OrderedInv', HiddenInv, [Next]_vars
  PROVE  HiddenInv'
<1> SUFFICES ASSUME NEW i \in Identity, i \notin overlapped',
                    NEW s \in Suspension, holder'[s] = i, s \notin reopened'
             PROVE  Concealed(s, i)'
  BY DEF HiddenInv, SuspensionsOf
<1>1. i \notin overlapped /\ s \notin reopened /\ SafetyInv /\ AtRest
  BY OverlappedGrows, ReopenedGrows DEF OrderedInv
<1>2. CASE holder[s] # i
  BY <1>1, <1>2, HolderStays, NewIsConcealed
<1>3. CASE holder[s] = i
  <2>1. Concealed(s, i)
    BY <1>1, <1>3 DEF HiddenInv, SuspensionsOf
  <2>2. CASE Silent
    BY <2>1, <2>2
       DEF Silent, Concealed, Blank, Hidden, Cleared, Latest, Left, NoneOpen, Open,
           SuspensionsOf, RequestsOf
  <2>3. ASSUME NEW p \in Process, Moves(p)
        PROVE  Concealed(s, i)'
    <3>1. CASE Deals(p, i)
      BY <1>1, <1>3, <2>1, <2>3, <3>1, ConcealedMove
    <3>2. CASE ~ Deals(p, i)
      BY <1>1, <1>3, <2>1, <2>3, <3>2, Elsewhere, ConcealedFrame
    <3>3. QED
      BY <3>1, <3>2
  <2>4. QED
    BY <2>2, <2>3, SilentSteps
<1>4. QED
  BY <1>2, <1>3

LEMMA HiddenIsHidden == OrderedInv /\ HiddenInv => SuspendedMeansHidden
<1> SUFFICES ASSUME OrderedInv, HiddenInv, NEW s \in Suspension,
                    state[s] \in {"SUSPENDED", "EXPIRED"}, s \notin reopened,
                    holder[s] \notin overlapped
             PROVE  \A t \in Table : "original" \notin content[holder[s]][t]
  BY DEF SuspendedMeansHidden
<1>1. holder[s] \in Identity
  BY TypeParts DEF OrderedInv, SafetyInv, RecordsOK, RecordTypes
<1>2. Concealed(s, holder[s]) /\ Ordered(holder[s])
  BY <1>1 DEF OrderedInv, OrderInv, HiddenInv, SuspensionsOf
<1>3. CASE Latest(s)
  BY <1>2, <1>3 DEF Concealed, Left, Hidden
<1>4. CASE ~ Latest(s)
  <2>1. state[s] = "EXPIRED"
    BY <1>2, <1>4 DEF Ordered, Active, SuspensionsOf
  <2>2. QED
    BY <1>2, <1>4, <2>1 DEF Concealed, Blank, Hidden
<1>5. QED
  BY <1>3, <1>4

(* Nothing is left in the tables of an account whose suspension is in      *)
(* force or has expired, unless a recovery has begun to restore it or two  *)
(* calls have overlapped: whatever else the callers and workers were at.   *)
THEOREM SuspendedIsHidden == Spec => []SuspendedMeansHidden
<1>1. Init => OrderedInv /\ HiddenInv
  BY OrderedInvInit, HiddenInit
<1>2. OrderedInv /\ HiddenInv /\ [Next]_vars => (OrderedInv /\ HiddenInv)'
  BY OrderedInvStep, HiddenStep
<1>3. QED
  BY <1>1, <1>2, HiddenIsHidden, PTL DEF Spec


LEMMA ExcusedStays ==
  ASSUME NEW i, NEW p \in Process, stage[p] \notin {"recording", "resuming"},
         Excused(i), UNCHANGED <<state, holder, closed>>,
         \A q \in Process : q # p => stage'[q] = stage[q] /\ who'[q] = who[q]
  PROVE  Excused(i)'
BY DEF Excused, Active, SuspensionsOf, Process

LEMMA FlagMove ==
  ASSUME SafetyInv, AtRest, FlagInv, NEW p \in Process, Moves(p),
         NEW i \in Identity, faults' = 0, isSuspended'[i]
  PROVE  Excused(i)'
<1>0. /\ AccountTypes /\ RecordTypes /\ ProcessTypes /\ faults \in Nat
      /\ RecordsOK /\ Knows(p)
  BY TypeParts, FaultsAssumption DEF SafetyInv
<1>reason. faults = 0 => \A j \in Identity : isSuspended[j] => Excused(j)
  BY DEF FlagInv
<1> USE <1>0, <1>reason, NoSuspensionAssumption, NoIdentityAssumption
<1> USE DEF accountVars, recordVars, procVars, RecordTypes, ProcessTypes, AccountTypes,
            RecordsOK, Knows, Process, Recovering, Finalizing, Excused, Active,
            SuspensionsOf
<1>1. ASSUME NEW j \in Identity, p \in Caller, requestSuspension(p, j)
      PROVE  Excused(i)'
  BY <1>1 DEF requestSuspension, Begin, Goto
<1>2. ASSUME NEW j \in Identity, p \in Caller, recoverAccount(p, j)
      PROVE  Excused(i)'
  BY <1>2 DEF recoverAccount, Begin, Goto
<1>3. CASE p \in Caller /\ suspendIdentity(p)
  BY <1>3 DEF suspendIdentity, Goto
<1>4. CASE p \in Caller /\ CreateRecord(p)
  <2>1. PICK s \in Suspension :
          /\ state' = [state EXCEPT ![s] = "SUSPENDING"] /\ state[s] = "NONE"
          /\ holder' = [holder EXCEPT ![s] = who[p]]
    BY <1>4 DEF CreateRecord
  <2>2. /\ stage' = [stage EXCEPT ![p] = "resolving"] /\ stage[p] = "recording"
        /\ UNCHANGED <<isSuspended, closed, who, faults>>
    BY <1>4 DEF CreateRecord, Goto
  <2>3. holder'[s] = who[p] /\ Active(s)'
    BY <2>1
  <2>4. CASE who[p] = i
    BY <2>3, <2>4
  <2>5. CASE who[p] # i
    <3>1. \A q \in Suspension : holder[q] = i => holder'[q] = i /\ state'[q] = state[q]
      BY <2>1
    <3>2. \A q \in Process : who[q] = i => who'[q] = i /\ stage'[q] = stage[q]
      BY <2>2, <2>5
    <3>3. Excused(i)
      BY <2>2
    <3>4. QED
      BY <2>2, <3>1, <3>2, <3>3
  <2>6. QED
    BY <2>4, <2>5
<1>5. CASE p \in Caller /\ CreateRequest(p)
  <2>1. /\ stage[p] = "requesting" /\ UNCHANGED <<isSuspended, state, holder, closed>>
        /\ UNCHANGED faults
        /\ \A q \in Process : q # p => stage'[q] = stage[q] /\ who'[q] = who[q]
    BY <1>5 DEF CreateRequest, Leave, Goto
  <2>2. Excused(i)
    BY <2>1
  <2> HIDE DEF Excused
  <2>3. QED
    BY <2>1, <2>2, ExcusedStays
<1>6. CASE p \in Caller /\ getActiveSuspension(p)
  <2>1. /\ stage[p] = "validated" /\ UNCHANGED <<isSuspended, state, holder, closed, faults>>
        /\ \A q \in Process : q # p => stage'[q] = stage[q] /\ who'[q] = who[q]
    BY <1>6 DEF getActiveSuspension, Leave, Goto
  <2>2. Excused(i)
    BY <2>1
  <2> HIDE DEF Excused
  <2>3. QED
    BY <2>1, <2>2, ExcusedStays
<1>7. CASE p \in Caller /\ CollectBackups(p)
  <2>1. /\ stage[p] = "collecting" /\ UNCHANGED <<isSuspended, state, holder, closed>>
        /\ UNCHANGED faults
        /\ \A q \in Process : q # p => stage'[q] = stage[q] /\ who'[q] = who[q]
    BY <1>7 DEF CollectBackups, Goto
  <2>2. Excused(i)
    BY <2>1
  <2> HIDE DEF Excused
  <2>3. QED
    BY <2>1, <2>2, ExcusedStays
<1>8. CASE p \in Caller /\ RestoreRows(p)
  <2>1. /\ stage[p] = "restoring" /\ UNCHANGED <<isSuspended, state, holder, closed>>
        /\ (UNCHANGED faults \/ Fault)
        /\ \A q \in Process : q # p => stage'[q] = stage[q] /\ who'[q] = who[q]
    BY <1>8 DEF RestoreRows, Goto
  <2>2. Excused(i)
    BY <2>1 DEF Fault
  <2> HIDE DEF Excused
  <2>3. QED
    BY <2>1, <2>2, ExcusedStays
<1>9. CASE p \in Caller /\ MarkUsed(p)
  <2>1. /\ stage[p] = "marking" /\ UNCHANGED <<isSuspended, state, holder, closed, faults>>
        /\ \A q \in Process : q # p => stage'[q] = stage[q] /\ who'[q] = who[q]
    BY <1>9 DEF MarkUsed, Advance, Leave, Goto
  <2>2. Excused(i)
    BY <2>1
  <2> HIDE DEF Excused
  <2>3. QED
    BY <2>1, <2>2, ExcusedStays
<1>10. CASE p \in Caller /\ MarkRecovered(p)
  BY <1>10 DEF MarkRecovered, Goto
<1>11. CASE p \in Caller /\ resumeIdentity(p)
  <2>1. /\ stage' = [stage EXCEPT ![p] = "notifying"] /\ stage[p] = "resuming"
        /\ isSuspended' = [isSuspended EXCEPT ![who[p]] = FALSE]
        /\ UNCHANGED <<state, holder, closed, who, faults>>
    BY <1>11 DEF resumeIdentity, Goto, recordVars
  <2>2. who[p] # i /\ isSuspended[i]
    BY <2>1
  <2>3. \A q \in Process : who[q] = i => who'[q] = i /\ stage'[q] = stage[q]
    BY <2>1, <2>2
  <2>4. Excused(i)
    BY <2>1, <2>2
  <2>5. QED
    BY <2>1, <2>3, <2>4
<1>12. CASE p \in Worker /\ Claim(p)
  <2>1. /\ stage[p] = "idle" /\ UNCHANGED <<isSuspended, state, holder, closed>>
        /\ UNCHANGED faults
        /\ \A q \in Process : q # p => stage'[q] = stage[q] /\ who'[q] = who[q]
    BY <1>12 DEF Claim, Goto
  <2>2. Excused(i)
    BY <2>1
  <2> HIDE DEF Excused
  <2>3. QED
    BY <2>1, <2>2, ExcusedStays
<1>13. CASE p \in Worker /\ FindExpired(p)
  <2>1. /\ stage[p] = "idle" /\ UNCHANGED <<isSuspended, state, holder, closed>>
        /\ UNCHANGED faults
        /\ \A q \in Process : q # p => stage'[q] = stage[q] /\ who'[q] = who[q]
    BY <1>13 DEF FindExpired, Begin, Goto
  <2>2. Excused(i)
    BY <2>1
  <2> HIDE DEF Excused
  <2>3. QED
    BY <2>1, <2>2, ExcusedStays
<1>14. CASE p \in Worker /\ FindRecord(p)
  <2>1. /\ stage[p] = "claimed" /\ UNCHANGED <<isSuspended, state, holder, closed>>
        /\ UNCHANGED faults
        /\ \A q \in Process : q # p => stage'[q] = stage[q] /\ who'[q] = who[q]
    BY <1>14 DEF FindRecord, Goto
  <2>2. Excused(i)
    BY <2>1
  <2> HIDE DEF Excused
  <2>3. QED
    BY <2>1, <2>2, ExcusedStays
<1>15. CASE p \in Worker /\ Complete(p)
  <2>1. /\ stage[p] = "completing" /\ UNCHANGED <<isSuspended, state, holder, closed, faults>>
        /\ \A q \in Process : q # p => stage'[q] = stage[q] /\ who'[q] = who[q]
    BY <1>15 DEF Complete, Leave, Goto
  <2>2. Excused(i)
    BY <2>1
  <2> HIDE DEF Excused
  <2>3. QED
    BY <2>1, <2>2, ExcusedStays
<1>16. CASE p \in Worker /\ Finish(p)
  BY <1>16 DEF Finish, Goto
<1>17. CASE p \in Worker /\ Fail(p)
  BY <1>17 DEF Fail, markRequestFailed, GuardedUpdate, SetStatus, Leave, Goto
<1>18. CASE p \in Worker /\ DeleteBackups(p)
  <2>1. /\ stage[p] = "purging" /\ UNCHANGED <<isSuspended, state, holder, closed>>
        /\ UNCHANGED faults
        /\ \A q \in Process : q # p => stage'[q] = stage[q] /\ who'[q] = who[q]
    BY <1>18 DEF DeleteBackups, Goto
  <2>2. Excused(i)
    BY <2>1
  <2> HIDE DEF Excused
  <2>3. QED
    BY <2>1, <2>2, ExcusedStays
<1>19. CASE p \in Worker /\ MarkExpired(p)
  <2>1. /\ stage' = [stage EXCEPT ![p] = "notifying"] /\ stage[p] = "expiring"
        /\ state' = [state EXCEPT ![record[p]] = "EXPIRED"] /\ record[p] \in closed
        /\ UNCHANGED <<isSuspended, holder, closed, who, faults>>
    BY <1>19 DEF MarkExpired, Goto
  <2>2. Excused(i)
    BY <2>1
  <2>3. QED
    BY <2>1, <2>2
<1>20. CASE p \in Worker /\ Throw(p)
  BY <1>20 DEF Throw, Fault, Abort, Leave, Goto
<1>21. CASE Resolve(p)
  <2>1. /\ stage[p] = "resolving" /\ UNCHANGED <<isSuspended, state, holder, closed>>
        /\ UNCHANGED faults
        /\ \A q \in Process : q # p => stage'[q] = stage[q] /\ who'[q] = who[q]
    BY <1>21 DEF Resolve, Goto
  <2>2. Excused(i)
    BY <2>1
  <2> HIDE DEF Excused
  <2>3. QED
    BY <2>1, <2>2, ExcusedStays
<1>22. CASE LoadRows(p)
  <2>1. /\ stage[p] = "loading" /\ UNCHANGED <<isSuspended, state, holder, closed>>
        /\ UNCHANGED faults
        /\ \A q \in Process : q # p => stage'[q] = stage[q] /\ who'[q] = who[q]
    BY <1>22 DEF LoadRows, Advance, Goto
  <2>2. Excused(i)
    BY <2>1
  <2> HIDE DEF Excused
  <2>3. QED
    BY <2>1, <2>2, ExcusedStays
<1>23. CASE CreateBackup(p)
  <2>1. /\ stage[p] = "saving" /\ UNCHANGED <<isSuspended, state, holder, closed, faults>>
        /\ \A q \in Process : q # p => stage'[q] = stage[q] /\ who'[q] = who[q]
    BY <1>23 DEF CreateBackup, Abort, Leave, Goto
  <2>2. Excused(i)
    BY <2>1
  <2> HIDE DEF Excused
  <2>3. QED
    BY <2>1, <2>2, ExcusedStays
<1>24. CASE EraseRows(p)
  BY <1>24 DEF EraseRows, Advance, AfterTables, Goto
<1>25. CASE Notify(p)
  BY <1>25 DEF Notify, Leave, Goto
<1>26. CASE Crash(p)
  BY <1>26 DEF Crash, Fault, Leave, Goto
<1>27. QED
  BY <1>1, <1>2, <1>3, <1>4, <1>5, <1>6, <1>7, <1>8, <1>9, <1>10, <1>11, <1>12, <1>13,
     <1>14, <1>15, <1>16, <1>17, <1>18, <1>19, <1>20, <1>21, <1>22, <1>23, <1>24, <1>25,
     <1>26
     DEF Moves, CallerStep, WorkerStep, ProcessStep


LEMMA FaultsStay ==
  ASSUME [Next]_vars, faults \in Nat, faults' = 0
  PROVE  faults = 0
<1>1. UNCHANGED faults \/ Fault
  BY DEF Next, vars, CallerStep, WorkerStep, ProcessStep, requestSuspension, recoverAccount,
         suspendIdentity, CreateRecord, CreateRequest, getActiveSuspension, CollectBackups,
         RestoreRows, MarkUsed, MarkRecovered, resumeIdentity, Claim, FindExpired, FindRecord,
         Complete, Finish, Fail, DeleteBackups, MarkExpired, Throw, Resolve, LoadRows,
         CreateBackup, EraseRows, Notify, Crash, WindowCloses, CooldownPasses, Tick
<1>2. QED
  BY <1>1 DEF Fault

LEMMA FlagStep ==
  ASSUME SafetyInv, AtRest, FlagInv, [Next]_vars
  PROVE  FlagInv'
<1> SUFFICES ASSUME faults' = 0, NEW i \in Identity, isSuspended'[i]
             PROVE  Excused(i)'
  BY DEF FlagInv
<1>1. CASE Silent
  <2>1. faults = 0
    BY FaultsStay, TypeParts, FaultsAssumption DEF SafetyInv
  <2>2. Excused(i)
    BY <1>1, <2>1 DEF Silent, FlagInv
  <2>3. QED
    BY <1>1, <2>2 DEF Silent, Excused, Active, SuspensionsOf
<1>2. ASSUME NEW p \in Process, Moves(p)
      PROVE  Excused(i)'
  BY <1>2, FlagMove
<1>3. QED
  BY <1>1, <1>2, SilentSteps

LEMMA FlagAgrees == OrderedInv /\ FlagInv => FlagAgreesWithRecords
<1> SUFFICES ASSUME OrderedInv, FlagInv, NEW i \in Identity, \A p \in Process : who[p] # i,
                    faults = 0, Undisturbed(i)
             PROVE  isSuspended[i] <=> \E s \in SuspensionsOf(i) :
                      state[s] \in {"SUSPENDING", "SUSPENDED", "EXPIRED"}
  BY TypeParts DEF FlagAgreesWithRecords, OrderedInv, SafetyInv
<1>1. Ordered(i) /\ \A s \in SuspensionsOf(i) : s \notin closed
  BY DEF OrderedInv, OrderInv, Undisturbed
<1>2. ASSUME isSuspended[i]
      PROVE  \E s \in SuspensionsOf(i) : Active(s)
  BY <1>1, <1>2 DEF FlagInv, Excused, Process
<1>3. ASSUME NEW s \in SuspensionsOf(i), state[s] \in {"SUSPENDING", "SUSPENDED", "EXPIRED"}
      PROVE  isSuspended[i]
  BY <1>1, <1>3 DEF OrderedInv, ExpiryInv, Ordered, Active, SuspensionsOf
<1>4. isSuspended[i] \in BOOLEAN
  BY TypeParts DEF OrderedInv, SafetyInv, AccountTypes
<1>5. QED
  BY <1>2, <1>3, <1>4 DEF Active

(* As long as nothing crashed and nothing overlapped, an account nobody is *)
(* busy with is locked exactly if its records say that it is suspended.    *)
THEOREM FlagIsTheRecords == Spec => []FlagAgreesWithRecords
<1>1. Init => OrderedInv /\ FlagInv
  BY OrderedInvInit DEF Init, FlagInv
<1>2. OrderedInv /\ FlagInv /\ [Next]_vars => (OrderedInv /\ FlagInv)'
  BY OrderedInvStep, FlagStep DEF OrderedInv
<1>3. QED
  BY <1>1, <1>2, FlagAgrees, PTL DEF Spec


(* The others stay where they are.                                         *)
Around(p) ==
  \A q \in Process : q # p =>
    /\ stage'[q] = stage[q] /\ who'[q] = who[q] /\ record'[q] = record[q]
    /\ todo'[q] = todo[q] /\ memory'[q] = memory[q]

LEMMA OnlyOneMoves ==
  ASSUME ProcessTypes, NEW p \in Process, Moves(p)
  PROVE  Around(p)
<1> USE DEF ProcessTypes, Around, tableVars, accountVars, recordVars, backupVars, procVars, Goto, Leave, Begin
<1>1. ASSUME NEW i \in Identity, requestSuspension(p, i) \/ recoverAccount(p, i)
      PROVE  Around(p)
  BY <1>1 DEF requestSuspension, recoverAccount
<1>2. CASE CallerStep(p)
  BY <1>2 DEF CallerStep, suspendIdentity, CreateRecord, CreateRequest, getActiveSuspension,
     CollectBackups, RestoreRows, MarkUsed, Advance, MarkRecovered, resumeIdentity
<1>3. CASE Claim(p) \/ FindExpired(p) \/ WorkerStep(p) \/ Throw(p)
  <2>1. CASE Claim(p)
    BY <2>1 DEF Claim
  <2>2. CASE FindExpired(p)
    BY <2>2 DEF FindExpired
  <2>3. CASE WorkerStep(p) \/ Throw(p)
    BY <2>3 DEF WorkerStep, Throw, Abort, FindRecord, Complete, Finish, Fail, DeleteBackups,
       MarkExpired
  <2>4. QED
    BY <1>3, <2>1, <2>2, <2>3
<1>4. CASE ProcessStep(p) \/ Crash(p)
  BY <1>4 DEF ProcessStep, Crash, Resolve, LoadRows, Advance, CreateBackup, Abort, EraseRows,
     Notify
<1>5. QED
  BY <1>1, <1>2, <1>3, <1>4 DEF Moves

(* A step that takes nothing back from the tables and the backups.         *)
Quiet(p, s, i) ==
  /\ \A t \in Table : Original(i, t) => Original(i, t)'
  /\ \A t \in Table : content'[i][t] = {} => content[i][t] = {}
  /\ backup'[s] = backup[s] /\ used[s] \subseteq used'[s]
  /\ \A t \in used'[s] : t \in used[s] \/ Original(i, t)
  /\ stage'[p] # "erasing"
  /\ NoneOpen(i)' \/ ~ NoneOpen(i) \/ \A t \in Immediate : Done(s, t)
  /\ state'[s] = state[s] \/ \A t \in Table : Done(s, t)
  /\ state'[s] = "SUSPENDING" => state[s] = "SUSPENDING" /\ used'[s] = used[s]
  /\ state'[s] = "RECOVERED" => state[s] = "RECOVERED" \/ used'[s] = Table

LEMMA DoneStays ==
  ASSUME NEW p \in Process, Around(p), stage'[p] # "erasing",
         NEW s \in Suspension, NEW t \in Table, backup[s][t] # {} => backup'[s][t] # {},
         Done(s, t)
  PROVE  Done(s, t)'
<1>1. \A q \in Process : q # p => (Erases(q, s, t)' <=> Erases(q, s, t))
  BY DEF Around, Erases, ToErase
<1>2. ~ Erases(p, s, t)'
  BY DEF Erases
<1>3. QED
  BY <1>1, <1>2 DEF Done

LEMMA SettingsFirst ==
  ASSUME NEW S \in SUBSET Table, "settings" \in S
  PROVE  First(S, RestoreOrder) # "channels"
<1>1. \A q \in S : RestoreOrder["settings"] <= RestoreOrder[q]
  BY DEF RestoreOrder, Table, Immediate
<1>2. RestoreOrder[First(S, RestoreOrder)] <= RestoreOrder["settings"]
  BY <1>1 DEF First
<1>3. QED
  BY <1>2 DEF RestoreOrder

LEMMA ErasedElsewhere ==
  ASSUME NEW rows \in [Table -> SUBSET Row], NEW t \in Table, NEW q \in Table,
         q # t, ~ (t = "settings" /\ q = "channels")
  PROVE  Erased(rows, t)[q] = rows[q]
BY DEF Erased, Table, Immediate

(* What the others hold is still true.                                     *)
LEMMA OthersHold ==
  ASSUME NEW p \in Process, Around(p), stage'[p] # "erasing",
         NEW i \in Identity, NEW s \in Suspension, NEW q \in Process, q # p,
         Cleared(q) \subseteq Table,
         stage[q] = "saving" => ToErase(q) \in Table,
         stage[q] = "erasing" => ToErase(q) \in Table,
         Holds(q, s, i),
         backup'[s] = backup[s], used[s] \subseteq used'[s], used'[s] \subseteq Table,
         stage[q] = "marking" =>
           ToRestore(q) \in Table /\ \A t \in Table : Original(i, t) => Original(i, t)',
         stage[q] = "erasing" => state'[s] = state[s]
  PROVE  Holds(q, s, i)'
<1>1. /\ stage'[q] = stage[q] /\ who'[q] = who[q] /\ record'[q] = record[q]
      /\ todo'[q] = todo[q] /\ memory'[q] = memory[q] /\ ToErase(q)' = ToErase(q)
      /\ ToRestore(q)' = ToRestore(q) /\ Cleared(q)' = Cleared(q)
  BY DEF Around, ToErase, ToRestore, Cleared
<1>2. \A t \in Table : Done(s, t) => Done(s, t)'
  BY DoneStays
<1>3. \A t \in Table, r \in Process : Erases(r, s, t)' => Erases(r, s, t)
  BY DEF Around, Erases, ToErase
<1>4. "channels" \in Table
  BY DEF Table, Immediate
<1>5. \A t \in Cleared(q)' : Done(s, t)'
  BY <1>1, <1>2 DEF Holds
<1>6. stage'[q] = "saving" /\ backup'[s][ToErase(q)'] = {} =>
        "original" \in memory'[q][ToErase(q)']
  BY <1>1 DEF Holds
<1>7. stage'[q] = "erasing" =>
        /\ state'[s] = "SUSPENDING" /\ backup'[s][ToErase(q)'] # {}
        /\ ToErase(q)' = "settings" => Done(s, "channels")'
        /\ \A r \in Process : (Erases(r, s, ToErase(q)))' => r = q
  <2> SUFFICES ASSUME stage[q] = "erasing"
               PROVE  /\ state'[s] = "SUSPENDING" /\ backup'[s][ToErase(q)'] # {}
                      /\ ToErase(q)' = "settings" => Done(s, "channels")'
                      /\ \A r \in Process : (Erases(r, s, ToErase(q)))' => r = q
    BY <1>1
  <2>1. \A r \in Process : (Erases(r, s, ToErase(q)))' => Erases(r, s, ToErase(q))
    BY <1>1 DEF Around, Erases, ToErase
  <2>2. QED
    BY <1>1, <1>2, <1>4, <2>1 DEF Holds
<1>8. stage'[q] \in {"restoring", "marking"} =>
        memory'[q] = backup'[s] /\ Table \ todo'[q] \subseteq used'[s]
  BY <1>1 DEF Holds
<1>9. stage'[q] = "marking" => Original(i, ToRestore(q))'
  <2>1. SUFFICES ASSUME stage[q] = "marking"
                 PROVE  "original" \in content'[i][ToRestore(q)']
    BY <1>1 DEF Original
  <2>2. Original(i, ToRestore(q)) /\ ToRestore(q) \in Table
    BY <2>1 DEF Holds
  <2>3. "original" \in content'[i][ToRestore(q)]
    BY <2>1, <2>2 DEF Original
  <2>4. QED
    BY <1>1, <2>3
<1>10. stage'[q] \in {"recovering", "resuming"} => used'[s] = Table
  BY <1>1 DEF Holds
<1>11. QED
  BY <1>5, <1>6, <1>7, <1>8, <1>9, <1>10 DEF Holds


(* Who works on the tables of an account works for its latest suspension.  *)
LEMMA WorksForLatest ==
  ASSUME OrderedInv, NEW i \in Identity, i \notin overlapped,
         NEW s \in Suspension, holder[s] = i, Latest(s),
         NEW q \in Process, who[q] = i, record[q] \in Suspension
  PROVE  record[q] = s
BY LatestIsUnique DEF OrderedInv, OrderInv, SafetyInv, Ordered, InOrder, Knows

LEMMA NobodyErases ==
  ASSUME OrderedInv, NEW i \in Identity, i \notin overlapped,
         NEW s \in Suspension, holder[s] = i, Latest(s), \A t \in Table : Done(s, t),
         NEW q \in Process, who[q] = i
  PROVE  stage[q] # "erasing"
<1>1. SUFFICES ASSUME stage[q] = "erasing"
               PROVE  FALSE
  OBVIOUS
<1>2. record[q] = s /\ ToErase(q) \in Table
  BY <1>1, WorksForLatest, AtWork DEF OrderedInv, Knows, Anonymizing, OnTables
<1>3. QED
  BY <1>1, <1>2 DEF Done, Erases

LEMMA QuietStep ==
  ASSUME OrderedInv, NEW p \in Process, NEW i \in Identity, i \notin overlapped,
         NEW s \in Suspension, holder[s] = i, Latest(s), Sound(s, i),
         RecordTypes', Around(p), Quiet(p, s, i), who'[p] = i => Holds(p, s, i)'
  PROVE  Sound(s, i)'
<1>1. \A t \in Table : Done(s, t) => Done(s, t)'
  BY DoneStays DEF Quiet
<1>2. Immediate \subseteq Table
  BY DEF Table
<1>3. ASSUME NEW q \in Process, who'[q] = i, q # p
      PROVE  Holds(q, s, i)'
  <2>1. who[q] = i /\ Holds(q, s, i)
    BY <1>3 DEF Around, Sound
  <2>2. Cleared(q) \subseteq Table
    BY DEF Cleared, Table, Immediate
  <2>3. stage[q] \in {"saving", "erasing"} => ToErase(q) \in Table
    BY AtWork DEF OrderedInv, OnTables
  <2>4. stage[q] = "erasing" => state'[s] = state[s]
    BY <2>1, NobodyErases DEF Quiet
  <2>5. used'[s] \subseteq Table /\ (stage[q] = "marking" => ToRestore(q) \in Table)
    BY AtWork DEF OrderedInv, RecordTypes
  <2>6. QED
    BY <1>3, <2>1, <2>2, <2>3, <2>4, <2>5, OthersHold DEF Quiet
<1>4. Kept(s, i)'
  <2>1. /\ state'[s] = "SUSPENDING" => used'[s] = {}
        /\ state'[s] = "RECOVERED" => used'[s] = Table
    <3>1. used'[s] \subseteq Table
      BY DEF RecordTypes
    <3>2. QED
      BY <3>1 DEF Quiet, Kept, Sound
  <2>2. Left(s)' => \A t \in Table : Done(s, t)'
    BY <1>1 DEF Quiet, Kept, Sound, Left
  <2>3. ~ NoneOpen(i)' => \A t \in Immediate : Done(s, t)'
    BY <1>1, <1>2 DEF Quiet, Kept, Sound
  <2>4. \A t \in Table :
          /\ content'[i][t] = {} => Done(s, t)'
          /\ IF backup'[s][t] = {} THEN Original(i, t)'
             ELSE "original" \in backup'[s][t] /\ (t \in used'[s] => Original(i, t)')
    BY <1>1 DEF Quiet, Kept, Sound, Original
  <2>5. QED
    BY <2>1, <2>2, <2>3, <2>4 DEF Kept
<1>5. QED
  BY <1>3, <1>4 DEF Sound

LEMMA SoundMove ==
  ASSUME OrderedInv, OrderedInv', NEW p \in Process, Moves(p), ~ CreateRecord(p),
         NEW i \in Identity, i \notin overlapped, Deals(p, i),
         SuspensionsOf(i) \cap closed = {}, SuspensionsOf(i) \cap skipped' = {},
         NEW s \in Suspension, holder[s] = i, Latest(s), Sound(s, i)
  PROVE  Sound(s, i)'
<1>a. /\ SafetyInv /\ AtRest /\ Ordered(i) /\ Knows(p) /\ Tables(p) /\ AccountTypes
      /\ RecordTypes /\ ProcessTypes
  BY TypeParts DEF OrderedInv, SafetyInv, OrderInv
<1>b. RecordTypes'
  BY DEF OrderedInv, SafetyInv, TypeOK, RecordTypes
<1>0. /\ SafetyInv /\ AtRest /\ Ordered(i) /\ Knows(p) /\ Tables(p) /\ AccountTypes
      /\ RecordTypes /\ ProcessTypes /\ RecordTypes' /\ Around(p)
  BY <1>a, <1>b, OnlyOneMoves
<1>held. who[p] = i => Holds(p, s, i)
  BY DEF Sound
<1>mine. /\ who[p] = i /\ record[p] \in Suspension => record[p] = s
         /\ stage[p] = "idle" => who[p] # i
  BY <1>0, WorksForLatest, NoIdentityAssumption DEF AtRest
<1>done. Left(s) => \A t \in Table : Done(s, t)
  BY DEF Sound, Kept
<1>1. ASSUME NEW j \in Identity, p \in Caller, requestSuspension(p, j)
      PROVE  Sound(s, i)'
  <2>1. stage'[p] = "suspending" /\ UNCHANGED <<status, owner, content, state, backup, used>>
    BY <1>1, <1>0 DEF requestSuspension, Begin, Goto, ProcessTypes, tableVars, accountVars, recordVars, backupVars
  <2>2. Quiet(p, s, i)
    BY <2>1 DEF Quiet, Original, NoneOpen, Open, RequestsOf
  <2>3. Holds(p, s, i)'
    BY <2>1 DEF Holds, Cleared, OnTables
  <2>4. QED
    BY <1>0, <2>2, <2>3, QuietStep
<1>2. ASSUME NEW j \in Identity, p \in Caller, recoverAccount(p, j)
      PROVE  Sound(s, i)'
  <2>1. stage'[p] = "validated" /\ UNCHANGED <<status, owner, content, state, backup, used>>
    BY <1>2, <1>0 DEF recoverAccount, Begin, Goto, ProcessTypes, tableVars, accountVars, recordVars, backupVars
  <2>2. Quiet(p, s, i)
    BY <2>1 DEF Quiet, Original, NoneOpen, Open, RequestsOf
  <2>3. Holds(p, s, i)'
    BY <2>1 DEF Holds, Cleared, OnTables
  <2>4. QED
    BY <1>0, <2>2, <2>3, QuietStep
<1>3. CASE p \in Caller /\ suspendIdentity(p)
  <2>1. stage'[p] = "recording" /\ UNCHANGED <<status, owner, content, state, backup, used>>
    BY <1>3, <1>0 DEF suspendIdentity, Goto, ProcessTypes, tableVars, accountVars, recordVars, backupVars
  <2>2. Quiet(p, s, i)
    BY <2>1 DEF Quiet, Original, NoneOpen, Open, RequestsOf
  <2>3. Holds(p, s, i)'
    BY <2>1 DEF Holds, Cleared, OnTables
  <2>4. QED
    BY <1>0, <2>2, <2>3, QuietStep
<1>4. CASE p \in Caller /\ CreateRecord(p)
  BY <1>4
<1>5. CASE p \in Caller /\ CreateRequest(p)
  <2>1. /\ stage[p] = "requesting" /\ stage'[p] = "idle" /\ who'[p] # i
        /\ UNCHANGED <<content, state, backup, used>>
    BY <1>5, <1>0, NoIdentityAssumption
       DEF CreateRequest, Leave, Goto, ProcessTypes, accountVars, recordVars, backupVars
  <2>2. who[p] = i
    BY <2>1 DEF Deals
  <2>3. \A t \in Immediate : Done(s, t)
    BY <2>1, <2>2, <1>held DEF Holds, Cleared, OnTables
  <2>4. Quiet(p, s, i)
    BY <2>1, <2>3 DEF Quiet, Original
  <2>5. QED
    BY <1>0, <2>1, <2>4, QuietStep
<1>6. CASE p \in Caller /\ getActiveSuspension(p)
  <2>1. /\ \/ stage'[p] = "idle" /\ who'[p] # i
           \/ stage'[p] = "collecting"
        /\ UNCHANGED <<status, owner, content, state, backup, used>>
    BY <1>6, <1>0, NoIdentityAssumption
       DEF getActiveSuspension, Leave, Goto, ProcessTypes, tableVars, accountVars, recordVars, backupVars
  <2>2. Quiet(p, s, i)
    BY <2>1 DEF Quiet, Original, NoneOpen, Open, RequestsOf
  <2>3. who'[p] = i => Holds(p, s, i)'
    BY <2>1 DEF Holds, Cleared, OnTables
  <2>4. QED
    BY <1>0, <2>2, <2>3, QuietStep
<1>7. CASE p \in Caller /\ CollectBackups(p)
  <2>1. /\ stage[p] = "collecting" /\ todo'[p] = Unused(record[p])
        /\ memory'[p] = backup[record[p]]
        /\ stage'[p] = IF Unused(record[p]) = {} THEN "recovering" ELSE "restoring"
        /\ UNCHANGED <<status, owner, content, state, backup, used>>
    BY <1>7, <1>0 DEF CollectBackups, Goto, ProcessTypes, tableVars, accountVars, recordVars, backupVars
  <2>2. who[p] = i /\ record[p] = s /\ Left(s)
    BY <2>1, <1>0, <1>mine DEF Deals, Knows, Ordered, InOrder, Ending
  <2>3. \A t \in Table : backup[s][t] # {}
    BY <2>2, <1>done DEF Done
  <2>4. Table \ todo'[p] \subseteq used[s]
    BY <2>1, <2>2, <2>3 DEF Unused
  <2>5. todo'[p] = {} => used[s] = Table
    BY <2>4, <1>0 DEF RecordTypes
  <2>6. Quiet(p, s, i)
    BY <2>1 DEF Quiet, Original, NoneOpen, Open, RequestsOf
  <2>7. Holds(p, s, i)'
    BY <2>1, <2>2, <2>4, <2>5 DEF Holds, Cleared, OnTables
  <2>8. QED
    BY <1>0, <2>6, <2>7, QuietStep
<1>8. CASE p \in Caller /\ RestoreRows(p)
  <2>1. /\ stage[p] = "restoring" /\ stage'[p] = "marking"
        /\ UNCHANGED <<status, owner, state, backup, used, todo, memory>>
    BY <1>8, <1>0 DEF RestoreRows, Goto, ProcessTypes, tableVars, recordVars
  <2>2. /\ who[p] = i /\ record[p] = s /\ Left(s) /\ Holds(p, s, i)
        /\ ToRestore(p) \in todo[p] /\ ToRestore(p) \in Table
    BY <2>1, <1>0, <1>mine, <1>held, AtWork DEF Deals, Knows, Ordered, InOrder, Ending
  <2>3. memory[p] = backup[s] /\ Table \ todo[p] \subseteq used[s]
    BY <2>1, <2>2 DEF Holds
  <2>4. \A t \in Table : "original" \in backup[s][t] /\ (t \in used[s] => Original(i, t))
    BY <2>2, <1>done DEF Done, Sound, Kept
  <2>5. ~ (ToRestore(p) = "channels" /\ content[i]["settings"] = {})
    <3>1. SUFFICES ASSUME ToRestore(p) = "channels", content[i]["settings"] = {}
                   PROVE  FALSE
      OBVIOUS
    <3>2. "settings" \notin todo[p]
      BY <1>0, <3>1, SettingsFirst DEF ToRestore, ProcessTypes
    <3>3. QED
      BY <2>3, <2>4, <3>1, <3>2 DEF Original, Table, Immediate
  <2>6. s \notin skipped'
    BY DEF SuspensionsOf
  <2>7. content' = [content EXCEPT ![i] =
                      Restored(content[i], ToRestore(p), memory[p][ToRestore(p)])]
    BY <1>8, <2>2, <2>5, <2>6 DEF RestoreRows
  <2>8. content'[i] = Restored(content[i], ToRestore(p), backup[s][ToRestore(p)])
    BY <1>0, <2>3, <2>7 DEF AccountTypes
  <2>9. /\ "original" \in content'[i][ToRestore(p)]
        /\ \A t \in Table : t # ToRestore(p) => content'[i][t] = content[i][t]
    BY <1>0, <2>2, <2>4, <2>8 DEF Restored, AccountTypes
  <2>10. Quiet(p, s, i)
    BY <2>1, <2>9 DEF Quiet, Original, NoneOpen, Open, RequestsOf
  <2>11. ToRestore(p)' = ToRestore(p)
    BY <2>1 DEF ToRestore
  <2>12. Holds(p, s, i)'
    BY <2>1, <2>3, <2>9, <2>11 DEF Holds, Cleared, OnTables, Original
  <2>13. QED
    BY <1>0, <2>10, <2>12, QuietStep
<1>9. CASE p \in Caller /\ MarkUsed(p)
  <2>1. /\ stage[p] = "marking" /\ UNCHANGED <<status, owner, content, state, backup>>
    BY <1>9 DEF MarkUsed, tableVars, accountVars, recordVars
  <2>2. /\ who[p] = i /\ record[p] = s /\ Left(s) /\ Holds(p, s, i)
        /\ ToRestore(p) \in todo[p] /\ ToRestore(p) \in Table
    BY <2>1, <1>0, <1>mine, <1>held, AtWork DEF Deals, Knows, Ordered, InOrder, Ending
  <2>3. backup[s][ToRestore(p)] # {} /\ state[s] # "SUSPENDING" /\ Original(i, ToRestore(p))
    BY <2>1, <2>2, <1>done DEF Done, Left, Holds
  <2>4. /\ used' = [used EXCEPT ![s] = @ \cup {ToRestore(p)}]
        /\ todo'[p] = todo[p] \ {ToRestore(p)} /\ memory'[p] = memory[p]
        /\ stage'[p] = IF todo[p] = {ToRestore(p)} THEN "recovering" ELSE "restoring"
    BY <1>9, <1>0, <2>2, <2>3 DEF MarkUsed, Advance, Goto, ProcessTypes
  <2>5. used'[s] = used[s] \cup {ToRestore(p)} /\ used'[s] \subseteq Table
    BY <1>0, <2>4 DEF RecordTypes
  <2>6. state[s] = "RECOVERED" => used'[s] = Table
    BY <2>5 DEF Sound, Kept
  <2>7. Quiet(p, s, i)
    BY <2>1, <2>3, <2>4, <2>5, <2>6 DEF Quiet, Original, NoneOpen, Open, RequestsOf
  <2>8. /\ Table \ todo'[p] \subseteq used'[s] /\ memory'[p] = backup'[s]
        /\ todo[p] = {ToRestore(p)} => used'[s] = Table
    BY <2>1, <2>2, <2>4, <2>5 DEF Holds
  <2>9. Holds(p, s, i)'
    BY <2>4, <2>8 DEF Holds, Cleared, OnTables
  <2>10. QED
    BY <1>0, <2>7, <2>9, QuietStep
<1>10. CASE p \in Caller /\ MarkRecovered(p)
  <2>1. /\ stage[p] = "recovering" /\ stage'[p] = "resuming"
        /\ state' = [state EXCEPT ![record[p]] = "RECOVERED"]
        /\ UNCHANGED <<status, owner, content, backup, used>>
    BY <1>10, <1>0 DEF MarkRecovered, Goto, ProcessTypes, tableVars, backupVars
  <2>2. who[p] = i /\ record[p] = s /\ Left(s) /\ used[s] = Table
    BY <2>1, <1>0, <1>mine, <1>held DEF Deals, Knows, Ordered, InOrder, Ending, Holds
  <2>3. state'[s] = "RECOVERED"
    BY <1>0, <2>1, <2>2 DEF RecordTypes
  <2>4. Quiet(p, s, i)
    BY <1>done, <2>1, <2>2, <2>3 DEF Quiet, Original, NoneOpen, Open, RequestsOf
  <2>5. Holds(p, s, i)'
    BY <2>1, <2>2 DEF Holds, Cleared, OnTables
  <2>6. QED
    BY <1>0, <2>4, <2>5, QuietStep
<1>11. CASE p \in Caller /\ resumeIdentity(p)
  <2>1. stage'[p] = "notifying" /\ UNCHANGED <<status, owner, content, state, backup, used>>
    BY <1>11, <1>0 DEF resumeIdentity, Goto, ProcessTypes, tableVars, accountVars, recordVars, backupVars
  <2>2. Quiet(p, s, i)
    BY <2>1 DEF Quiet, Original, NoneOpen, Open, RequestsOf
  <2>3. Holds(p, s, i)'
    BY <2>1 DEF Holds, Cleared, OnTables
  <2>4. QED
    BY <1>0, <2>2, <2>3, QuietStep
<1>12. CASE p \in Worker /\ Claim(p)
  <2>1. PICK r \in Request :
          /\ r \in Candidates(Request, 1) /\ ClaimRows({r})
          /\ who' = [who EXCEPT ![p] = owner[r]]
    BY <1>12 DEF Claim, Candidates, Claimable
  <2>2. stage'[p] = "claimed" /\ stage[p] = "idle" /\ UNCHANGED <<owner, content, state, backup, used>>
    BY <1>12, <1>0 DEF Claim, Goto, ProcessTypes, accountVars, recordVars, backupVars
  <2>3. owner[r] = i /\ Open(r)
    BY <1>0, <1>mine, <2>1, <2>2 DEF Deals, Candidates, Claimable, Stale, Open, ProcessTypes
  <2>4. \A t \in Immediate : Done(s, t)
    BY <2>3 DEF Sound, Kept, NoneOpen, RequestsOf
  <2>5. Quiet(p, s, i)
    BY <2>2, <2>4 DEF Quiet, Original
  <2>6. \A t \in Immediate : Done(s, t)'
    BY <1>0, <2>2, <2>4, DoneStays DEF Table
  <2>7. Holds(p, s, i)'
    BY <2>2, <2>6 DEF Holds, Cleared, OnTables
  <2>8. QED
    BY <1>0, <2>5, <2>7, QuietStep
<1>13. CASE p \in Worker /\ FindExpired(p)
  <2>1. PICK q \in closed : Begin(p, "purging", holder[q], q)
    BY <1>13 DEF FindExpired
  <2>2. holder[q] = i /\ q \in Suspension
    BY <2>1, <1>0, <1>mine DEF Deals, Begin, RecordTypes, ProcessTypes
  <2>3. QED
    BY <2>1, <2>2 DEF SuspensionsOf
<1>14. CASE p \in Worker /\ FindRecord(p)
  <2>1. /\ stage[p] = "claimed" /\ stage'[p] \in {"failing", "resolving"}
        /\ UNCHANGED <<status, owner, content, state, backup, used>>
    BY <1>14, <1>0 DEF FindRecord, Goto, ProcessTypes, tableVars, accountVars, recordVars, backupVars
  <2>2. Quiet(p, s, i)
    BY <2>1 DEF Quiet, Original, NoneOpen, Open, RequestsOf
  <2>3. \A t \in Immediate : Done(s, t)
    BY <2>1, <1>held DEF Deals, Holds, Cleared, OnTables
  <2>4. \A t \in Immediate : Done(s, t)'
    BY <1>0, <2>1, <2>3, DoneStays DEF Table
  <2>5. Holds(p, s, i)'
    BY <2>1, <2>4 DEF Holds, Cleared, OnTables
  <2>6. QED
    BY <1>0, <2>2, <2>5, QuietStep
<1>15. CASE p \in Worker /\ Complete(p)
  <2>1. /\ stage[p] = "completing" /\ UNCHANGED <<owner, content, state, backup, used>>
        /\ stage'[p] = "finishing" \/ (stage'[p] = "idle" /\ who'[p] # i)
    BY <1>15, <1>0, NoIdentityAssumption
       DEF Complete, Leave, Goto, ProcessTypes, accountVars, recordVars, backupVars
  <2>2. who[p] = i /\ \A t \in Table : Done(s, t)
    BY <2>1, <1>held DEF Deals, Holds, Cleared, OnTables
  <2>3. Quiet(p, s, i)
    BY <2>1, <2>2 DEF Quiet, Original, Table
  <2>4. \A t \in Table : Done(s, t)'
    BY <1>0, <2>1, <2>2, DoneStays
  <2>5. who'[p] = i => Holds(p, s, i)'
    BY <2>1, <2>4 DEF Holds, Cleared, OnTables
  <2>6. QED
    BY <1>0, <2>3, <2>5, QuietStep
<1>16. CASE p \in Worker /\ Finish(p)
  <2>1. /\ stage[p] = "finishing" /\ stage'[p] = "notifying"
        /\ state' = [state EXCEPT ![record[p]] = "SUSPENDED"]
        /\ UNCHANGED <<status, owner, content, backup, used>>
    BY <1>16, <1>0 DEF Finish, Goto, ProcessTypes, tableVars, accountVars, recordVars, backupVars
  <2>2. who[p] = i /\ record[p] = s /\ \A t \in Table : Done(s, t)
    BY <2>1, <1>0, <1>mine, <1>held DEF Deals, Knows, Holds, Cleared, OnTables
  <2>3. state'[s] = "SUSPENDED"
    BY <1>0, <2>1, <2>2 DEF RecordTypes
  <2>4. Quiet(p, s, i)
    BY <2>1, <2>2, <2>3 DEF Quiet, Original, NoneOpen, Open, RequestsOf
  <2>5. Holds(p, s, i)'
    BY <2>1 DEF Holds, Cleared, OnTables
  <2>6. QED
    BY <1>0, <2>4, <2>5, QuietStep
<1>17. CASE p \in Worker /\ Fail(p)
  <2>1. /\ stage'[p] = "idle" /\ who'[p] # i
        /\ UNCHANGED <<owner, content, state, backup, used>>
    BY <1>17, <1>0, NoIdentityAssumption
       DEF Fail, Leave, Goto, ProcessTypes, accountVars, recordVars, backupVars
  <2>2. NoneOpen(i) => NoneOpen(i)'
    BY <1>17, <1>0, TypeParts, <2>1
       DEF SafetyInv, tableVars, RequestTypes, TableTypeOK, Fail, markRequestFailed, GuardedUpdate, SetStatus,
           NoneOpen, Open, RequestsOf
  <2>3. Quiet(p, s, i)
    BY <2>1, <2>2 DEF Quiet, Original
  <2>4. QED
    BY <1>0, <2>1, <2>3, QuietStep
<1>18. CASE p \in Worker /\ DeleteBackups(p)
  <2>1. stage[p] = "purging"
    BY <1>18 DEF DeleteBackups
  <2>2. who[p] = i /\ record[p] \in closed /\ record[p] = s
    BY <2>1, <1>0, <1>mine DEF Deals, Knows, Finalizing
  <2>3. QED
    BY <2>2 DEF SuspensionsOf
<1>19. CASE p \in Worker /\ MarkExpired(p)
  <2>1. stage[p] = "expiring"
    BY <1>19 DEF MarkExpired
  <2>2. who[p] = i /\ record[p] \in closed /\ record[p] = s
    BY <2>1, <1>0, <1>mine DEF Deals, Knows, Finalizing
  <2>3. QED
    BY <2>2 DEF SuspensionsOf
<1>20. CASE p \in Worker /\ Throw(p)
  <2>1. stage'[p] = "failing" /\ UNCHANGED <<status, owner, content, state, backup, used>>
    BY <1>20, <1>0 DEF Throw, Abort, Goto, ProcessTypes, tableVars, accountVars, recordVars, backupVars
  <2>2. Quiet(p, s, i)
    BY <2>1 DEF Quiet, Original, NoneOpen, Open, RequestsOf
  <2>3. Holds(p, s, i)'
    BY <2>1 DEF Holds, Cleared, OnTables
  <2>4. QED
    BY <1>0, <2>2, <2>3, QuietStep
<1>21. CASE Resolve(p)
  <2>1. /\ stage[p] = "resolving" /\ stage'[p] = "loading" /\ todo'[p] = TablesOf(p)
        /\ UNCHANGED <<status, owner, content, state, backup, used>>
    BY <1>21, <1>0 DEF Resolve, Goto, ProcessTypes, tableVars, accountVars, recordVars, backupVars
  <2>2. who[p] = i
    BY <2>1 DEF Deals
  <2>3. Quiet(p, s, i)
    BY <2>1 DEF Quiet, Original, NoneOpen, Open, RequestsOf
  <2>4. \A t \in Cleared(p)' : t \in Table /\ Done(s, t)
    <3>1. CASE p \in Worker
      <4>1. Cleared(p)' = Immediate
        BY <2>1, <3>1 DEF Cleared, OnTables, TablesOf, Table
      <4>2. QED
        BY <2>1, <2>2, <3>1, <4>1, <1>held DEF Holds, Cleared, OnTables, Table
    <3>2. CASE p \notin Worker
      <4>1. Cleared(p)' = Immediate \ TablesOf(p)
        BY <2>1, <3>2 DEF Cleared, OnTables
      <4>2. TablesOf(p) = IF content[i]["settings"] = {} THEN {"settings"} ELSE Immediate
        BY <2>2, <3>2 DEF TablesOf
      <4>3. content[i]["settings"] = {} => content[i]["channels"] = {}
        BY <1>0 DEF SafetyInv, ChannelsNeedSettings
      <4>4. content[i]["channels"] = {} => Done(s, "channels")
        BY DEF Sound, Kept, Table, Immediate
      <4>5. QED
        BY <4>1, <4>2, <4>3, <4>4 DEF Table, Immediate
    <3>3. QED
      BY <3>1, <3>2
  <2>5. \A t \in Cleared(p)' : Done(s, t)'
    BY <1>0, <2>1, <2>4, DoneStays
  <2>6. Holds(p, s, i)'
    BY <2>1, <2>5 DEF Holds
  <2>7. QED
    BY <1>0, <2>3, <2>6, QuietStep
<1>22. CASE LoadRows(p)
  <2>1. /\ stage[p] = "loading" /\ who[p] = i /\ ToErase(p) \in todo[p] /\ ToErase(p) \in Table
        /\ memory'[p][ToErase(p)] = content[i][ToErase(p)]
        /\ UNCHANGED <<status, owner, content, state, backup, used>>
    BY <1>22, <1>0, AtWork DEF LoadRows, Deals, OnTables, ProcessTypes, tableVars, accountVars, recordVars, backupVars
  <2>2. \/ /\ content[i][ToErase(p)] = {} /\ todo'[p] = todo[p] \ {ToErase(p)}
           /\ stage'[p] = IF todo[p] = {ToErase(p)} THEN AfterTables(p) ELSE "loading"
        \/ content[i][ToErase(p)] # {} /\ stage'[p] = "saving" /\ todo'[p] = todo[p]
    BY <1>22, <1>0, <2>1 DEF LoadRows, Advance, Goto, ProcessTypes
  <2>3. Quiet(p, s, i)
    BY <2>1, <2>2 DEF Quiet, Original, NoneOpen, Open, RequestsOf, AfterTables
  <2>4. \A t \in Cleared(p)' : t \in Cleared(p) \/ (t = ToErase(p) /\ content[i][t] = {})
    BY <2>1, <2>2, ActorAssumption DEF Cleared, OnTables, AfterTables, Immediate, Table, Process
  <2>5. Cleared(p)' \subseteq Table
    BY DEF Cleared, Immediate, Table
  <2>6. \A t \in Cleared(p)' : Done(s, t)
    BY <2>1, <2>4, <1>held DEF Holds, Sound, Kept
  <2>7. \A t \in Cleared(p)' : Done(s, t)'
    BY <1>0, <2>3, <2>5, <2>6, DoneStays DEF Quiet, Original
  <2>8. stage'[p] = "saving" /\ backup'[s][ToErase(p)'] = {} =>
          "original" \in memory'[p][ToErase(p)']
    <3>1. SUFFICES ASSUME stage'[p] = "saving", backup'[s][ToErase(p)'] = {}
                   PROVE  "original" \in memory'[p][ToErase(p)']
      OBVIOUS
    <3>2. ToErase(p)' = ToErase(p)
      BY <2>2, <3>1 DEF ToErase, AfterTables
    <3>3. "original" \in content[i][ToErase(p)]
      BY <2>1, <3>1, <3>2 DEF Sound, Kept, Original
    <3>4. QED
      BY <2>1, <3>2, <3>3
  <2>9. Holds(p, s, i)'
    BY <2>2, <2>7, <2>8 DEF Holds, AfterTables
  <2>10. QED
    BY <1>0, <2>3, <2>9, QuietStep
<1>23. CASE CreateBackup(p)
  <2>1. /\ stage[p] = "saving" /\ who[p] = i /\ record[p] = s
        /\ ToErase(p) \in todo[p] /\ ToErase(p) \in Table /\ Holds(p, s, i)
        /\ UNCHANGED <<status, owner, content, state, used>>
    BY <1>23, <1>0, <1>mine, <1>held, AtWork
       DEF CreateBackup, Deals, Knows, Anonymizing, OnTables, tableVars, accountVars, recordVars
  <2>2. CASE backup[s][ToErase(p)] # {}
    <3>1. /\ UNCHANGED backup
          /\ stage'[p] = "failing" \/ (stage'[p] = "idle" /\ who'[p] # i)
      BY <1>23, <1>0, <2>1, <2>2, NoIdentityAssumption
         DEF CreateBackup, Abort, Leave, Goto, ProcessTypes
    <3>2. Quiet(p, s, i)
      BY <2>1, <3>1 DEF Quiet, Original, NoneOpen, Open, RequestsOf
    <3>3. who'[p] = i => Holds(p, s, i)'
      BY <3>1 DEF Holds, Cleared, OnTables
    <3>4. QED
      BY <1>0, <3>2, <3>3, QuietStep
  <2>3. CASE backup[s][ToErase(p)] = {}
    <3>1. /\ backup' = [backup EXCEPT ![s][ToErase(p)] = memory[p][ToErase(p)]]
          /\ stage'[p] = "erasing" /\ UNCHANGED <<who, record, todo, memory>>
          /\ ToErase(p)' = ToErase(p)
      BY <1>23, <1>0, <2>1, <2>3 DEF CreateBackup, Goto, ProcessTypes, ToErase
    <3>2. "original" \in memory[p][ToErase(p)]
      BY <2>1, <2>3 DEF Holds
    <3>3. /\ backup'[s][ToErase(p)] = memory[p][ToErase(p)]
          /\ \A t \in Table : t # ToErase(p) => backup'[s][t] = backup[s][t]
      BY <1>0, <2>1, <3>1 DEF RecordTypes
    <3>4. ~ Left(s) /\ state[s] = "SUSPENDING" /\ used[s] = {}
      <4>1. ~ Left(s)
        BY <2>1, <2>3, <1>done DEF Done
      <4>2. state[s] \in State /\ state[s] # "NONE"
        BY <1>0, NoIdentityAssumption DEF RecordTypes, SafetyInv, RecordsOK
      <4>3. QED
        BY <4>1, <4>2 DEF Left, State, Sound, Kept
    <3>5. ASSUME NEW t \in Table, Done(s, t)
          PROVE  Done(s, t)'
      <4>1. t # ToErase(p) /\ backup'[s][t] # {}
        BY <2>3, <3>3, <3>5 DEF Done
      <4>2. ASSUME NEW q \in Process
            PROVE  ~ Erases(q, s, t)'
        <5>1. CASE q = p
          BY <3>1, <4>1, <5>1 DEF Erases
        <5>2. CASE q # p
          BY <1>0, <3>5, <5>2 DEF Around, Done, Erases, ToErase
        <5>3. QED
          BY <5>1, <5>2
      <4>3. QED
        BY <4>1, <4>2 DEF Done
    <3>6. Kept(s, i)'
      <4>1. ~ NoneOpen(i)' => \A t \in Immediate : Done(s, t)'
        BY <2>1, <3>5 DEF Sound, Kept, NoneOpen, Open, RequestsOf, Table
      <4>2. ASSUME NEW t \in Table
            PROVE  /\ content'[i][t] = {} => Done(s, t)'
                   /\ IF backup'[s][t] = {} THEN Original(i, t)'
                      ELSE "original" \in backup'[s][t] /\ (t \in used'[s] => Original(i, t)')
        BY <2>1, <3>2, <3>3, <3>4, <3>5 DEF Sound, Kept, Original
      <4>3. QED
        BY <2>1, <3>4, <4>1, <4>2 DEF Kept, Left
    <3>7. ASSUME NEW r \in Process, NEW t \in Table, Erases(r, s, t)'
          PROVE  Erases(r, s, t) \/ (r = p /\ t = ToErase(p))
      <4>1. CASE r = p
        BY <3>1, <3>7, <4>1 DEF Erases
      <4>2. CASE r # p
        BY <1>0, <3>7, <4>2 DEF Around, Erases, ToErase
      <4>3. QED
        BY <4>1, <4>2
    <3>8. ASSUME NEW q \in Process, who'[q] = i, q # p
          PROVE  Holds(q, s, i)'
      <4>1. /\ who[q] = i /\ Holds(q, s, i) /\ stage'[q] = stage[q] /\ record'[q] = record[q]
            /\ todo'[q] = todo[q] /\ memory'[q] = memory[q] /\ ToErase(q)' = ToErase(q)
            /\ Cleared(q)' = Cleared(q)
        BY <1>0, <3>8 DEF Around, Sound, ToErase, Cleared
      <4>2. stage[q] \in {"saving", "erasing"} => ToErase(q) \in Table
        BY <1>0, AtWork DEF OnTables
      <4>3. stage[q] \notin {"restoring", "marking"}
        <5>1. SUFFICES ASSUME stage[q] \in {"restoring", "marking"}
                       PROVE  FALSE
          OBVIOUS
        <5>2. record[q] = s /\ Left(record[q])
          BY <1>0, <4>1, <5>1, WorksForLatest DEF SafetyInv, Knows, Ordered, InOrder, Ending
        <5>3. QED
          BY <3>4, <5>2
      <4>4. \A t \in Cleared(q)' : Done(s, t)'
        <5>1. Cleared(q) \subseteq Table
          BY DEF Cleared, Table, Immediate
        <5>2. QED
          BY <3>5, <4>1, <5>1 DEF Holds
      <4>5. stage'[q] = "saving" /\ backup'[s][ToErase(q)'] = {} =>
              "original" \in memory'[q][ToErase(q)']
        BY <3>2, <3>3, <4>1, <4>2 DEF Holds
      <4>6. stage'[q] = "erasing" =>
              /\ state'[s] = "SUSPENDING" /\ backup'[s][ToErase(q)'] # {}
              /\ ToErase(q)' = "settings" => Done(s, "channels")'
              /\ \A r \in Process : (Erases(r, s, ToErase(q)))' => r = q
        <5>1. SUFFICES ASSUME stage[q] = "erasing"
                       PROVE  /\ state'[s] = "SUSPENDING" /\ backup'[s][ToErase(q)] # {}
                              /\ ToErase(q) = "settings" => Done(s, "channels")'
                              /\ \A r \in Process : (Erases(r, s, ToErase(q)))' => r = q
          BY <4>1
        <5>2. /\ backup[s][ToErase(q)] # {} /\ ToErase(q) # ToErase(p)
              /\ ToErase(q) = "settings" => Done(s, "channels")
              /\ \A r \in Process : Erases(r, s, ToErase(q)) => r = q
          BY <2>3, <4>1, <5>1 DEF Holds
        <5>3. ASSUME NEW r \in Process, (Erases(r, s, ToErase(q)))'
              PROVE  r = q
          <6>1. PICK t \in Table : t = ToErase(q)
            BY <4>2, <5>1
          <6>2. Erases(r, s, t)'
            BY <4>1, <5>3, <6>1 DEF Erases
          <6>3. Erases(r, s, t)
            BY <3>7, <5>2, <6>1, <6>2
          <6>4. QED
            BY <5>2, <6>1, <6>3
        <5>4. QED
          BY <2>1, <3>3, <3>4, <3>5, <4>2, <5>1, <5>2, <5>3 DEF Table, Immediate
      <4>7. stage'[q] \in {"recovering", "resuming"} => used'[s] = Table
        BY <2>1, <4>1 DEF Holds
      <4>8. QED
        BY <4>1, <4>3, <4>4, <4>5, <4>6, <4>7 DEF Holds
    <3>9. Holds(p, s, i)'
      <4>1. Cleared(p)' = Cleared(p)
        BY <2>1, <3>1 DEF Cleared, OnTables
      <4>2. \A t \in Cleared(p)' : Done(s, t)'
        <5>1. Cleared(p) \subseteq Table
          BY DEF Cleared, Table, Immediate
        <5>2. QED
          BY <2>1, <3>5, <4>1, <5>1 DEF Holds
      <4>3. ToErase(p) = "settings" => Done(s, "channels")'
        <5>1. SUFFICES ASSUME ToErase(p) = "settings"
                       PROVE  Done(s, "channels")'
          OBVIOUS
        <5>2. "channels" \notin todo[p]
          BY <1>0, <2>1, <5>1, FirstOfTables DEF ToErase, ProcessTypes
        <5>3. p \notin Worker
          BY <1>0, <2>1, <5>1 DEF Tables, OnTables
        <5>4. "channels" \in Cleared(p)
          BY <2>1, <5>2, <5>3 DEF Cleared, OnTables, Immediate
        <5>5. QED
          BY <2>1, <3>5, <5>4 DEF Holds, Table, Immediate
      <4>4. ASSUME NEW r \in Process, (Erases(r, s, ToErase(p)))'
            PROVE  r = p
        <5>1. PICK t \in Table : t = ToErase(p)
          BY <2>1
        <5>2. Erases(r, s, t)'
          BY <3>1, <4>4, <5>1 DEF Erases
        <5>3. CASE Erases(r, s, t)
          <6>1. who[r] = i
            BY <1>0, <2>1, <5>3 DEF Erases, SafetyInv, Knows
          <6>2. Holds(r, s, i) /\ ToErase(r) = ToErase(p) /\ stage[r] = "erasing"
            BY <5>1, <5>3, <6>1 DEF Sound, Erases
          <6>3. QED
            BY <2>3, <6>2 DEF Holds
        <5>4. QED
          BY <3>7, <5>2, <5>3
      <4>5. QED
        BY <2>1, <3>1, <3>2, <3>3, <3>4, <4>2, <4>3, <4>4 DEF Holds
    <3>10. QED
      BY <3>1, <3>6, <3>8, <3>9 DEF Sound
  <2>4. QED
    BY <2>2, <2>3
<1>24. CASE EraseRows(p)
  <2>1. /\ stage[p] = "erasing" /\ who[p] = i /\ record[p] = s
        /\ ToErase(p) \in todo[p] /\ ToErase(p) \in Table
        /\ content' = [content EXCEPT ![i] = Erased(content[i], ToErase(p))]
        /\ todo'[p] = todo[p] \ {ToErase(p)}
        /\ stage'[p] = IF todo[p] = {ToErase(p)} THEN AfterTables(p) ELSE "loading"
        /\ UNCHANGED <<status, owner, state, backup, used>>
    BY <1>24, <1>0, <1>mine, AtWork
       DEF EraseRows, Advance, Goto, Deals, Knows, Anonymizing, OnTables, ProcessTypes,
           tableVars, recordVars, backupVars
  <2>2. /\ state[s] = "SUSPENDING" /\ used[s] = {} /\ backup[s][ToErase(p)] # {}
        /\ ToErase(p) = "settings" => Done(s, "channels")
        /\ \A q \in Process : Erases(q, s, ToErase(p)) => q = p
    BY <2>1, <1>held DEF Holds, Sound, Kept
  <2>3. stage'[p] # "erasing"
    BY <2>1 DEF AfterTables
  <2>4. \A t \in Table : Done(s, t) => Done(s, t)'
    BY <1>0, <2>1, <2>3, DoneStays
  <2>5. ASSUME NEW t \in Table, t = ToErase(p)
        PROVE  Done(s, t)'
    <3>1. \A q \in Process : ~ Erases(q, s, t)'
      BY <1>0, <2>2, <2>3, <2>5 DEF Around, Erases, ToErase
    <3>2. QED
      BY <2>1, <2>2, <2>5, <3>1 DEF Done
  <2>6. content[i] \in [Table -> SUBSET Row] /\ content'[i] = Erased(content[i], ToErase(p))
    BY <1>0, <2>1 DEF AccountTypes
  <2>7. \A t \in Table : \/ t = ToErase(p) \/ (ToErase(p) = "settings" /\ t = "channels")
                         \/ content'[i][t] = content[i][t]
    BY <2>1, <2>6, ErasedElsewhere
  <2>8. Kept(s, i)'
    <3>1. ~ NoneOpen(i)' => \A t \in Immediate : Done(s, t)'
      BY <2>1, <2>4 DEF Sound, Kept, NoneOpen, Open, RequestsOf, Table
    <3>2. ASSUME NEW t \in Table
          PROVE  /\ content'[i][t] = {} => Done(s, t)'
                 /\ IF backup'[s][t] = {} THEN Original(i, t)'
                    ELSE "original" \in backup'[s][t] /\ (t \in used'[s] => Original(i, t)')
      <4>1. CASE t = ToErase(p)
        BY <2>1, <2>2, <2>5, <4>1 DEF Sound, Kept
      <4>2. CASE ToErase(p) = "settings" /\ t = "channels"
        BY <2>1, <2>2, <2>4, <4>2 DEF Sound, Kept, Done
      <4>3. CASE content'[i][t] = content[i][t]
        BY <2>1, <2>2, <2>4, <4>3 DEF Sound, Kept, Original
      <4>4. QED
        BY <2>7, <4>1, <4>2, <4>3
    <3>3. QED
      BY <2>1, <2>2, <3>1, <3>2 DEF Kept, Left
  <2>9. who[p] = i /\ Holds(p, s, i)'
    <3>1. \A t \in Cleared(p)' : t \in Cleared(p) \/ t = ToErase(p)
      BY <2>1, ActorAssumption DEF Cleared, OnTables, AfterTables, Immediate, Table, Process
    <3>2. Cleared(p)' \subseteq Table
      BY DEF Cleared, Immediate, Table
    <3>3. \A t \in Cleared(p)' : Done(s, t)'
      BY <2>1, <2>4, <2>5, <3>1, <3>2, <1>held DEF Holds
    <3>4. QED
      BY <2>1, <3>3 DEF Holds, AfterTables
  <2>10. ASSUME NEW q \in Process, who'[q] = i, q # p
         PROVE  Holds(q, s, i)'
    <3>1. who[q] = i /\ Holds(q, s, i)
      BY <1>0, <2>10 DEF Around, Sound
    <3>2. Cleared(q) \subseteq Table
      BY DEF Cleared, Table, Immediate
    <3>3. stage[q] \in {"saving", "erasing"} => ToErase(q) \in Table
      BY <1>0, AtWork DEF OnTables
    <3>4. stage[q] # "marking"
      <4>1. SUFFICES ASSUME stage[q] = "marking"
                     PROVE  FALSE
        OBVIOUS
      <4>2. record[q] = s /\ Left(record[q])
        BY <1>0, <3>1, <4>1, WorksForLatest DEF SafetyInv, Knows, Ordered, InOrder, Ending
      <4>3. QED
        BY <2>2, <4>2 DEF Left
    <3>5. used'[s] \subseteq Table
      BY <1>0 DEF RecordTypes
    <3>6. QED
      BY <1>0, <2>1, <2>3, <2>10, <3>1, <3>2, <3>3, <3>4, <3>5, OthersHold
  <2>11. QED
    BY <2>8, <2>9, <2>10 DEF Sound
<1>25. CASE Notify(p)
  <2>1. /\ stage'[p] = "idle" /\ who'[p] # i
        /\ content' = [content EXCEPT ![who[p]]["log"] = @ \cup {"notice"}]
        /\ UNCHANGED <<status, owner, state, backup, used>>
    BY <1>25, <1>0, NoIdentityAssumption
       DEF Notify, Leave, Goto, ProcessTypes, tableVars, accountVars, recordVars, backupVars
  <2>2. \A t \in Table : content[i][t] \subseteq content'[i][t]
    BY <1>0, <2>1 DEF AccountTypes, Table
  <2>3. Quiet(p, s, i)
    BY <2>1, <2>2 DEF Quiet, Original, NoneOpen, Open, RequestsOf
  <2>4. QED
    BY <1>0, <2>1, <2>3, QuietStep
<1>26. CASE Crash(p)
  <2>1. /\ stage'[p] = "idle" /\ who'[p] # i
        /\ UNCHANGED <<status, owner, content, state, backup, used>>
    BY <1>26, <1>0, NoIdentityAssumption DEF Crash, Leave, Goto, ProcessTypes, tableVars, accountVars, recordVars, backupVars
  <2>2. Quiet(p, s, i)
    BY <2>1 DEF Quiet, Original, NoneOpen, Open, RequestsOf
  <2>3. QED
    BY <1>0, <2>1, <2>2, QuietStep
<1>27. QED
  BY <1>1, <1>2, <1>3, <1>4, <1>5, <1>6, <1>7, <1>8, <1>9, <1>10, <1>11, <1>12, <1>13,
     <1>14, <1>15, <1>16, <1>17, <1>18, <1>19, <1>20, <1>21, <1>22, <1>23, <1>24, <1>25,
     <1>26
     DEF Moves, CallerStep, WorkerStep, ProcessStep


LEMMA SoundFrame ==
  ASSUME SafetyInv, SafetyInv', NEW i \in Identity, Untouched(i),
         NEW s \in Suspension, holder[s] = i, Sound(s, i)
  PROVE  Sound(s, i)'
<1>0. RecordTypes /\ Immediate \subseteq Table
  BY TypeParts DEF SafetyInv, Table
<1>1. \A p \in Process : who'[p] = i =>
        /\ who[p] = i /\ stage'[p] = stage[p] /\ record'[p] = record[p]
        /\ todo'[p] = todo[p] /\ memory'[p] = memory[p]
  BY DEF Untouched
<1>2. \A p \in Process : record'[p] = s => who'[p] = i
  BY DEF Untouched, SafetyInv, Knows
<1>3. /\ content'[i] = content[i] /\ state'[s] = state[s] /\ backup'[s] = backup[s]
      /\ used'[s] = used[s]
  BY DEF Untouched
<1>4. \A p \in Process, t \in Table : Erases(p, s, t)' => Erases(p, s, t)
  BY <1>1, <1>2 DEF Erases, ToErase
<1>5. \A t \in Table : Done(s, t) => Done(s, t)'
  BY <1>3, <1>4 DEF Done
<1>6. (NoneOpen(i)' <=> NoneOpen(i)) /\ (Left(s)' <=> Left(s))
  BY <1>3 DEF NoneOpen, RequestsOf, Untouched, Left
<1>7. \A t \in Table : Original(i, t)' <=> Original(i, t)
  BY <1>3 DEF Original
<1>8. Kept(s, i)'
  BY <1>0, <1>3, <1>5, <1>6, <1>7 DEF Sound, Kept
<1>9. ASSUME NEW p \in Process, who'[p] = i
      PROVE  Holds(p, s, i)'
  <2>1. /\ who[p] = i /\ stage'[p] = stage[p] /\ record'[p] = record[p]
        /\ todo'[p] = todo[p] /\ memory'[p] = memory[p]
        /\ Holds(p, s, i)
    BY <1>1, <1>9 DEF Sound
  <2>2. /\ Cleared(p)' = Cleared(p) /\ Cleared(p) \subseteq Table
        /\ ToErase(p)' = ToErase(p) /\ ToRestore(p)' = ToRestore(p)
    BY <2>1 DEF Cleared, ToErase, ToRestore, Table, Immediate
  <2>3. "channels" \in Table
    BY DEF Table, Immediate
  <2>4. \A t \in Cleared(p)' : Done(s, t)'
    BY <2>1, <2>2, <1>5 DEF Holds
  <2>5. stage'[p] = "saving" /\ backup'[s][ToErase(p)'] = {} =>
          "original" \in memory'[p][ToErase(p)']
    BY <2>1, <2>2, <1>3 DEF Holds
  <2>6. stage'[p] = "erasing" =>
          /\ state'[s] = "SUSPENDING" /\ backup'[s][ToErase(p)'] # {}
          /\ ToErase(p)' = "settings" => Done(s, "channels")'
          /\ \A q \in Process : (Erases(q, s, ToErase(p)))' => q = p
    <3>1. SUFFICES ASSUME stage[p] = "erasing"
                   PROVE  /\ state'[s] = "SUSPENDING" /\ backup'[s][ToErase(p)'] # {}
                          /\ ToErase(p)' = "settings" => Done(s, "channels")'
                          /\ \A q \in Process : (Erases(q, s, ToErase(p)))' => q = p
      BY <2>1
    <3>2. \A q \in Process : (Erases(q, s, ToErase(p)))' => Erases(q, s, ToErase(p))
      BY <1>1, <1>2, <2>2 DEF Erases, ToErase
    <3>3. QED
      BY <3>1, <3>2, <2>1, <2>2, <2>3, <1>3, <1>5 DEF Holds
  <2>7. stage'[p] \in {"restoring", "marking"} =>
          memory'[p] = backup'[s] /\ Table \ todo'[p] \subseteq used'[s]
    BY <2>1, <1>3 DEF Holds
  <2>8. stage'[p] = "marking" => Original(i, ToRestore(p))'
    <3>1. SUFFICES ASSUME stage[p] = "marking"
                   PROVE  "original" \in content'[i][ToRestore(p)']
      BY <2>1 DEF Original
    <3>2. "original" \in content[i][ToRestore(p)]
      BY <3>1, <2>1 DEF Holds, Original
    <3>3. QED
      BY <3>2, <2>2, <1>3
  <2>9. stage'[p] \in {"recovering", "resuming"} => used'[s] = Table
    BY <2>1, <1>3 DEF Holds
  <2>10. QED
    BY <2>4, <2>5, <2>6, <2>7, <2>8, <2>9 DEF Holds
<1>10. QED
  BY <1>8, <1>9 DEF Sound

(* An account whose previous suspension was recovered starts the next one  *)
(* with everything it had.                                                 *)
LEMMA NewIsWhole ==
  ASSUME OrderedInv, OrderedInv', NEW c \in Caller, CreateRecord(c), NEW i \in Identity,
         who[c] = i, Undisturbed(i), Whole(i)
  PROVE  Whole(i)'
<1>1. /\ SafetyInv /\ AtRest /\ Ordered(i) /\ c \in Process /\ Knows(c) /\ RecordTypes
      /\ ProcessTypes /\ i \notin overlapped
  BY TypeParts DEF OrderedInv, OrderInv, SafetyInv, Process, Undisturbed
<1>2. PICK n \in Suspension :
        /\ state[n] = "NONE" /\ state' = [state EXCEPT ![n] = "SUSPENDING"]
        /\ holder' = [holder EXCEPT ![n] = i]
  BY DEF CreateRecord
<1>3. /\ stage[c] = "recording" /\ stage' = [stage EXCEPT ![c] = "resolving"]
      /\ UNCHANGED <<status, owner, content, backup, used, who, todo, memory>>
  BY DEF CreateRecord, Goto, tableVars, accountVars, backupVars
<1>4. Alone(c, i) /\ AllOver(i) /\ NoneOpen(i)
  BY <1>1, <1>3 DEF Ordered, Alone, Calling, Outside
<1>5. backup[n] = Nothing /\ used[n] = {}
  BY <1>1, <1>2 DEF AtRest
<1>6. \A q \in SuspensionsOf(i) : q < n
  BY <1>1, <1>2, NoIdentityAssumption DEF AtRest, SuspensionsOf, SafetyInv, RecordsOK
<1>7. \A q \in Suspension : holder'[q] = i <=> q = n \/ holder[q] = i
  BY <1>1, <1>2 DEF RecordTypes
<1>8. holder'[n] = i /\ state'[n] = "SUSPENDING"
  BY <1>1, <1>2 DEF RecordTypes
<1>9. Latest(n)'
  BY <1>6, <1>7, <1>8, SuspensionAssumption DEF Latest, SuspensionsOf
<1>10. \A t \in Table : Original(i, t)
  <2>1. CASE SuspensionsOf(i) = {}
    BY <2>1 DEF Whole
  <2>2. CASE SuspensionsOf(i) # {}
    <3>1. PICK s \in SuspensionsOf(i) : Latest(s) /\ Kept(s, i)
      BY <2>2 DEF Whole, Sound
    <3>2. state[s] = "RECOVERED"
      BY <3>1, <1>4 DEF AllOver, Over, Undisturbed, OrderedInv, ExpiryInv, SuspensionsOf
    <3>3. \A t \in Table : Done(s, t) /\ t \in used[s]
      BY <3>1, <3>2 DEF Kept, Left
    <3>4. QED
      BY <3>1, <3>3 DEF Kept, Done
  <2>3. QED
    BY <2>1, <2>2
<1>11. Kept(n, i)'
  <2>1. NoneOpen(i)'
    BY <1>3, <1>4 DEF NoneOpen, RequestsOf, Open
  <2>2. \A t \in Table : backup'[n][t] = {} /\ Original(i, t)'
    BY <1>3, <1>5, <1>10 DEF Nothing, Original
  <2>3. \A t \in Table : content'[i][t] # {}
    BY <2>2 DEF Original
  <2>4. used'[n] = {}
    BY <1>3, <1>5
  <2>5. QED
    BY <1>8, <2>1, <2>2, <2>3, <2>4 DEF Kept, Left
<1>12. ASSUME NEW p \in Process, who'[p] = i
       PROVE  Holds(p, n, i)'
  <2>1. p = c
    BY <1>3, <1>4, <1>12 DEF Alone
  <2>2. stage'[p] = "resolving"
    BY <1>1, <1>3, <2>1 DEF ProcessTypes
  <2>3. Cleared(p)' = {}
    BY <2>1, <2>2, ActorAssumption DEF Cleared, OnTables
  <2>4. QED
    BY <2>2, <2>3 DEF Holds
<1>13. Sound(n, i)'
  BY <1>11, <1>12 DEF Sound
<1>14. \A s \in Suspension : holder'[s] = i /\ Latest(s)' => s = n
  BY <1>6, <1>7, <1>8, SuspensionAssumption DEF Latest, SuspensionsOf
<1>15. QED
  BY <1>8, <1>9, <1>13, <1>14 DEF Whole, SuspensionsOf

LEMMA SameHolders ==
  ASSUME NEW p \in Process, Moves(p), ~ CreateRecord(p)
  PROVE  holder' = holder
BY DEF Moves, recordVars, CallerStep, WorkerStep, ProcessStep, requestSuspension,
       recoverAccount, suspendIdentity, CreateRequest, getActiveSuspension, CollectBackups,
       RestoreRows, MarkUsed, MarkRecovered, resumeIdentity, Claim, FindExpired, FindRecord,
       Complete, Finish, Fail, DeleteBackups, MarkExpired, Throw, Resolve, LoadRows,
       CreateBackup, EraseRows, Notify, Crash

LEMMA SkippedGrows == [Next]_vars => skipped \subseteq skipped'
BY DEF Next, vars, backupVars, CallerStep, WorkerStep, ProcessStep, requestSuspension,
       recoverAccount, suspendIdentity, CreateRecord, CreateRequest, getActiveSuspension,
       CollectBackups, RestoreRows, MarkUsed, MarkRecovered, resumeIdentity, Claim,
       FindExpired, FindRecord, Complete, Finish, Fail, DeleteBackups, MarkExpired, Throw,
       Resolve, LoadRows, CreateBackup, EraseRows, Notify, Crash, WindowCloses,
       CooldownPasses, Tick

LEMMA UndisturbedBefore ==
  ASSUME SafetyInv, [Next]_vars, NEW i \in Identity, Undisturbed(i)'
  PROVE  Undisturbed(i)
<1>1. /\ \A s \in SuspensionsOf(i) : holder'[s] = i
      /\ closed \subseteq closed'
  BY HolderStep DEF SuspensionsOf
<1>2. QED
  BY <1>1, OverlappedGrows, SkippedGrows DEF Undisturbed, SuspensionsOf

(* Nobody touches the rows of an account that was never suspended.         *)
LEMMA NeverSuspended ==
  ASSUME SafetyInv, NEW p \in Process, Moves(p), NEW i \in Identity, SuspensionsOf(i) = {},
         NEW t \in Table, Original(i, t)
  PROVE  Original(i, t)'
<1>0. AccountTypes /\ RecordTypes /\ ProcessTypes /\ Knows(p)
  BY TypeParts DEF SafetyInv
<1>1. CASE content' = content
  BY <1>1 DEF Original
<1>2. CASE EraseRows(p)
  <2>1. who[p] # i
    BY <1>0, <1>2 DEF EraseRows, Knows, Anonymizing, SuspensionsOf
  <2>2. QED
    BY <1>0, <1>2, <2>1 DEF EraseRows, AccountTypes, Original
<1>3. CASE RestoreRows(p)
  <2>1. who[p] # i
    BY <1>0, <1>3 DEF RestoreRows, Knows, SuspensionsOf
  <2>2. QED
    BY <1>0, <1>3, <2>1 DEF RestoreRows, AccountTypes, Original
<1>4. CASE Notify(p)
  BY <1>0, <1>4 DEF Notify, AccountTypes, Original
<1>5. QED
  BY <1>1, <1>2, <1>3, <1>4
     DEF Moves, accountVars, CallerStep, WorkerStep, ProcessStep, requestSuspension,
         recoverAccount, suspendIdentity, CreateRecord, CreateRequest, getActiveSuspension,
         CollectBackups, MarkUsed, MarkRecovered, resumeIdentity, Claim, FindExpired,
         FindRecord, Complete, Finish, Fail, DeleteBackups, MarkExpired, Throw, Resolve,
         LoadRows, CreateBackup, Crash

LEMMA WholeInit == Init => WholeInv
<1> SUFFICES ASSUME Init, NEW i \in Identity
             PROVE  Whole(i)
  BY DEF WholeInv
<1>1. SuspensionsOf(i) = {}
  BY NoIdentityAssumption DEF Init, SuspensionsOf
<1>2. \A t \in Table : Original(i, t)
  BY DEF Init, Original
<1>3. QED
  BY <1>1, <1>2 DEF Whole

LEMMA WholeStep ==
  ASSUME OrderedInv, OrderedInv', WholeInv, [Next]_vars
  PROVE  WholeInv'
<1> SUFFICES ASSUME NEW i \in Identity, Undisturbed(i)'
             PROVE  Whole(i)'
  BY DEF WholeInv
<1>1. /\ Undisturbed(i) /\ i \notin overlapped /\ SafetyInv /\ SafetyInv' /\ AtRest
      /\ Whole(i)
  BY UndisturbedBefore DEF OrderedInv, WholeInv, Undisturbed
<1>2. CASE Silent
  BY <1>1, <1>2
     DEF Silent, Whole, Sound, Kept, Holds, Done, Erases, Original, Cleared, Latest, Left,
         NoneOpen, Open, SuspensionsOf, RequestsOf, ToErase, ToRestore
<1>3. ASSUME NEW p \in Process, Moves(p), ~ Deals(p, i)
      PROVE  Whole(i)'
  <2>1. Untouched(i)
    BY <1>1, <1>3, Elsewhere
  <2>2. \A s \in Suspension : holder'[s] = i <=> holder[s] = i
    BY <2>1 DEF Untouched
  <2>3. SuspensionsOf(i)' = SuspensionsOf(i)
    BY <2>2 DEF SuspensionsOf
  <2>4. \A s \in SuspensionsOf(i) : Latest(s)' <=> Latest(s)
    BY <2>2, <2>3 DEF Latest, SuspensionsOf
  <2>5. \A s \in SuspensionsOf(i) : Sound(s, i) => Sound(s, i)'
    BY <1>1, <2>1, SoundFrame DEF SuspensionsOf
  <2>6. \A t \in Table : Original(i, t) => Original(i, t)'
    BY <2>1 DEF Untouched, Original
  <2>7. QED
    BY <1>1, <2>3, <2>4, <2>5, <2>6 DEF Whole
<1>4. ASSUME NEW p \in Process, Moves(p), Deals(p, i), CreateRecord(p)
      PROVE  Whole(i)'
  <2>1. p \in Caller /\ who[p] = i
    BY <1>1, <1>4 DEF CreateRecord, Deals, SafetyInv, Knows, Calling
  <2>2. QED
    BY <1>1, <1>4, <2>1, NewIsWhole
<1>5. ASSUME NEW p \in Process, Moves(p), Deals(p, i), ~ CreateRecord(p)
      PROVE  Whole(i)'
  <2>1. holder' = holder
    BY <1>5, SameHolders
  <2>2. SuspensionsOf(i)' = SuspensionsOf(i)
    BY <2>1 DEF SuspensionsOf
  <2>3. \A s \in Suspension : Latest(s)' <=> Latest(s)
    BY <2>1 DEF Latest, SuspensionsOf
  <2>4. SuspensionsOf(i) \cap closed = {} /\ SuspensionsOf(i) \cap skipped' = {}
    BY <1>1, <2>2 DEF Undisturbed
  <2>5. \A s \in SuspensionsOf(i) : Latest(s) => Sound(s, i)'
    BY <1>1, <1>5, <2>4, SoundMove DEF Whole, SuspensionsOf
  <2>6. SuspensionsOf(i) = {} => \A t \in Table : Original(i, t)'
    BY <1>1, <1>5, NeverSuspended DEF Whole
  <2>7. SuspensionsOf(i) # {} => \E s \in SuspensionsOf(i) : Latest(s)
    BY <1>1 DEF Whole
  <2>8. SuspensionsOf(i) \subseteq Suspension
    BY DEF SuspensionsOf
  <2>9. /\ SuspensionsOf(i)' # {} => \E s \in SuspensionsOf(i)' : Latest(s)'
        /\ \A s \in SuspensionsOf(i)' : Latest(s)' => Sound(s, i)'
    BY <2>2, <2>3, <2>5, <2>7, <2>8
  <2>10. QED
    BY <2>2, <2>6, <2>9 DEF Whole
<1>6. QED
  BY <1>2, <1>3, <1>4, <1>5, SilentSteps

LEMMA WholeIsRecoverable == OrderedInv /\ WholeInv => RecoverableIsWhole
<1> SUFFICES ASSUME OrderedInv, WholeInv, NEW s \in Suspension, Recoverable(s),
                    Undisturbed(holder[s]), NEW t \in Table
             PROVE  \/ "original" \in content[holder[s]][t]
                    \/ t \in Unused(s) /\ "original" \in backup[s][t]
  BY DEF RecoverableIsWhole
<1>1. holder[s] \in Identity /\ state[s] = "SUSPENDED"
  BY TypeParts DEF OrderedInv, SafetyInv, RecordsOK, RecordTypes, Recoverable
<1>2. Latest(s)
  BY <1>1 DEF OrderedInv, OrderInv, Ordered, Active, SuspensionsOf, Undisturbed
<1>3. Kept(s, holder[s])
  BY <1>1, <1>2 DEF WholeInv, Whole, Sound, SuspensionsOf
<1>4. QED
  BY <1>1, <1>3 DEF Kept, Left, Done, Original, Unused

LEMMA WholeIsRestored == OrderedInv /\ WholeInv => RecoveredMeansRestored
<1> SUFFICES ASSUME OrderedInv, WholeInv, NEW s \in Suspension, state[s] = "RECOVERED",
                    Undisturbed(holder[s]), \A q \in SuspensionsOf(holder[s]) : ~ (q > s)
             PROVE  \A t \in Table : "original" \in content[holder[s]][t]
  BY DEF RecoveredMeansRestored
<1>1. holder[s] \in Identity
  BY TypeParts DEF OrderedInv, SafetyInv, RecordsOK, RecordTypes
<1>2. Latest(s)
  BY SuspensionAssumption DEF Latest, SuspensionsOf
<1>3. Kept(s, holder[s])
  BY <1>1, <1>2 DEF WholeInv, Whole, Sound, SuspensionsOf
<1>4. QED
  BY <1>3 DEF Kept, Left, Done, Original

LEMMA SpecWhole == Spec => [](OrderedInv /\ WholeInv)
<1>1. Init => OrderedInv /\ WholeInv
  BY OrderedInvInit, WholeInit
<1>2. OrderedInv /\ WholeInv /\ [Next]_vars => (OrderedInv /\ WholeInv)'
  BY OrderedInvStep, WholeStep
<1>3. QED
  BY <1>1, <1>2, PTL DEF Spec

(* Whatever a recovery that is let in finds missing in the tables is in    *)
(* its unused backups, after any crashes, for every number of callers,     *)
(* workers and suspensions, unless calls have overlapped, a row could not  *)
(* be written, or the window closed.                                       *)
THEOREM RecoveryBringsAllBack == Spec => []RecoverableIsWhole
BY SpecWhole, WholeIsRecoverable, PTL

(* And once it is recovered, the account has all it had until it is        *)
(* suspended again.                                                        *)
THEOREM RecoveredIsComplete == Spec => []RecoveredMeansRestored
BY SpecWhole, WholeIsRestored, PTL

-----------------------------------------------------------------------------
(* Two suspensions of an account are under way only if the calls for them  *)
(* overlapped: the checks of the service serialize everything else, the    *)
(* workers, the recoveries and the crashes included.                       *)
OneAtATime ==
  \A q, s \in Suspension :
    /\ holder[q] = holder[s] /\ holder[q] \notin overlapped
    /\ {state[q], state[s]} \subseteq {"SUSPENDING", "SUSPENDED"}
    => q = s

(* The states documented with SuspensionLifecycleState follow one another  *)
(* in their order, although the updates do not look at the state they      *)
(* leave: only a recovery and a finalization that meet after the window    *)
(* has closed can overwrite each other's outcome.                          *)
LifecycleEdge ==
  {<<"NONE", "SUSPENDING">>, <<"SUSPENDING", "SUSPENDED">>, <<"SUSPENDED", "RECOVERED">>,
   <<"SUSPENDED", "EXPIRED">>}

Follows(s) ==
  holder[s] \notin overlapped /\ state'[s] # state[s] =>
    \/ <<state[s], state'[s]>> \in LifecycleEdge
    \/ s \in closed /\ {state[s], state'[s]} = {"RECOVERED", "EXPIRED"}

LifecycleIsFollowed == [][\A s \in Suspension : Follows(s)]_vars

LEMMA OrderedIsOne == OrderedInv => OneAtATime
<1> SUFFICES ASSUME OrderedInv, NEW q \in Suspension, NEW s \in Suspension,
                    holder[q] = holder[s], holder[q] \notin overlapped, Active(q), Active(s)
             PROVE  q = s
  BY DEF OneAtATime, Active
<1>1. holder[q] \in Identity
  BY TypeParts DEF OrderedInv, SafetyInv, RecordsOK, RecordTypes, Active
<1>2. Latest(q) /\ Latest(s)
  BY <1>1 DEF OrderedInv, OrderInv, Ordered, SuspensionsOf
<1>3. QED
  BY <1>2, LatestIsUnique

(* One suspension at a time, for every number of callers and workers.      *)
THEOREM OneSuspensionAtATime == Spec => []OneAtATime
BY SpecWhole, OrderedIsOne, PTL

LEMMA FollowsStep ==
  ASSUME OrderedInv, [Next]_vars, NEW s \in Suspension
  PROVE  Follows(s)
<1>0. /\ SafetyInv /\ AtRest /\ OrderInv /\ RecordTypes /\ ExpiryInv /\ RecordsOK
      /\ \A p \in Process : Knows(p)
  BY TypeParts DEF OrderedInv, SafetyInv
<1>1. CASE state' = state
  BY <1>1 DEF Follows
<1>2. ASSUME NEW c \in Caller, CreateRecord(c)
      PROVE  Follows(s)
  BY <1>0, <1>2 DEF CreateRecord, RecordTypes, Follows, LifecycleEdge
<1>3. ASSUME NEW w \in Worker, Finish(w)
      PROVE  Follows(s)
  <2>1. /\ w \in Process /\ stage[w] = "finishing" /\ record[w] \in Suspension
        /\ holder[record[w]] = who[w] /\ who[w] \in Identity
        /\ state' = [state EXCEPT ![record[w]] = "SUSPENDED"]
    BY <1>0, <1>3 DEF Finish, Knows, Process, Deferring
  <2>2. who[w] \notin overlapped => state[record[w]] = "SUSPENDING"
    BY <1>0, <2>1 DEF OrderInv, Ordered, InOrder
  <2>3. QED
    BY <1>0, <2>1, <2>2 DEF RecordTypes, Follows, LifecycleEdge
<1>4. ASSUME NEW c \in Caller, MarkRecovered(c)
      PROVE  Follows(s)
  <2>1. /\ c \in Process /\ stage[c] = "recovering" /\ record[c] \in Suspension
        /\ holder[record[c]] = who[c] /\ who[c] \in Identity
        /\ state' = [state EXCEPT ![record[c]] = "RECOVERED"]
    BY <1>0, <1>4 DEF MarkRecovered, Knows, Process, Recovering
  <2>2. who[c] \notin overlapped => Left(record[c])
    BY <1>0, <2>1 DEF OrderInv, Ordered, InOrder, Ending
  <2>3. state[record[c]] = "EXPIRED" => record[c] \in closed
    BY <1>0, <2>1 DEF ExpiryInv
  <2>4. QED
    BY <1>0, <2>1, <2>2, <2>3 DEF RecordTypes, Follows, LifecycleEdge, Left
<1>5. ASSUME NEW w \in Worker, MarkExpired(w)
      PROVE  Follows(s)
  <2>1. /\ w \in Process /\ stage[w] = "expiring" /\ record[w] \in closed
        /\ record[w] \in Suspension
        /\ state' = [state EXCEPT ![record[w]] = "EXPIRED"]
    BY <1>0, <1>5 DEF MarkExpired, Knows, Process, Finalizing
  <2>2. state[record[w]] \in {"SUSPENDED", "RECOVERED", "EXPIRED"}
    BY <1>0, <2>1 DEF ExpiryInv
  <2>3. QED
    BY <1>0, <2>1, <2>2 DEF RecordTypes, Follows, LifecycleEdge
<1>6. QED
  BY <1>1, <1>2, <1>3, <1>4, <1>5
     DEF Next, vars, recordVars, CallerStep, WorkerStep, ProcessStep, requestSuspension,
         recoverAccount, suspendIdentity, CreateRequest, getActiveSuspension, CollectBackups,
         RestoreRows, MarkUsed, resumeIdentity, Claim, FindExpired, FindRecord, Complete,
         Fail, DeleteBackups, Throw, Resolve, LoadRows, CreateBackup, EraseRows, Notify,
         Crash, WindowCloses, CooldownPasses, Tick

(* SUSPENDING, SUSPENDED, and then RECOVERED or EXPIRED: no step goes any  *)
(* other way, but for overlapping calls and for a recovery that meets the  *)
(* finalization.                                                           *)
THEOREM StatesFollowTheLifecycle == Spec => LifecycleIsFollowed
<1>1. OrderedInv /\ [Next]_vars => [\A s \in Suspension : Follows(s)]_vars
  BY FollowsStep
<1>2. QED
  BY <1>1, SpecWhole, PTL DEF Spec, LifecycleIsFollowed
=============================================================================
