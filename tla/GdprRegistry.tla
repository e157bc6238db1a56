---------------------------- MODULE GdprRegistry ----------------------------
(***************************************************************************)
(* The GDPR registry, the check that every startup makes of it, and the    *)
(* life of an account under whatever registry passes that check.           *)
(*                                                                         *)
(* The program is a template: whoever adds a table lists its model,        *)
(* declares the column that leads to its owner, when a suspension erases   *)
(* it, and whether its rows are kept with placeholders.  The lists are     *)
(* written in three places; the check compares them with each other and    *)
(* with the schema.  The passes over the tables believe what is declared.  *)
(*                                                                         *)
(* One account and no faults: overlapping calls, crashes and the window    *)
(* for recovery are the subject of GdprSuspension and GdprDeletion.        *)
(***************************************************************************)
EXTENDS Naturals

CONSTANTS
  Model, Ghost,     \* the models with data of users; a name the schema does not have
  Column,           \* Column[m]: the column of m that leads to its owner
  Hub,              \* UserNotificationProfile, which others refer to
  Offer,            \* Offer[n]: the ways in which n may be listed
  MaxSuspensions,   \* bound: suspensions of the account
  Production        \* NODE_ENV = "production"

Name == Model \cup {Ghost}
Suspension == 1 .. MaxSuspensions

(* identityId leads to the account, notificationProfileId to the Hub.      *)
Field == {"identityId", "notificationProfileId", "other"}

(* included, excluded: the lists of app.constants; entry: whether it has   *)
(* one in GDPR_EXPORT_TABLES, with its userField and suspensionRisk;       *)
(* override: its piiFields in GDPR_ANONYMIZE_OVERRIDES, if any.            *)
Listing == [included : BOOLEAN, excluded : BOOLEAN, entry : BOOLEAN,
            userField : Field, immediate : BOOLEAN,
            override : {"none", "empty", "some"}]

ASSUME GhostAssumption == Ghost \notin Model
ASSUME ColumnAssumption == Column \in [Model -> {"identityId", "notificationProfileId"}]
ASSUME HubAssumption == Hub \in Model /\ Column[Hub] = "identityId"
ASSUME OfferAssumption == \A n \in Name : Offer[n] \subseteq Listing
ASSUME BoundAssumption == MaxSuspensions \in Nat /\ Production \in BOOLEAN

VARIABLES
  registry,  \* registry[n]: how n is listed, as long as the program runs
  account,   \* where the account is in its life
  content,   \* content[m]: "original" rows in m, rows with a "placeholder", or "none"
  todo,      \* what the current pass over the tables has yet to process
  linked,    \* whether that pass found the Hub's row when it began
  count,     \* the number of suspensions; the last one is the current one
  backup,    \* backup[s][m]: the rows of m saved by the suspension s
  used,      \* used[s]: the models whose backup has been used
  had        \* the models with rows of the account when it was last suspended

vars == <<registry, account, content, todo, linked, count, backup, used, had>>

Life == {"absent", "refused", "active",
         "suspending", "pending", "hiding", "suspended", "stuck", "recovering", "expired",
         "leaving", "marked", "erasing", "deleted"}

Init ==
  /\ registry \in {f \in [Name -> UNION {Offer[n] : n \in Name}] :
                     \A n \in Name : f[n] \in Offer[n]}
  /\ account = "absent"
  /\ content = [m \in Model |-> "none"]
  /\ todo = {} /\ linked = FALSE
  /\ count = 0
  /\ backup = [s \in Suspension |-> [m \in Model |-> "none"]]
  /\ used = [s \in Suspension |-> {}]
  /\ had = {}

Registered(n) == registry[n].entry
Tables == {n \in Name : Registered(n)}
Immediate == {n \in Tables : registry[n].immediate}
Kept(n) == registry[n].override # "none"   \* ANONYMIZE instead of DELETE

-----------------------------------------------------------------------------
(* validateGdprRegistry.  MUTANT of RegistryError: a listed table may lack *)
(* its entry.                                                              *)
RegistryErrorButEntry(n) ==
  LET l == registry[n] IN
  \/ n \notin Model /\ (l.included \/ l.excluded \/ l.entry)
  \/ l.override = "empty" \/ (l.override = "some" /\ ~ l.entry)
  \/ l.entry /\ ~ l.included

RegistryError(n) ==
  LET l == registry[n] IN
  \/ n \notin Model /\ (l.included \/ l.excluded \/ l.entry)
  \/ l.override = "empty" \/ (l.override = "some" /\ ~ l.entry)
  \/ l.included # l.entry

(* findUnclassifiedOwnershipModels: only models with identityId count.     *)
Unclassified(n) ==
  /\ n \in Model /\ Column[n] = "identityId"
  /\ ~ registry[n].included /\ ~ registry[n].excluded

(* validateRegisteredModelConfigs: what composeTableConfig may get wrong.  *)
Misconfigured(n) == n \in Model /\ Registered(n) /\ registry[n].override = "empty"

Violations == {n \in Name : RegistryError(n) \/ Unclassified(n) \/ Misconfigured(n)}

(* The account comes with some rows; a child needs the Hub's row.          *)
HasParent(m, rows) == Column[m] = "notificationProfileId" => rows[Hub] # "none"

Start ==
  /\ account = "absent"
  /\ IF Violations # {} /\ Production
       THEN account' = "refused" /\ UNCHANGED content
       ELSE /\ account' = "active"
            /\ content' \in {rows \in [Model -> {"none", "original"}] :
                               \A m \in Model : rows[m] # "none" => HasParent(m, rows)}
  /\ UNCHANGED <<registry, todo, linked, count, backup, used, had>>

(* A user who is not locked out adds to the account.                       *)
Write(m) ==
  /\ account = "active" /\ content[m] # "original" /\ HasParent(m, content)
  /\ content' = [content EXCEPT ![m] = "original"]
  /\ UNCHANGED <<registry, account, todo, linked, count, backup, used, had>>

-----------------------------------------------------------------------------
(* A pass over tables.  The keys are resolved before anything is erased.   *)
Begin(life, tables) ==
  /\ account' = life
  /\ todo' = tables
  /\ linked' = (content[Hub] # "none")

requestSuspension ==
  /\ account = "active" /\ count < MaxSuspensions
  /\ Begin("suspending", Immediate)
  /\ count' = count + 1
  /\ had' = {m \in Model : content[m] = "original"}
  /\ UNCHANGED <<registry, content, backup, used>>

processSuspensionRequest ==
  /\ account = "pending"
  /\ Begin("hiding", Tables \ Immediate)
  /\ UNCHANGED <<registry, content, count, backup, used, had>>

(* Refused to an account that is suspended or being deleted.               *)
requestDeletion ==
  /\ account = "active"
  /\ Begin("leaving", Immediate)
  /\ UNCHANGED <<registry, content, count, backup, used, had>>

(* The worker, and the job of the grace period whenever that failed.       *)
executeFinalDeletion ==
  /\ account = "marked"
  /\ Begin("erasing", Tables)
  /\ UNCHANGED <<registry, content, count, backup, used, had>>

(* sortTablesChildrenFirst goes by what is declared, and leaves the order  *)
(* within both groups to the registry.                                     *)
DeclaredChild(n) == registry[n].userField # "identityId"

(* MUTANT of NextToErase: in the order of the registry, whatever that is.  *)
AnyToErase == todo

NextToErase ==
  LET children == {n \in todo : DeclaredChild(n)} IN
  IF children = {} THEN todo ELSE children

(* No key, no such model, or no rows: the table is skipped.                *)
Skipped(n) ==
  \/ registry[n].userField = "notificationProfileId" /\ ~ linked
  \/ n \notin Model

(* The query names a column that the model does not have.                  *)
Misnamed(n) == n \in Model /\ Registered(n) /\ registry[n].userField # Column[n]

(* Rows are kept with placeholders, or deleted along with those that refer *)
(* to them (onDelete: Cascade).                                            *)
Erased(n) ==
  IF Kept(n)
    THEN [content EXCEPT ![n] =
            IF @ = "none" \/ registry[n].override = "empty" THEN @ ELSE "placeholder"]
    ELSE [m \in Model |->
            IF m = n \/ (n = Hub /\ Column[m] = "notificationProfileId")
              THEN "none" ELSE content[m]]

Suspends == account \in {"suspending", "hiding"}
Passing == account \in {"suspending", "hiding", "leaving", "erasing"}

processTable(n) ==
  /\ Passing
  /\ n \in NextToErase
  /\ Skipped(n) \/ ~ Misnamed(n)
  /\ todo' = todo \ {n}
  /\ IF Skipped(n)
       THEN UNCHANGED <<content, backup>>
       ELSE /\ content' = Erased(n)
            /\ backup' = IF Suspends THEN [backup EXCEPT ![count][n] = content[n]]
                                     ELSE backup
  /\ UNCHANGED <<registry, account, linked, count, used, had>>

(* The exception ends the pass.  A suspension is not tried again.          *)
Throw(n) ==
  /\ Passing
  /\ n \in NextToErase
  /\ ~ Skipped(n) /\ Misnamed(n)
  /\ account' = IF Suspends THEN "stuck" ELSE "marked"
  /\ todo' = {}
  /\ UNCHANGED <<registry, content, linked, count, backup, used, had>>

AfterPass == [suspending |-> "pending", hiding |-> "suspended",
              leaving |-> "marked", erasing |-> "deleted"]

EndPass ==
  /\ Passing /\ todo = {}
  /\ account' = AfterPass[account]
  /\ UNCHANGED <<registry, content, todo, linked, count, backup, used, had>>

-----------------------------------------------------------------------------
(* validateRecoveryPreconditions: there must be a backup to be used.       *)
Unused == {m \in Model : backup[count][m] # "none" /\ m \notin used[count]}

recoverAccount ==
  /\ account = "suspended" /\ Unused # {}
  /\ account' = "recovering"
  /\ todo' = Unused
  /\ UNCHANGED <<registry, content, linked, count, backup, used, had>>

(* sortBackupsParentsFirst, again by what is declared.                     *)
NextToRestore ==
  LET parents == {n \in todo : ~ DeclaredChild(n)} IN
  IF parents = {} THEN todo ELSE parents

(* A row that cannot be written is passed over; its backup counts as used. *)
restoreRows(m) ==
  /\ account = "recovering"
  /\ m \in NextToRestore
  /\ content' = IF HasParent(m, content)
                  THEN [content EXCEPT ![m] = backup[count][m]] ELSE content
  /\ used' = [used EXCEPT ![count] = @ \cup {m}]
  /\ todo' = todo \ {m}
  /\ UNCHANGED <<registry, account, linked, count, backup, had>>

resumeIdentity ==
  /\ account = "recovering" /\ todo = {}
  /\ account' = "active"
  /\ UNCHANGED <<registry, content, todo, linked, count, backup, used, had>>

finalizeSuspension ==
  /\ account = "suspended"
  /\ account' = "expired"
  /\ backup' = [backup EXCEPT ![count] = [m \in Model |-> "none"]]
  /\ UNCHANGED <<registry, content, todo, linked, count, used, had>>

-----------------------------------------------------------------------------
Next ==
  \/ Start
  \/ requestSuspension \/ processSuspensionRequest
  \/ requestDeletion \/ executeFinalDeletion
  \/ \E n \in Name : processTable(n) \/ Throw(n)
  \/ EndPass
  \/ recoverAccount \/ resumeIdentity \/ finalizeSuspension
  \/ \E m \in Model : restoreRows(m) \/ Write(m)

Spec == Init /\ [][Next]_vars

-----------------------------------------------------------------------------
(* What the check lets pass although the passes over the tables rely on    *)
(* it: the rows of a child go with those of the Hub, so a suspension must  *)
(* save them no later than it erases the Hub.                              *)
Unprotected(m) ==
  /\ Column[m] = "notificationProfileId"
  /\ Registered(Hub) /\ ~ Kept(Hub)
  /\ \/ ~ Registered(m) \/ Misnamed(m)
     \/ registry[Hub].immediate /\ ~ registry[m].immediate

(* "Every table in GDPR_INCLUDED_TABLES MUST be fully backed up before any *)
(* destructive operation during suspension": with any registry that passes *)
(* the check, what an account had is in its tables or in a backup that a   *)
(* recovery will use, and back in its tables after a recovery, also when   *)
(* the suspension could not be completed.  The children that the registry  *)
(* leaves unprotected are the exception.                                   *)
SuspensionIsReversible ==
  \A m \in had : ~ Unprotected(m) =>
    CASE account \in {"suspending", "pending", "hiding", "suspended", "stuck", "recovering"} ->
           content[m] = "original" \/ (m \in Unused /\ backup[count][m] = "original")
      [] account = "active" -> content[m] = "original"
      [] OTHER -> TRUE

(* "GDPR deletion must remove ALL user data": with any registry that       *)
(* passes the check, what is left of an account that is deleted, expired   *)
(* or suspended is in tables somebody excluded, or in tables the check     *)
(* does not know to be the user's, because they lack identityId and are in *)
(* no list or because their column is declared wrongly.                    *)
ErasureIsComplete ==
  account \in {"suspended", "expired", "deleted"} =>
    \A m \in Model : content[m] = "original" =>
      \/ ~ Registered(m) /\ (registry[m].excluded \/ Column[m] # "identityId")
      \/ Misnamed(m)

(* The same, as the documentation has it, without the exception.           *)
IncludedIsBackedUp ==
  \A m \in had :
    registry[m].included /\ account \in {"suspending", "pending", "hiding", "suspended"} =>
      content[m] = "original" \/ (m \in Unused /\ backup[count][m] = "original")

(* "fields valid": no registry passes the check that names a column its    *)
(* table does not have.                                                    *)
FieldsAreValid == account \notin {"absent", "refused"} => \A m \in Model : ~ Misnamed(m)

(* "No backups exist": nor does a copy of what a deleted account had.      *)
NoBackupsExist ==
  account = "deleted" => \A s \in Suspension, m \in Model : backup[s][m] = "none"
=============================================================================
