------------------------ MODULE GdprRegistry_proofs ------------------------
(***************************************************************************)
(* Proofs about GdprRegistry, for any models, any ways of listing them and *)
(* any number of suspensions: in production, whatever registry passes the  *)
(* check at startup, suspensions can be undone and deletions leave nothing *)
(* but what the registry keeps from them.                                  *)
(***************************************************************************)
EXTENDS GdprRegistry, TLAPS

Rows == {"none", "original", "placeholder"}
Child(m) == Column[m] = "notificationProfileId"

Types ==
  /\ registry \in [Name -> Listing]
  /\ account \in Life
  /\ content \in [Model -> Rows]
  /\ todo \subseteq Name
  /\ linked \in BOOLEAN
  /\ count \in 0 .. MaxSuspensions
  /\ backup \in [Suspension -> [Model -> Rows]]
  /\ used \in [Suspension -> SUBSET Model]
  /\ had \subseteq Model

(* The account lives only under a registry that passed the check.          *)
Checked == account \notin {"absent", "refused"} => Violations = {}

(* No child without the Hub's row; the keys of a pass stay good.           *)
HubOK ==
  /\ \A m \in Model : content[m] # "none" => HasParent(m, content)
  /\ Passing /\ ~ linked => content[Hub] = "none"

(* The tables that the passes have yet to reach, where this matters.       *)
Waiting ==
  CASE account = "suspending" -> todo \cup (Tables \ Immediate)
    [] account = "pending" -> Tables \ Immediate
    [] account \in {"hiding", "erasing"} -> todo
    [] account \in {"suspended", "expired", "deleted"} -> {}
    [] OTHER -> Tables

TodoOK ==
  /\ account = "suspending" => todo \subseteq Immediate
  /\ account = "hiding" => todo \subseteq Tables \ Immediate
  /\ account = "recovering" => todo = Unused

Suspending == account \in {"suspending", "pending", "hiding", "suspended"}
Reversible == Suspending \/ account \in {"stuck", "recovering"}

(* What the suspension holds is what it has processed, and only tables     *)
(* that are declared rightly are processed.                                *)
BackupOK ==
  /\ Reversible => count \in Suspension
  /\ \A s \in Suspension : s > count =>
       used[s] = {} /\ \A m \in Model : backup[s][m] = "none"
  /\ Suspending \/ account = "stuck" => used[count] = {}
  /\ Suspending => \A m \in Waiting : backup[count][m] = "none"
  /\ Reversible => \A m \in Unused : Registered(m) /\ ~ Misnamed(m)

Saved(m) == m \in Unused /\ backup[count][m] = "original"
Untouched(m) == content[m] = "original" /\ m \notin Unused

(* Every table with rows is saved once the pass has been there.            *)
HadOK ==
  /\ account = "absent" => had = {}
  /\ \A m \in had : ~ Unprotected(m) =>
       /\ account = "active" => content[m] = "original"
       /\ Reversible => Untouched(m) \/ Saved(m)
       /\ Suspending => IF m \in Waiting \/ ~ Registered(m) \/ Misnamed(m)
                          THEN Untouched(m) ELSE Saved(m)

(* Who had children has the Hub's row, or gets it back with the recovery.  *)
HubComesBack ==
  Reversible /\ (\E m \in had : Child(m)) => content[Hub] # "none" \/ Hub \in Unused

(* The passes leave no data in the tables they have been to.               *)
Erasing ==
  \A m \in Model :
    Registered(m) /\ ~ Misnamed(m) /\ m \notin Waiting => content[m] # "original"

RegistryInv ==
  /\ Types /\ Checked /\ HubOK /\ TodoOK /\ BackupOK /\ HadOK /\ HubComesBack /\ Erasing

-----------------------------------------------------------------------------
(* What is declared does not change while the program runs.                *)
LEMMA Fixed ==
  ASSUME registry' = registry
  PROVE  /\ Violations' = Violations /\ Tables' = Tables /\ Immediate' = Immediate
         /\ \A n \in Name : Registered(n)' <=> Registered(n)
         /\ \A n \in Name : Misnamed(n)' <=> Misnamed(n)
         /\ \A n \in Name : Unprotected(n)' <=> Unprotected(n)
<1>1. \A n \in Name : /\ Registered(n)' <=> Registered(n)
                      /\ Kept(n)' <=> Kept(n)
                      /\ RegistryError(n)' <=> RegistryError(n)
                      /\ Unclassified(n)' <=> Unclassified(n)
  BY DEF Registered, Kept, RegistryError, Unclassified
<1>2. \A n \in Name : Misnamed(n)' <=> Misnamed(n)
  BY <1>1 DEF Misnamed
<1>3. \A n \in Name : Misconfigured(n)' <=> Misconfigured(n)
  BY <1>1 DEF Misconfigured
<1>4. Violations' = Violations
  BY <1>1, <1>3 DEF Violations
<1>5. Tables' = Tables
  BY <1>1 DEF Tables
<1>6. Immediate' = Immediate
  BY <1>5 DEF Immediate
<1>7. \A n \in Name : Unprotected(n)' <=> Unprotected(n)
  BY <1>1, <1>2, HubAssumption DEF Unprotected, Name
<1>8. QED
  BY <1>1, <1>2, <1>4, <1>5, <1>6, <1>7

(* What the check vouches for: a table that is processed is a model of the *)
(* schema, and its placeholders, if it has any, are some.                  *)
LEMMA Vouched ==
  ASSUME Types, Violations = {}, NEW n \in Name
  PROVE  /\ Registered(n) => n \in Model
         /\ registry[n].included <=> Registered(n)
         /\ registry[n].override # "empty"
         /\ Unclassified(n) => FALSE
<1>1. ~ RegistryError(n) /\ ~ Unclassified(n)
  BY DEF Violations
<1>2. registry[n] \in Listing
  BY DEF Types
<1>3. QED
  BY <1>1, <1>2 DEF RegistryError, Registered, Listing

(* A registered, rightly declared table that is skipped has no rows.       *)
LEMMA SkippedIsEmpty ==
  ASSUME Types, HubOK, Passing, NEW n \in Model, Registered(n), ~ Misnamed(n), Skipped(n)
  PROVE  content[n] = "none"
<1>1. registry[n].userField = "notificationProfileId" /\ ~ linked
  BY DEF Skipped
<1>2. Column[n] = "notificationProfileId"
  BY <1>1 DEF Misnamed
<1>3. content[Hub] = "none"
  BY <1>1 DEF HubOK
<1>4. QED
  BY <1>2, <1>3 DEF HubOK, HasParent

(* What processing a table does to the rows of each model.                 *)
LEMMA ErasedRows ==
  ASSUME Types, Violations = {}, NEW n \in Model, NEW m \in Model
  PROVE  /\ Erased(n) \in [Model -> Rows]
         /\ Erased(n)[n] # "original"
         /\ Erased(n)[m] # content[m] =>
              m = n \/ (n = Hub /\ Child(m) /\ ~ Kept(Hub) /\ Erased(n)[m] = "none")
         /\ Erased(n)[m] # "none" => content[m] # "none"
         /\ n = Hub /\ ~ Kept(Hub) /\ Child(m) => Erased(n)[m] = "none"
         /\ Erased(n)[Hub] = "none" /\ content[Hub] # "none" => n = Hub /\ ~ Kept(Hub)
<1>1. registry[n].override # "empty" /\ content \in [Model -> Rows]
  BY Vouched DEF Types, Name
<1>2. QED
  BY <1>1, HubAssumption DEF Erased, Rows, Child, Kept

-----------------------------------------------------------------------------
(* The steps, one by one.                                                  *)
LEMMA InvInit == Init => RegistryInv
<1> SUFFICES ASSUME Init PROVE RegistryInv
  OBVIOUS
<1>1. registry \in [Name -> Listing]
  <2>1. \A n \in Name : registry[n] \in Listing
    BY OfferAssumption DEF Init
  <2>2. registry \in [Name -> UNION {Offer[n] : n \in Name}]
    BY DEF Init
  <2>3. QED
    BY <2>1, <2>2
<1>2. Types
  <2>1. content \in [Model -> Rows] /\ account \in Life /\ linked \in BOOLEAN
    BY DEF Init, Rows, Life
  <2>2. backup \in [Suspension -> [Model -> Rows]] /\ used \in [Suspension -> SUBSET Model]
    <3>1. [m \in Model |-> "none"] \in [Model -> Rows]
      BY DEF Rows
    <3>2. QED
      BY <3>1 DEF Init
  <2>3. todo \subseteq Name /\ count \in 0 .. MaxSuspensions /\ had \subseteq Model
    BY BoundAssumption DEF Init
  <2>4. QED
    BY <1>1, <2>1, <2>2, <2>3 DEF Types
<1>3. Checked /\ HubOK /\ TodoOK /\ HubComesBack /\ HadOK
  BY DEF Init, Checked, HubOK, Passing, TodoOK, HubComesBack, HadOK, Reversible, Suspending
<1>4. BackupOK
  BY BoundAssumption DEF Init, BackupOK, Reversible, Suspending, Suspension
<1>5. Erasing
  BY DEF Init, Erasing, Waiting, Tables, Name
<1>6. QED
  BY <1>2, <1>3, <1>4, <1>5 DEF RegistryInv

LEMMA StartStep == ASSUME Production, RegistryInv, Start PROVE RegistryInv'
<1> USE DEF RegistryInv, Start
<1>1. Types'
  BY DEF Types, Life, Rows
<1>2. Checked'
  BY Fixed DEF Checked
<1>3. HubOK' /\ TodoOK' /\ HubComesBack'
  BY DEF HubOK, HasParent, Passing, TodoOK, HubComesBack, Reversible, Suspending
<1>4. BackupOK' /\ HadOK'
  BY DEF BackupOK, HadOK, Reversible, Suspending
<1>5. Erasing'
  BY DEF Erasing, Waiting, Tables, Name, Registered
<1>6. QED
  BY <1>1, <1>2, <1>3, <1>4, <1>5

LEMMA WriteStep == ASSUME RegistryInv, NEW m \in Model, Write(m) PROVE RegistryInv'
<1> USE DEF RegistryInv, Write
<1>1. Types'
  BY DEF Types, Rows
<1>2. Checked'
  BY Fixed DEF Checked
<1>3. HubOK' /\ TodoOK' /\ HubComesBack'
  BY HubAssumption
     DEF Types, HubOK, HasParent, Passing, TodoOK, HubComesBack, Reversible, Suspending
<1>4. BackupOK'
  BY DEF BackupOK, Reversible, Suspending
<1>5. HadOK'
  BY Fixed DEF Types, HadOK, Reversible, Suspending, Name
<1>6. Erasing'
  BY Fixed DEF Erasing, Waiting, Tables, Name
<1>7. QED
  BY <1>1, <1>2, <1>3, <1>4, <1>5, <1>6

(* A new suspension starts with empty hands, and all of its rows in place. *)
LEMMA RequestStep == ASSUME RegistryInv, requestSuspension PROVE RegistryInv'
<1> USE DEF RegistryInv, requestSuspension, Begin
<1>1. count' \in Suspension /\ count' = count + 1
  BY BoundAssumption DEF Types, Suspension
<1>2. Types'
  BY <1>1, BoundAssumption DEF Types, Life, Suspension, Immediate, Tables
<1>3. Checked'
  BY Fixed DEF Checked
<1>4. HubOK'
  BY DEF HubOK, HasParent, Passing
<1>5. used[count'] = {} /\ \A m \in Model : backup[count'][m] = "none"
  BY <1>1 DEF BackupOK, Types
<1>6. Unused' = {}
  BY <1>5 DEF Unused
<1>7. BackupOK'
  <2>1. \A s \in Suspension : s > count' => s > count
    BY <1>1, BoundAssumption DEF Suspension, Types
  <2>2. Violations = {}
    BY DEF Checked
  <2>3. \A m \in Waiting' : backup'[count'][m] = "none"
    BY <1>5, <2>2, Vouched, Fixed DEF Waiting, Tables, Immediate, Types
  <2>4. QED
    BY <1>1, <1>5, <1>6, <2>1, <2>3 DEF BackupOK, Reversible, Suspending
<1>8. Waiting' = Tables
  BY Fixed DEF Waiting, Immediate
<1>9. HadOK'
  <2>1. \A m \in had' : m \in Model /\ Untouched(m)'
    BY <1>6 DEF Untouched
  <2>2. \A m \in had' : m \in Waiting' \/ ~ Registered(m)'
    BY <1>8, <2>1, Fixed DEF Tables, Name
  <2>3. QED
    BY <2>1, <2>2 DEF HadOK
<1>10. HubComesBack'
  BY DEF HubComesBack, HubOK, HasParent, Child
<1>11. TodoOK' /\ Erasing'
  BY <1>8, Fixed DEF TodoOK, Erasing, Tables, Name
<1>12. QED
  BY <1>2, <1>3, <1>4, <1>7, <1>9, <1>10, <1>11

LEMMA ProcessSuspensionStep ==
  ASSUME RegistryInv, processSuspensionRequest PROVE RegistryInv'
<1> USE DEF RegistryInv, processSuspensionRequest, Begin
<1>1. Types'
  BY DEF Types, Life, Tables
<1>2. Waiting' = Waiting /\ Unused' = Unused
  BY Fixed DEF Waiting, Unused
<1>3. Checked' /\ TodoOK'
  BY Fixed DEF Checked, TodoOK
<1>4. HubOK' /\ HubComesBack'
  BY <1>2 DEF HubOK, HasParent, Passing, HubComesBack, Reversible, Suspending
<1>5. BackupOK'
  BY <1>2, Fixed DEF BackupOK, Reversible, Suspending, Unused, Name
<1>6. HadOK'
  BY <1>2, Fixed DEF HadOK, Reversible, Suspending, Saved, Untouched, Name, Types
<1>7. Erasing'
  BY <1>2, Fixed DEF Erasing, Name
<1>8. QED
  BY <1>1, <1>3, <1>4, <1>5, <1>6, <1>7

LEMMA DeletionSteps ==
  ASSUME RegistryInv, requestDeletion \/ executeFinalDeletion PROVE RegistryInv'
<1> USE DEF RegistryInv, requestDeletion, executeFinalDeletion, Begin
<1>1. Types'
  BY DEF Types, Life, Immediate, Tables
<1>2. Checked' /\ TodoOK'
  BY Fixed DEF Checked, TodoOK
<1>3. HubOK' /\ HubComesBack'
  BY DEF HubOK, HasParent, Passing, HubComesBack, Reversible, Suspending
<1>4. BackupOK' /\ HadOK'
  BY DEF BackupOK, HadOK, Reversible, Suspending
<1>5. Waiting' = Tables
  BY Fixed DEF Waiting
<1>6. Erasing'
  BY <1>5, Fixed DEF Erasing, Tables, Name
<1>7. QED
  BY <1>1, <1>2, <1>3, <1>4, <1>6

(* Between the passes of a suspension nothing but the stage changes.       *)
LEMMA EndPassStep == ASSUME RegistryInv, EndPass PROVE RegistryInv'
<1> USE DEF RegistryInv, EndPass
<1>1. \/ account = "suspending" /\ account' = "pending"
      \/ account = "hiding" /\ account' = "suspended"
      \/ account = "leaving" /\ account' = "marked"
      \/ account = "erasing" /\ account' = "deleted"
  BY DEF Passing, AfterPass
<1>2. Types'
  BY <1>1 DEF Types, Life
<1>3. Checked' /\ TodoOK' /\ HubOK'
  BY <1>1, Fixed DEF Checked, TodoOK, HubOK, Passing, HasParent
<1>4. Unused' = Unused
  BY DEF Unused
<1>5. Waiting' = Waiting
  BY <1>1, Fixed DEF Waiting
<1>6. BackupOK'
  BY <1>1, <1>4, <1>5, Fixed DEF BackupOK, Reversible, Suspending, Unused, Name
<1>7. HadOK' /\ HubComesBack'
  BY <1>1, <1>4, <1>5, Fixed
     DEF HadOK, HubComesBack, Reversible, Suspending, Saved, Untouched, Name, Types
<1>8. Erasing'
  BY <1>5, Fixed DEF Erasing, Name
<1>9. QED
  BY <1>2, <1>3, <1>6, <1>7, <1>8

LEMMA RecoverStep == ASSUME RegistryInv, recoverAccount PROVE RegistryInv'
<1> USE DEF RegistryInv, recoverAccount
<1>1. Unused' = Unused /\ Unused \subseteq Model
  BY DEF Unused
<1>2. Types'
  BY <1>1 DEF Types, Life, Name
<1>3. Checked' /\ TodoOK' /\ HubOK'
  BY <1>1, Fixed DEF Checked, TodoOK, HubOK, Passing, HasParent
<1>4. BackupOK'
  BY <1>1, Fixed DEF BackupOK, Reversible, Suspending, Name
<1>5. HadOK' /\ HubComesBack'
  BY <1>1, Fixed
     DEF HadOK, HubComesBack, Reversible, Suspending, Saved, Untouched, Name, Types
<1>6. Erasing'
  BY Fixed DEF Erasing, Waiting, Tables, Name
<1>7. QED
  BY <1>2, <1>3, <1>4, <1>5, <1>6

(* Nothing that was to be used is left, so that all rows are in place.     *)
LEMMA ResumeStep == ASSUME RegistryInv, resumeIdentity PROVE RegistryInv'
<1> USE DEF RegistryInv, resumeIdentity
<1>1. Unused = {}
  BY DEF TodoOK
<1>2. Types'
  BY DEF Types, Life
<1>3. Checked' /\ TodoOK' /\ HubOK' /\ HubComesBack'
  BY Fixed DEF Checked, TodoOK, HubOK, Passing, HasParent, HubComesBack, Reversible, Suspending
<1>4. BackupOK'
  BY DEF BackupOK, Reversible, Suspending
<1>5. HadOK'
  BY <1>1, Fixed DEF HadOK, Reversible, Suspending, Saved, Untouched, Name, Types
<1>6. Erasing'
  BY Fixed DEF Erasing, Waiting, Tables, Name
<1>7. QED
  BY <1>2, <1>3, <1>4, <1>5, <1>6

LEMMA ExpiryStep == ASSUME RegistryInv, finalizeSuspension PROVE RegistryInv'
<1> USE DEF RegistryInv, finalizeSuspension
<1>1. Types'
  BY DEF Types, Life, Rows
<1>2. Checked' /\ TodoOK' /\ HubOK' /\ HubComesBack'
  BY Fixed DEF Checked, TodoOK, HubOK, Passing, HasParent, HubComesBack, Reversible, Suspending
<1>3. BackupOK' /\ HadOK'
  BY DEF BackupOK, HadOK, Reversible, Suspending, Types
<1>4. Erasing'
  BY Fixed DEF Erasing, Waiting, Name
<1>5. QED
  BY <1>1, <1>2, <1>3, <1>4

(* Whoever stops at a wrong declaration leaves the rest as it was.         *)
LEMMA ThrowStep == ASSUME RegistryInv, NEW n \in Name, Throw(n) PROVE RegistryInv'
<1> USE DEF RegistryInv, Throw
<1>1. account' \in {"stuck", "marked"} /\ (account' = "stuck" <=> Suspends)
  OBVIOUS
<1>2. Types'
  BY <1>1 DEF Types, Life
<1>3. Checked' /\ TodoOK' /\ HubOK'
  BY <1>1, Fixed DEF Checked, TodoOK, HubOK, Passing, HasParent
<1>4. Unused' = Unused
  BY DEF Unused
<1>5. BackupOK'
  BY <1>1, <1>4, Fixed DEF BackupOK, Reversible, Suspending, Suspends, Unused, Name
<1>6. HadOK' /\ HubComesBack'
  BY <1>1, <1>4, Fixed
     DEF HadOK, HubComesBack, Reversible, Suspending, Suspends, Saved, Untouched, Name, Types
<1>7. Erasing'
  BY <1>1, Fixed DEF Erasing, Waiting, Tables, Name
<1>8. QED
  BY <1>2, <1>3, <1>5, <1>6, <1>7

(* A table is processed: its rows are saved, if the pass belongs to a      *)
(* suspension, and erased, along with those of the children if it is the   *)
(* Hub; a child that needs its rows has been there before.                 *)
LEMMA ProcessStep ==
  ASSUME RegistryInv, NEW n \in Name, processTable(n)
  PROVE  RegistryInv'
<1> USE DEF RegistryInv, processTable
<1>1. Violations = {} /\ n \in todo /\ account' = account
  BY DEF Checked, Passing, NextToErase
<1>2. todo' = todo \ {n}
  OBVIOUS
<1>3. Suspends => n \in Tables /\ n \in Model /\ n \in Waiting
  BY <1>1, Vouched DEF TodoOK, Suspends, Immediate, Tables, Waiting
<1>4. Waiting' = Waiting \ {n} \/ (~ Suspends /\ Waiting \ Waiting' \subseteq {n})
  BY <1>1, <1>3, Fixed DEF Waiting, Suspends, TodoOK
<1>5. CASE Skipped(n)
  <2>1. UNCHANGED <<content, backup, account, count, used, had, linked, registry>>
    BY <1>5
  <2>2. Unused' = Unused
    BY <2>1 DEF Unused
  <2>3. Types' /\ Checked' /\ TodoOK' /\ HubOK' /\ HubComesBack'
    BY <1>1, <2>1, <2>2, Fixed
       DEF Types, Checked, TodoOK, HubOK, Passing, HasParent, HubComesBack,
           Reversible, Suspending
  <2>4. BackupOK'
    BY <1>4, <2>1, <2>2, Fixed
       DEF BackupOK, Reversible, Suspending, Suspends, Passing, Unused, Name
  <2>5. n \in Model /\ Registered(n) /\ ~ Misnamed(n) => content[n] = "none"
    BY <1>5, SkippedIsEmpty
  <2>6. \A m \in Model : m # n => (m \in Waiting' <=> m \in Waiting)
    BY <1>4, <1>1, Fixed DEF Waiting
  <2>7. Erasing'
    BY <2>1, <2>5, <2>6, Fixed DEF Erasing, Name
  <2>8. ASSUME NEW m \in had, ~ Unprotected(m)'
        PROVE  /\ Reversible' => Untouched(m)' \/ Saved(m)'
               /\ Suspending' =>
                    IF m \in Waiting' \/ ~ Registered(m)' \/ Misnamed(m)'
                      THEN Untouched(m)' ELSE Saved(m)'
    <3>1. m \in Model /\ ~ Unprotected(m)
      BY <2>8, Fixed DEF Types, Name
    <3>2. (Untouched(m)' <=> Untouched(m)) /\ (Saved(m)' <=> Saved(m))
      BY <2>1, <2>2 DEF Untouched, Saved
    <3>3. (Reversible' <=> Reversible) /\ (Suspending' <=> Suspending)
      BY <2>1 DEF Reversible, Suspending
    <3>4. Suspending => Suspends
      BY DEF Suspending, Suspends, Passing
    <3>5. CASE m # n
      BY <2>6, <3>1, <3>2, <3>3, <3>5, Fixed DEF HadOK, Name
    <3>6. CASE m = n
      BY <1>3, <2>5, <3>1, <3>2, <3>3, <3>4, <3>6, Fixed DEF HadOK, Name, Untouched
    <3>7. QED
      BY <3>5, <3>6
  <2>9. HadOK'
    BY <1>1, <2>1, <2>8 DEF HadOK, Passing
  <2>10. QED
    BY <2>3, <2>4, <2>7, <2>9
<1>6. CASE ~ Skipped(n)
  <2>1. n \in Model /\ content' = Erased(n) /\ ~ Misnamed(n)
    BY <1>6 DEF Skipped
  <2>2. UNCHANGED <<registry, account, linked, count, used, had>>
    OBVIOUS
  <2>3. backup' = IF Suspends THEN [backup EXCEPT ![count][n] = content[n]] ELSE backup
    BY <1>6
  <2>4. /\ content' \in [Model -> Rows]
        /\ content'[n] # "original"
        /\ \A m \in Model :
             /\ content'[m] # content[m] =>
                  m = n \/ (n = Hub /\ Child(m) /\ ~ Kept(Hub) /\ content'[m] = "none")
             /\ content'[m] # "none" => content[m] # "none"
             /\ n = Hub /\ ~ Kept(Hub) /\ Child(m) => content'[m] = "none"
        /\ content'[Hub] = "none" /\ content[Hub] # "none" => n = Hub /\ ~ Kept(Hub)
    BY <1>1, <2>1, ErasedRows, HubAssumption
  <2>5. Types'
    <3>1. backup' \in [Suspension -> [Model -> Rows]]
      BY <2>1, <2>3 DEF Types
    <3>2. QED
      BY <2>2, <2>4, <3>1 DEF Types
  <2>6. Checked' /\ TodoOK'
    BY <1>1, Fixed DEF Checked, TodoOK, Passing
  <2>7. HubOK'
    BY <2>2, <2>4, HubAssumption DEF HubOK, HasParent, Passing, Child
  <2>8. \A m \in Model : m # n => (m \in Waiting' <=> m \in Waiting)
    BY <1>1, <1>4, Fixed DEF Waiting
  <2>9. Erasing'
    BY <2>4, <2>8, Fixed DEF Erasing, Name
  <2>10. CASE ~ Suspends
    <3>1. ~ Reversible' /\ ~ Suspending' /\ account' # "active" /\ account' # "absent"
      BY <2>2, <2>10 DEF Reversible, Suspending, Suspends, Passing
    <3>2. BackupOK' /\ HadOK' /\ HubComesBack'
      BY <2>2, <2>3, <2>10, <3>1
         DEF BackupOK, HadOK, HubComesBack, Reversible, Suspending
    <3>3. QED
      BY <2>5, <2>6, <2>7, <2>9, <3>2
  <2>11. CASE Suspends
    <3>1. /\ Suspending /\ Reversible /\ count \in Suspension /\ used[count] = {}
          /\ Suspending' /\ Reversible' /\ account' # "active" /\ account' # "absent"
      BY <2>2, <2>11 DEF Suspends, Suspending, Reversible, BackupOK
    <3>2. Registered(n) /\ n \in Waiting /\ n \notin Waiting' /\ backup[count][n] = "none"
      BY <1>3, <1>4, <2>11, <3>1 DEF Tables, BackupOK
    <3>3. /\ backup'[count][n] = content[n]
          /\ \A m \in Model \ {n} : backup'[count][m] = backup[count][m]
          /\ \A s \in Suspension \ {count} : backup'[s] = backup[s]
      BY <2>1, <2>3, <2>11, <3>1 DEF Types
    <3>4. /\ n \in Unused' <=> content[n] # "none"
          /\ \A m \in Model \ {n} : m \in Unused' <=> m \in Unused
      BY <2>1, <2>2, <3>1, <3>3 DEF Unused
    <3>5. BackupOK'
      <4>1. \A m \in Unused' : m \in Model /\ Registered(m) /\ ~ Misnamed(m)
        BY <2>1, <3>1, <3>2, <3>4 DEF BackupOK, Unused
      <4>2. \A s \in Suspension : s > count => s # count
        BY BoundAssumption DEF Types, Suspension
      <4>3. \A s \in Suspension : s > count => backup'[s] = backup[s]
        BY <3>3, <4>2
      <4>4. \A m \in Waiting' : m \in Waiting /\ m # n /\ m \in Model
        <5>1. Waiting \subseteq Tables
          BY <2>11 DEF Waiting, Suspends, TodoOK, Immediate
        <5>2. Tables \subseteq Model
          BY <1>1, Vouched DEF Tables
        <5>3. QED
          BY <1>4, <2>11, <5>1, <5>2
      <4>5. QED
        BY <2>2, <3>1, <3>3, <4>1, <4>3, <4>4, Fixed DEF BackupOK, Name
    <3>6. HubComesBack'
      BY <2>2, <2>4, <3>1, <3>2, <3>4, HubAssumption DEF HubComesBack, Unused
    <3>7. ASSUME NEW m \in had, ~ Unprotected(m)
          PROVE  IF m \in Waiting' \/ ~ Registered(m) \/ Misnamed(m)
                   THEN Untouched(m)' ELSE Saved(m)'
      <4>1. m \in Model
        BY DEF Types
      <4>2. IF m \in Waiting \/ ~ Registered(m) \/ Misnamed(m) THEN Untouched(m) ELSE Saved(m)
        BY <3>1, <3>7 DEF HadOK
      <4>3. CASE m = n
        BY <2>1, <3>2, <3>3, <3>4, <4>2, <4>3 DEF Untouched, Saved
      <4>4. CASE m # n /\ content'[m] = content[m]
        BY <2>2, <2>8, <3>3, <3>4, <4>1, <4>2, <4>4 DEF Untouched, Saved
      <4>5. CASE m # n /\ content'[m] # content[m]
        <5>1. n = Hub /\ Child(m) /\ ~ Kept(Hub)
          BY <2>4, <4>1, <4>5
        <5>2. /\ Registered(m) /\ ~ Misnamed(m)
              /\ ~ (registry[Hub].immediate /\ ~ registry[m].immediate)
          BY <3>2, <3>7, <5>1 DEF Unprotected, Child
        <5>3. DeclaredChild(m) /\ ~ DeclaredChild(Hub)
          BY <2>1, <3>2, <4>1, <5>1, <5>2, HubAssumption DEF Misnamed, DeclaredChild, Child
        <5>4. m \notin todo
          BY <5>1, <5>3 DEF NextToErase
        <5>5. m \notin Waiting
          BY <1>1, <2>11, <5>1, <5>2, <5>4, <4>1
             DEF Waiting, Suspends, Passing, TodoOK, Immediate, Tables, Name
        <5>6. QED
          BY <2>2, <3>3, <3>4, <4>1, <4>2, <4>5, <5>2, <5>5, <2>8 DEF Saved
      <4>6. QED
        BY <4>3, <4>4, <4>5
    <3>8. HadOK'
      <4>1. ASSUME NEW m \in had', ~ Unprotected(m)'
            PROVE  /\ Untouched(m)' \/ Saved(m)'
                   /\ IF m \in Waiting' \/ ~ Registered(m)' \/ Misnamed(m)'
                        THEN Untouched(m)' ELSE Saved(m)'
        <5>1. m \in had /\ m \in Name /\ ~ Unprotected(m)
          BY <2>2, <4>1, Fixed DEF Types, Name
        <5>2. QED
          BY <3>7, <5>1, Fixed
      <4>2. QED
        BY <3>1, <4>1 DEF HadOK
    <3>9. QED
      BY <2>5, <2>6, <2>7, <2>9, <3>5, <3>6, <3>8
  <2>12. QED
    BY <2>10, <2>11
<1>7. QED
  BY <1>5, <1>6

(* Parents come back first, so that a child whose rows are wanted has the  *)
(* Hub's row by the time it is restored.                                   *)
LEMMA RestoreStep ==
  ASSUME RegistryInv, NEW n \in Model, restoreRows(n)
  PROVE  RegistryInv'
<1> USE DEF RegistryInv, restoreRows
<1>1. /\ account = "recovering" /\ account' = account /\ todo = Unused /\ n \in Unused
      /\ Violations = {} /\ count \in Suspension /\ Reversible /\ ~ Suspending
  BY DEF Checked, TodoOK, NextToRestore, BackupOK, Reversible, Suspending
<1>2. Registered(n) /\ ~ Misnamed(n) /\ backup[count][n] # "none"
  BY <1>1 DEF BackupOK, Unused
<1>3. Unused' = Unused \ {n}
  BY <1>1 DEF Unused, Types
<1>4. Types'
  BY <1>1 DEF Types
<1>5. Checked' /\ TodoOK'
  BY <1>1, <1>3, Fixed DEF Checked, TodoOK
<1>6. HubOK'
  BY <1>1, <1>2, HubAssumption DEF HubOK, HasParent, Passing, Types
<1>7. BackupOK'
  <2>1. ASSUME NEW s \in Suspension, s > count
        PROVE  used'[s] = used[s]
    <3>1. s # count
      BY <2>1, BoundAssumption DEF Types, Suspension
    <3>2. QED
      BY <3>1 DEF Types
  <2>2. QED
    BY <1>1, <1>3, <2>1, Fixed DEF BackupOK, Reversible, Suspending, Unused, Name
<1>8. n \in had => HasParent(n, content)
  <2>1. SUFFICES ASSUME n \in had, Child(n), content[Hub] = "none"
                 PROVE  FALSE
    BY DEF HasParent, Child
  <2>2. Hub \in Unused
    BY <1>1, <2>1 DEF HubComesBack
  <2>3. ~ DeclaredChild(Hub)
    BY <1>1, <2>2, HubAssumption DEF BackupOK, Misnamed, DeclaredChild
  <2>4. DeclaredChild(n)
    BY <1>2, <2>1 DEF Misnamed, DeclaredChild, Child
  <2>5. QED
    BY <1>1, <2>2, <2>3, <2>4 DEF NextToRestore
<1>9. HubComesBack'
  BY <1>1, <1>2, <1>3, HubAssumption DEF HubComesBack, HasParent, Reversible, Suspending, Types
<1>10. HadOK'
  <2>1. ASSUME NEW m \in had', ~ Unprotected(m)'
        PROVE  Untouched(m)' \/ Saved(m)'
    <3>1. m \in had /\ m \in Model /\ (Untouched(m) \/ Saved(m))
      BY <1>1, <2>1, Fixed DEF Types, Name, HadOK
    <3>2. CASE m = n
      BY <1>1, <1>3, <1>8, <3>1, <3>2 DEF Untouched, Saved, Types
    <3>3. CASE m # n
      BY <1>3, <3>1, <3>3 DEF Untouched, Saved, Types
    <3>4. QED
      BY <3>2, <3>3
  <2>2. QED
    BY <1>1, <2>1 DEF HadOK, Suspending
<1>11. Erasing'
  BY <1>1, Fixed DEF Erasing, Waiting, Tables, Name
<1>12. QED
  BY <1>4, <1>5, <1>6, <1>7, <1>9, <1>10, <1>11

-----------------------------------------------------------------------------
(* The specification keeps the invariant, in production.                   *)
LEMMA RegistryInvariance == ASSUME Production PROVE Spec => []RegistryInv
<1>1. RegistryInv /\ [Next]_vars => RegistryInv'
  <2> SUFFICES ASSUME RegistryInv, [Next]_vars PROVE RegistryInv'
    OBVIOUS
  <2>1. CASE UNCHANGED vars
    BY <2>1 DEF vars, RegistryInv, Types, Checked, HubOK, TodoOK, BackupOK, HadOK,
                HubComesBack, Erasing, Violations, HasParent, Passing, Unused, Waiting,
                Reversible, Suspending, Saved, Untouched, Tables, Immediate, Registered,
                Kept, Misnamed, Unprotected, RegistryError, Unclassified, Misconfigured
  <2>2. QED
    BY <2>1, StartStep, WriteStep, RequestStep, ProcessSuspensionStep, DeletionSteps,
       EndPassStep, RecoverStep, ResumeStep, ExpiryStep, ThrowStep, ProcessStep,
       RestoreStep
       DEF Next
<1>2. QED
  BY <1>1, InvInit, PTL DEF Spec

(* "Every table in GDPR_INCLUDED_TABLES MUST be fully backed up before any *)
(* destructive operation during suspension": whatever registry passes the  *)
(* check that startup makes in production, what an account had is in its   *)
(* tables or in a backup that a recovery will use.                         *)
THEOREM SuspensionsAreReversible == ASSUME Production PROVE Spec => []SuspensionIsReversible
<1>1. RegistryInv => SuspensionIsReversible
  BY DEF RegistryInv, HadOK, SuspensionIsReversible, Reversible, Suspending, Saved, Untouched
<1>2. QED
  BY <1>1, RegistryInvariance, PTL

(* "GDPR deletion must remove ALL user data": what is left of an account   *)
(* that is suspended, expired or deleted, the check has let the registry   *)
(* keep.                                                                   *)
THEOREM ErasuresAreComplete == ASSUME Production PROVE Spec => []ErasureIsComplete
<1>1. RegistryInv => ErasureIsComplete
  <2> SUFFICES ASSUME RegistryInv, account \in {"suspended", "expired", "deleted"},
                      NEW m \in Model, content[m] = "original"
               PROVE  \/ ~ Registered(m) /\ (registry[m].excluded \/ Column[m] # "identityId")
                      \/ Misnamed(m)
    BY DEF ErasureIsComplete
  <2>1. ~ Registered(m) \/ Misnamed(m)
    BY DEF RegistryInv, Erasing, Waiting
  <2>2. Violations = {}
    BY DEF RegistryInv, Checked
  <2>3. (registry[m].included <=> Registered(m)) /\ ~ Unclassified(m)
    BY <2>2, Vouched DEF RegistryInv, Name
  <2>4. QED
    BY <2>1, <2>3 DEF Unclassified
<1>2. QED
  BY <1>1, RegistryInvariance, PTL
=============================================================================
