------------------------ MODULE ExportMeetsDeletion ------------------------
(***************************************************************************)
(* The exports of one account and the deletion of that account, together.  *)
(*                                                                         *)
(* An export reads the tables of the account one after the other, builds   *)
(* a document of what it found and stores it; the deletion locks the       *)
(* account, cancels its exports, and erases the same tables.  Neither      *)
(* looks at what the other is doing: they meet in the rows of              *)
(* gdpr_requests and in the tables they read and erase.                    *)
(*                                                                         *)
(* The pipeline is GdprExport, whose actions are taken over one by one;    *)
(* all of its requests belong to the one account.  What GdprDeletion shows *)
(* of workers that erase at the same time is not repeated here: the        *)
(* erasure is one pass, begun anew after a failure.                        *)
(***************************************************************************)
EXTENDS GdprExport, Sequences

VARIABLES
  data,      \* the tables that have rows of the account
  deletion,  \* how far the deletion is
  doomed,    \* the PENDING exports that requestDeletion found
  left,      \* left[p]: the tables pass p has yet to erase
  calls,     \* calls of the user under way that passed the status guard
  late,      \* history: what was under way when the account was locked
  mishaps,   \* errors of the deletion and of the collection
  copy,      \* copy[w]: what worker w has collected
  contents   \* contents[k]: what is in the file k

accountVars == <<data, deletion, doomed, left, calls, late, mishaps>>
jointVars == <<vars, accountVars, copy, contents>>

(* "preferences" are UserNotificationProfile and the channels that belong  *)
(* to it, which are read and erased together.                              *)
Table == {"profile", "notifications", "preferences"}
Immediate == {"preferences"}

Pass == {"purge", "erase"}
Call == {"export", "download", "write"}

Deletion == {"none", "marked", "cancelling", "requested", "erasing", "done"}

(* What the collection reads, in this order.                               *)
Sources == <<"identity", "profile", "notifications", "preferences", "built">>
Source == {Sources[n] : n \in 1 .. 4}

Copy == [reading : {"nothing", "notice", "built"} \cup Source, got : SUBSET Table,
         early : BOOLEAN]
Blank == [reading |-> "nothing", got |-> {}, early |-> FALSE]

(* Every variable stays in its range.                                      *)
JointTypeOK ==
  /\ TypeOK
  /\ data \subseteq Table
  /\ deletion \in Deletion
  /\ doomed \subseteq Request
  /\ left \in [Pass -> SUBSET Table]
  /\ calls \subseteq Call
  /\ late \subseteq Call \cup {"notice"}
  /\ mishaps \in 0 .. MaxFaults
  /\ copy \in [Worker -> Copy]
  /\ contents \in [objects -> [has : SUBSET Table, early : BOOLEAN]]

JointInit ==
  /\ Init
  /\ data \in SUBSET Table
  /\ deletion = "none"
  /\ doomed = {}
  /\ left = [p \in Pass |-> {}]
  /\ calls = {} /\ late = {}
  /\ mishaps = 0
  /\ copy = [w \in Worker |-> Blank]
  /\ contents = << >>

Locked == deletion # "none"

Mishap == mishaps < MaxFaults /\ mishaps' = mishaps + 1

-----------------------------------------------------------------------------
(* MUTANT of Enter: the route has no IdentityStatusGuard.                  *)
EnterUnguarded(c) ==
  /\ calls = {}
  /\ c = "export" => ~ hasPendingRequest(Request)
  /\ calls' = {c}
  /\ UNCHANGED <<vars, data, deletion, doomed, left, late, copy, mishaps, contents>>

(* The user, who makes one call at a time beside the deletion.             *)
(* IdentityStatusGuard admits a call while the account is not marked; what *)
(* the call does comes later.                                              *)
Enter(c) ==
  /\ ~ Locked /\ calls = {}
  /\ c = "export" => ~ hasPendingRequest(Request)
  /\ calls' = {c}
  /\ UNCHANGED <<vars, data, deletion, doomed, left, late, copy, mishaps, contents>>

AskForExport(r) ==
  /\ "export" \in calls
  /\ requestExport(r)
  /\ calls' = {}
  /\ UNCHANGED <<data, deletion, doomed, left, late, copy, mishaps, contents>>

MeetOverdue(r) ==
  /\ "download" \in calls
  /\ ExpireOnDownload(r)
  /\ calls' = {}
  /\ UNCHANGED <<data, deletion, doomed, left, late, copy, mishaps, contents>>

(* A profile is created or changed, a channel is added, ...                *)
Write ==
  /\ "write" \in calls
  /\ \E t \in {"profile", "preferences"} : data' = data \cup {t}
  /\ calls' = {}
  /\ UNCHANGED <<vars, deletion, doomed, left, late, copy, mishaps, contents>>

-----------------------------------------------------------------------------
(* requestDeletion.                                                        *)
markAsPendingDeletion ==
  /\ deletion = "none"
  /\ deletion' = "marked"
  /\ late' = calls \cup {"notice" : w \in {w \in Worker : copy[w].reading = "notice"}}
  /\ UNCHANGED <<vars, data, doomed, left, calls, copy, mishaps, contents>>

(* cancelPendingExportRequests: the rows are read, and then cancelled one  *)
(* by one.                                                                 *)
FindExports ==
  /\ deletion = "marked"
  /\ deletion' = "cancelling"
  /\ doomed' = {r \in Request : status[r] = "PENDING"}
  /\ UNCHANGED <<vars, data, left, calls, late, copy, mishaps, contents>>

(* MUTANT of CancelExport: update in the place of updateMany.              *)
CancelWhateverItIs(r) ==
  /\ r \in doomed /\ \A q \in doomed : r <= q
  /\ SetStatus(r, "CANCELLED")
  /\ UNCHANGED <<exportVars, workerVars, objects, sent, cleanupVars, abandoned, faults>>
  /\ doomed' = doomed \ {r}
  /\ UNCHANGED <<data, deletion, left, calls, late, mishaps, copy, contents>>

CancelExport(r) ==
  /\ r \in doomed /\ \A q \in doomed : r <= q
  /\ Cancel(r)
  /\ doomed' = doomed \ {r}
  /\ UNCHANGED <<data, deletion, left, calls, late, copy, mishaps, contents>>

(* An error in either is logged, and the deletion goes on.                 *)
CancellingFails ==
  /\ deletion = "marked" \/ (deletion = "cancelling" /\ doomed # {})
  /\ Mishap
  /\ deletion' = "cancelling" /\ doomed' = {}
  /\ UNCHANGED <<vars, data, left, calls, late, copy, contents>>

(* The row of the deletion is created, for any worker to claim, while      *)
(* deleteImmediateTables is still to come.                                 *)
OpenDeletion ==
  /\ deletion = "cancelling" /\ doomed = {}
  /\ deletion' = "requested"
  /\ left' = [left EXCEPT !["purge"] = Immediate]
  /\ UNCHANGED <<vars, data, doomed, calls, late, copy, mishaps, contents>>

(* The call dies.  An account that is marked and has no request is given   *)
(* one when its grace period is over.                                      *)
DeletionInterrupted ==
  /\ deletion \in {"marked", "cancelling"} \/ left["purge"] # {}
  /\ Mishap
  /\ deletion' = IF deletion \in {"marked", "cancelling"} THEN "requested" ELSE deletion
  /\ doomed' = {}
  /\ left' = [left EXCEPT !["purge"] = {}]
  /\ UNCHANGED <<vars, data, calls, late, copy, contents>>

-----------------------------------------------------------------------------
(* The erasure.                                                            *)
StartErasing ==
  /\ deletion = "requested"
  /\ deletion' = "erasing"
  /\ left' = [left EXCEPT !["erase"] = Table]
  /\ UNCHANGED <<vars, data, doomed, calls, late, copy, mishaps, contents>>

(* The order of the registry.                                              *)
EraseOrder == <<"profile", "notifications", "preferences">>

First(T) == EraseOrder[CHOOSE n \in 1 .. 3 :
                         EraseOrder[n] \in T /\ \A m \in 1 .. n - 1 : EraseOrder[m] \notin T]

EraseTable(p) ==
  /\ left[p] # {}
  /\ LET t == First(left[p]) IN
       /\ data' = data \ {t}
       /\ left' = [left EXCEPT ![p] = @ \ {t}]
  /\ UNCHANGED <<vars, deletion, doomed, calls, late, copy, mishaps, contents>>

(* The request fails; the grace period job makes a new one.                *)
ErasingFails ==
  /\ deletion = "erasing"
  /\ Mishap
  /\ deletion' = "requested"
  /\ left' = [left EXCEPT !["erase"] = {}]
  /\ UNCHANGED <<vars, data, doomed, calls, late, copy, contents>>

(* MUTANT of anonymizeIdentity: the mark is set while tables are left.     *)
anonymizeIdentityEarly ==
  /\ deletion = "erasing"
  /\ deletion' = "done"
  /\ UNCHANGED <<vars, data, doomed, left, calls, late, copy, mishaps, contents>>

anonymizeIdentity ==
  /\ deletion = "erasing" /\ left["erase"] = {}
  /\ deletion' = "done"
  /\ UNCHANGED <<vars, data, doomed, left, calls, late, copy, mishaps, contents>>

-----------------------------------------------------------------------------
(* The export.                                                             *)
Becomes(w, c) == copy' = [copy EXCEPT ![w] = c]

ClaimExport(w) ==
  /\ Claim(w)
  /\ Becomes(w, [Blank EXCEPT !.reading = "identity", !.early = deletion # "done"])
  /\ UNCHANGED <<accountVars, contents>>

Following(s) == Sources[1 + CHOOSE n \in 1 .. 4 : Sources[n] = s]

(* The source has rows of the account; the row of the identity is never    *)
(* erased.                                                                 *)
Found(c) == c.reading \in data

(* collectUserData reads one source after the other.                       *)
Collect(w) ==
  LET c == copy[w] IN
  /\ stage[w] = "started" /\ c.reading \in Source
  /\ Becomes(w, [c EXCEPT !.got = IF Found(c) THEN @ \cup {c.reading} ELSE @,
                          !.reading = Following(@)])
  /\ UNCHANGED <<vars, accountVars, contents>>

(* Without the identity the collection is given up; any other source is    *)
(* left out, and the collection goes on.                                   *)
IdentityFails(w) ==
  /\ copy[w].reading = "identity"
  /\ Mishap
  /\ Prepare(w) /\ stage'[w] = "failing"
  /\ Becomes(w, Blank)
  /\ UNCHANGED <<data, deletion, doomed, left, calls, late, contents>>

SourceFails(w) ==
  /\ copy[w].reading \in Source \ {"identity"}
  /\ Mishap
  /\ Becomes(w, [copy[w] EXCEPT !.reading = Following(@)])
  /\ UNCHANGED <<vars, data, deletion, doomed, left, calls, late, contents>>

(* A part that is missing or empty gets no section.                        *)
Sections(w) == copy[w].got

(* buildDocument, of which rendering and packaging leave out nothing.      *)
Document(w) == [has |-> Sections(w), early |-> copy[w].early]

BuildAndRender(w) ==
  /\ copy[w].reading = "built"
  /\ Prepare(w)
  /\ Becomes(w, IF stage'[w] = "rendered" THEN copy[w] ELSE Blank)
  /\ UNCHANGED <<accountVars, contents>>

StoreFile(w) ==
  /\ Store(w) \/ StoreThrows(w)
  /\ contents' = [k \in objects' |-> IF k \in objects THEN contents[k] ELSE Document(w)]
  /\ Becomes(w, Blank)
  /\ UNCHANGED accountVars

DeleteFile ==
  /\ \/ \E w \in Worker : CleanUp(w)
     \/ \E r \in Request : SweepDelete(r) \/ DropFile(r)
  /\ contents' = [k \in objects' |-> contents[k]]
  /\ UNCHANGED <<accountVars, copy>>

(* MUTANT of MayBeNotified: the status of the identity is not looked at.   *)
MayBeReached == "preferences" \in data

(* notifyUser: nothing is written for an account that is locked or has no  *)
(* channel.                                                                *)
MayBeNotified == ~ Locked /\ "preferences" \in data

Notify(w) == NotifyReady(w) \/ Report(w)

CheckOwner(w) ==
  /\ stage[w] \in {"persisted", "reporting"} /\ copy[w].reading = "nothing"
  /\ IF MayBeNotified
       THEN Becomes(w, [Blank EXCEPT !.reading = "notice"]) /\ UNCHANGED vars
       ELSE Notify(w) /\ UNCHANGED copy
  /\ UNCHANGED <<accountVars, contents>>

(* The entry is written after the check, whatever happened meanwhile.      *)
WriteNotice(w) ==
  /\ copy[w].reading = "notice"
  /\ Notify(w)
  /\ data' = data \cup {"notifications"}
  /\ Becomes(w, Blank)
  /\ UNCHANGED <<deletion, doomed, left, calls, late, mishaps, contents>>

(* Everything else is as in GdprExport.                                    *)
Pipeline(w) == Complete(w) \/ Persist(w) \/ Finish(w) \/ Abort(w) \/ FailRequest(w)

GoOn(w) ==
  /\ Pipeline(w) \/ CompleteUnacknowledged(w)
  /\ UNCHANGED <<accountVars, copy, contents>>

Stop(w) ==
  /\ Throw(w) \/ Crash(w)
  /\ Becomes(w, Blank)
  /\ UNCHANGED <<accountVars, contents>>

(* MUTANT of Retention: the sweep joins the identities that still exist.   *)
RetentionOfTheLiving ==
  /\ \/ \E r \in Request : Overdue(r) \/ SweepMark(r)
     \/ deletion # "done" /\ SweepStart
     \/ SweepFails \/ Tick
  /\ UNCHANGED <<accountVars, copy, contents>>

Retention ==
  /\ \/ \E r \in Request : Overdue(r) \/ SweepMark(r)
     \/ SweepStart \/ SweepFails \/ Tick
  /\ UNCHANGED <<accountVars, copy, contents>>

-----------------------------------------------------------------------------
JointStep ==
  \/ \E c \in Call : Enter(c)
  \/ \E r \in Request : AskForExport(r) \/ MeetOverdue(r) \/ CancelExport(r)
  \/ Write \/ markAsPendingDeletion \/ FindExports \/ CancellingFails \/ OpenDeletion
  \/ DeletionInterrupted \/ StartErasing \/ ErasingFails \/ anonymizeIdentity
  \/ \E p \in Pass : EraseTable(p)
  \/ \E w \in Worker :
       \/ ClaimExport(w) \/ Collect(w) \/ IdentityFails(w) \/ SourceFails(w)
       \/ BuildAndRender(w) \/ StoreFile(w) \/ CheckOwner(w) \/ WriteNotice(w)
       \/ GoOn(w) \/ Stop(w)
  \/ DeleteFile \/ Retention

(* Bound: the errors of both sides are counted together.                   *)
JointNext == JointStep /\ faults' + mishaps' <= MaxFaults

JointSpec == JointInit /\ [][JointNext]_jointVars

(* The jobs are run again and again and go on once begun, the deletion of  *)
(* the account among them; exports come of age.  The user need not act.    *)
JointFairness ==
  /\ WF_jointVars(Retention)
  /\ WF_jointVars(DeleteFile)
  /\ WF_jointVars(StartErasing) /\ WF_jointVars(anonymizeIdentity)
  /\ \A p \in Pass : WF_jointVars(EraseTable(p))
  /\ \A w \in Worker :
       /\ WF_jointVars(ClaimExport(w))
       /\ WF_jointVars(Collect(w) \/ BuildAndRender(w) \/ StoreFile(w) \/ GoOn(w)
                        \/ CheckOwner(w) \/ WriteNotice(w))

FairJointSpec == JointSpec /\ JointFairness

-----------------------------------------------------------------------------
(* "Cancel any in-progress GDPR export requests": once requestDeletion has *)
(* looked them up and cancelled them, no export of the account waits to be *)
(* collected, but for a call that was under way when the account was       *)
(* locked, and unless an error was passed over.                            *)
NothingLeftPending ==
  deletion \in {"requested", "erasing", "done"} /\ doomed = {} /\ mishaps = 0
      /\ "export" \notin late
    => \A r \in Request : status[r] # "PENDING"

(* When the account is marked as deleted nothing of it is left in the      *)
(* tables, and it stays that way; an export that is claimed afterwards     *)
(* finds nothing.  Only a call or a notification under way when the        *)
(* account was locked can bring something back.                            *)
ErasedStaysErased ==
  deletion = "done" /\ late \cap {"write", "notice"} = {} =>
    /\ data = {}
    /\ \A k \in objects : contents[k].has # {} => contents[k].early

(* After an erasure the files with personal data disappear as well, those  *)
(* that were collected before it and stored later included, unless nobody  *)
(* knows of them any more: see OrphansAreExplained.                        *)
Forgotten(k) ==
  k # FileOf(k[1]) \/ k \in abandoned \/ status[k[1]] = "CANCELLED" \/ claims[k[1]] > 1

PersonalFilesEnd ==
  <>(deletion = "done")
    => <>[](\A k \in objects : contents[k].has # {} => Forgotten(k))

(* With everything that the deletion does around it the pipeline is still  *)
(* the one of GdprExport: what holds of that holds here.                   *)
ImplementsExport == Spec
=============================================================================
