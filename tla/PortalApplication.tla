--------------------------- MODULE PortalApplication ---------------------------
(***************************************************************************)
(* The web-intake applications of apps/risk-operation: the applicant's     *)
(* draft and its submission, scoring by the submission and by a cron, the  *)
(* RM's override, the breach that closes a failed application and the      *)
(* offer that takes a passed one into review.                              *)
(*                                                                         *)
(* As with offers, a handler reads the application, changes the entity and *)
(* saves it later, with no lock or version: the save selects the row       *)
(* again, compares, and updates the columns that differ (Compare, Commit). *)
(* What the scoring service does is Scoring's subject; here it gives a     *)
(* category or defers.                                                     *)
(***************************************************************************)
EXTENDS Naturals, FiniteSets

CONSTANTS
    AppIds,         \* ids of application (bounds the rows), in id order
    Organisations,  \* applicants
    Payloads,       \* what the wizard holds
    Complete,       \* payloads submit() finds no error in
    Workers,        \* handlers in flight: requests, messages and cron runs
    TakeLimit,      \* applications one cron run lists (20 in the code)
    MaxFaults,      \* bound on failed transactions and crashes
    NONE            \* SQL null

ASSUME ConstantsAssumption ==
    /\ AppIds \subseteq Nat /\ IsFiniteSet(AppIds)
    /\ Complete \subseteq Payloads
    /\ TakeLimit \in Nat \ {0}
    /\ MaxFaults \in Nat
    /\ NONE \notin Organisations /\ NONE \notin Payloads /\ NONE \notin AppIds
    /\ NONE \notin {"absent", "LOW", "MEDIUM", "HIGH"}

VARIABLES
    apps,      \* application: id -> row
    category,  \* risk_application_scoring: "absent", null or the category
    scorable,  \* applications the scoring service finds a category for
    records,   \* per application: audit and outbox rows inserted so far
    scorings,  \* APPLICATION_SCORED events of tryScore, up to two
    queue,     \* per worker: applications its cron run has still to visit
    pending,   \* per worker: what it is about to do
    faults     \* faults so far

data == <<apps, category, records, scorings>>
vars == <<data, scorable, queue, pending, faults>>

Current == {"DRAFT", "SUBMITTED", "SCORED_PASS", "SCORED_FAIL", "IN_CRC_REVIEW"}
Status  == Current \cup {"ABSENT", "CLOSED_ARCHIVED"}
Band    == {"LOW", "MEDIUM", "HIGH"}

Row == [status : Status, organisation : Organisations \cup {NONE},
        payload : Payloads \cup {NONE}, overridden : BOOLEAN]

AbsentRow == [status |-> "ABSENT", organisation |-> NONE, payload |-> NONE,
              overridden |-> FALSE]

DraftRow(o) == [status |-> "DRAFT", organisation |-> o, payload |-> NONE,
                overridden |-> FALSE]

Record == {"PASS", "FAIL", "OVERRIDDEN_TO_PASS", "SLA_START", "SLA_CANCEL",
           "STATUS_OVERRIDDEN"}

Columns == {"status", "payload", "overridden"}

Idle == [op |-> "idle"]

Pending ==
    {Idle} \cup [op : {"insert"}, row : Row]
           \cup [op : {"update"}, app : AppIds, row : Row, records : SUBSET Record,
                 then : {"idle", "try"}]
           \cup [op : {"write"}, app : AppIds, row : Row, changed : SUBSET Columns,
                 records : SUBSET Record, then : {"idle", "try"}]
           \cup [op : {"try", "score", "reread"}, app : AppIds]

-----------------------------------------------------------------------------
Init ==
    /\ apps = [a \in AppIds |-> AbsentRow]
    /\ category = [a \in AppIds |-> "absent"]
    /\ scorable \in SUBSET AppIds
    /\ records = [a \in AppIds |-> {}]
    /\ scorings = [a \in AppIds |-> 0]
    /\ queue = [w \in Workers |-> {}]
    /\ pending = [w \in Workers |-> Idle]
    /\ faults = 0

Begin(w, p) ==
    /\ pending[w] = Idle /\ queue[w] = {}
    /\ pending' = [pending EXCEPT ![w] = p]
    /\ UNCHANGED <<data, scorable, queue, faults>>

Go(w, p) ==
    /\ pending' = [pending EXCEPT ![w] = p]
    /\ UNCHANGED <<scorable, queue, faults>>

Update(a, row, recs, then) ==
    [op |-> "update", app |-> a, row |-> row, records |-> recs, then |-> then]

\* findCurrent: the organisation's newest application that is not closed.
CurrentOf(o) ==
    {a \in AppIds :
       /\ apps[a].organisation = o /\ apps[a].status \in Current
       /\ \A b \in AppIds : b > a /\ apps[b].organisation = o =>
                              apps[b].status \notin Current}

-----------------------------------------------------------------------------
(* The applicant. *)

\* The bound on the rows: every insert under way finds an unused id.
RoomForOne ==
    Cardinality({w \in Workers : pending[w].op = "insert"})
      < Cardinality({a \in AppIds : apps[a].status = "ABSENT"})

\* Mutant: a web draft is made in a status of the legacy workflow.
CreateLegacy(w, o) ==
    /\ RoomForOne
    /\ CurrentOf(o) = {}
    /\ Begin(w, [op |-> "insert",
                 row |-> [DraftRow(o) EXCEPT !.status = "PENDING_CLIENT_SUBMISSION"]])

\* Mutant: a new draft is made whatever the organisation has.
CreateDraft(w, o) ==
    /\ RoomForOne
    /\ Begin(w, [op |-> "insert", row |-> DraftRow(o)])

GetOrCreateDraft(w, o) ==
    /\ RoomForOne
    /\ CurrentOf(o) = {}
    /\ Begin(w, [op |-> "insert", row |-> DraftRow(o)])

\* Mutant: a submitted application can still be edited.
SaveAnytime(w, o) ==
    \E a \in CurrentOf(o), p \in Payloads :
      Begin(w, Update(a, [apps[a] EXCEPT !.payload = p], {}, "idle"))

SaveDraft(w, o) ==
    \E a \in CurrentOf(o), p \in Payloads :
      /\ apps[a].status = "DRAFT"
      /\ Begin(w, Update(a, [apps[a] EXCEPT !.payload = p], {}, "idle"))

\* Mutant: an application can be submitted again.
Resubmit(w, o) ==
    \E a \in CurrentOf(o) :
      /\ apps[a].payload \in Complete
      /\ Begin(w, Update(a, [apps[a] EXCEPT !.status = "SUBMITTED"], {}, "try"))

\* After its transaction, the submission tries to score.
Submit(w, o) ==
    \E a \in CurrentOf(o) :
      /\ apps[a].status = "DRAFT"
      /\ apps[a].payload \in Complete
      /\ Begin(w, Update(a, [apps[a] EXCEPT !.status = "SUBMITTED"], {}, "try"))

-----------------------------------------------------------------------------
(* Scoring. *)

\* Mutant: the cron leaves out what an attempt has a scoring row for.
NeverTried == {a \in AppIds : apps[a].status = "SUBMITTED" /\ category[a] = "absent"}

Submitted == {a \in AppIds : apps[a].status = "SUBMITTED"}

\* The cron's list: any TakeLimit submitted applications, in no order.
CronList(w) ==
    /\ pending[w] = Idle /\ queue[w] = {}
    /\ \E S \in SUBSET Submitted :
         /\ S # {}
         /\ S = Submitted \/ Cardinality(S) = TakeLimit
         /\ Cardinality(S) <= TakeLimit
         /\ queue' = [queue EXCEPT ![w] = S]
    /\ UNCHANGED <<data, scorable, pending, faults>>

CronNext(w) ==
    /\ pending[w] = Idle
    /\ \E a \in queue[w] :
         /\ queue' = [queue EXCEPT ![w] = @ \ {a}]
         /\ pending' = [pending EXCEPT ![w] = [op |-> "try", app |-> a]]
    /\ UNCHANGED <<data, scorable, faults>>

\* tryScore: the guard, and the scoring row that is inserted when there is none.
TryScore(w) ==
    /\ pending[w].op = "try"
    /\ LET a == pending[w].app IN
         IF apps[a].status # "SUBMITTED"
         THEN Go(w, Idle) /\ UNCHANGED data
         ELSE /\ category' = [category EXCEPT ![a] = IF @ = "absent" THEN NONE ELSE @]
              /\ Go(w, [op |-> "score", app |-> a])
              /\ UNCHANGED <<apps, records, scorings>>

\* The scoring service saves a category, or the run is deferred.
Score(w) ==
    /\ pending[w].op = "score"
    /\ LET a == pending[w].app IN
         IF a \in scorable
         THEN /\ \E band \in Band : category' = [category EXCEPT ![a] = band]
              /\ Go(w, [op |-> "reread", app |-> a])
              /\ UNCHANGED <<apps, records, scorings>>
         ELSE Go(w, Idle) /\ UNCHANGED data

Passed(a) == category[a] # "HIGH"

\* Mutant: a failed application's clock is not started.
VerdictQuiet(a) ==
    Update(a, [apps[a] EXCEPT !.status = IF Passed(a) THEN "SCORED_PASS" ELSE "SCORED_FAIL"],
           IF Passed(a) THEN {"PASS"} ELSE {"FAIL"}, "idle")

\* The verdict, the event that tells it and the clock of a failed application.
Verdict(a) ==
    Update(a, [apps[a] EXCEPT !.status = IF Passed(a) THEN "SCORED_PASS" ELSE "SCORED_FAIL"],
           IF Passed(a) THEN {"PASS"} ELSE {"FAIL", "SLA_START"}, "idle")

\* The application is read again, its status not looked at.
Reread(w) ==
    /\ pending[w].op = "reread"
    /\ Go(w, Verdict(pending[w].app))
    /\ UNCHANGED data

-----------------------------------------------------------------------------
(* The funder's side. *)

\* Mutant: the override's event is left to the next scoring.
OverrideQuietly(w, a) ==
    /\ apps[a].status = "SCORED_FAIL"
    /\ Begin(w, Update(a, [apps[a] EXCEPT !.status = "SCORED_PASS", !.overridden = TRUE],
                       {"STATUS_OVERRIDDEN", "SLA_CANCEL"}, "idle"))

\* Mutant: any scored application can be overridden, and is logged as such.
OverrideAny(w, a) ==
    /\ apps[a].status \in {"SUBMITTED", "SCORED_FAIL"}
    /\ Begin(w, Update(a, [apps[a] EXCEPT !.status = "SCORED_PASS", !.overridden = TRUE],
                       {"STATUS_OVERRIDDEN", "SLA_CANCEL", "OVERRIDDEN_TO_PASS"},
                       "idle"))

OverrideFailToPass(w, a) ==
    /\ apps[a].status = "SCORED_FAIL"
    /\ Begin(w, Update(a, [apps[a] EXCEPT !.status = "SCORED_PASS", !.overridden = TRUE],
                       {"STATUS_OVERRIDDEN", "SLA_CANCEL"}
                         \cup (IF category[a] = "absent" THEN {}
                               ELSE {"OVERRIDDEN_TO_PASS"}), "idle"))

CloseOnEngagementBreach(w, a) ==
    /\ apps[a].status = "SCORED_FAIL"
    /\ Begin(w, Update(a, [apps[a] EXCEPT !.status = "CLOSED_ARCHIVED"], {}, "idle"))

\* The part of OffersService.create that touches the application.
IntoReview(w, a) ==
    /\ apps[a].status \in {"SCORED_PASS", "IN_CRC_REVIEW"}
    /\ Begin(w, Update(a, [apps[a] EXCEPT !.status = "IN_CRC_REVIEW"], {}, "idle"))

-----------------------------------------------------------------------------
(* Saves and transactions. *)

NextId(a) == /\ apps[a].status = "ABSENT"
             /\ \A b \in AppIds : b < a => apps[b].status # "ABSENT"

\* The columns in which an entity differs from the row.
Changed(old, new) ==
    {c \in Columns : \/ c = "status" /\ old.status # new.status
                     \/ c = "payload" /\ old.payload # new.payload
                     \/ c = "overridden" /\ old.overridden # new.overridden}

Merge(old, new, changed) ==
    [status       |-> IF "status" \in changed THEN new.status ELSE old.status,
     organisation |-> old.organisation,
     payload      |-> IF "payload" \in changed THEN new.payload ELSE old.payload,
     overridden   |-> IF "overridden" \in changed THEN new.overridden
                      ELSE old.overridden]

Compare(w) ==
    /\ pending[w].op = "update"
    /\ LET p == pending[w] IN
         Go(w, [op |-> "write", app |-> p.app, row |-> p.row,
                changed |-> Changed(apps[p.app], p.row),
                records |-> p.records, then |-> p.then])
    /\ UNCHANGED data

Insert(w) ==
    /\ pending[w].op = "insert"
    /\ \E a \in AppIds : NextId(a) /\ apps' = [apps EXCEPT ![a] = pending[w].row]
    /\ Go(w, Idle)
    /\ UNCHANGED <<category, records, scorings>>

AtMostTwo(n) == IF n < 2 THEN n ELSE 2

Commit(w) ==
    /\ pending[w].op = "write"
    /\ LET p == pending[w] IN
         /\ apps' = [apps EXCEPT ![p.app] = Merge(apps[p.app], p.row, p.changed)]
         /\ records' = [records EXCEPT ![p.app] = records[p.app] \cup p.records]
         /\ scorings' = IF p.records \cap {"PASS", "FAIL"} = {} THEN scorings
                        ELSE [scorings EXCEPT ![p.app] = AtMostTwo(scorings[p.app] + 1)]
         /\ Go(w, IF p.then = "try" THEN [op |-> "try", app |-> p.app] ELSE Idle)
    /\ UNCHANGED category

\* A transaction fails or the process dies.
Abort(w) ==
    /\ pending[w] # Idle
    /\ faults < MaxFaults
    /\ faults' = faults + 1
    /\ pending' = [pending EXCEPT ![w] = Idle]
    /\ queue' = [queue EXCEPT ![w] = {}]
    /\ UNCHANGED <<data, scorable>>

\* What a worker that has begun does next.
Proceed(w) ==
    \/ CronNext(w) \/ TryScore(w) \/ Score(w) \/ Reread(w)
    \/ Compare(w) \/ Insert(w) \/ Commit(w)

Step(w) ==
    \/ Proceed(w) \/ CronList(w) \/ Abort(w)
    \/ \E o \in Organisations :
         GetOrCreateDraft(w, o) \/ SaveDraft(w, o) \/ Submit(w, o)
    \/ \E a \in AppIds :
         \/ OverrideFailToPass(w, a) \/ CloseOnEngagementBreach(w, a)
         \/ IntoReview(w, a)

Next == \E w \in Workers : Step(w)

Spec == Init /\ [][Next]_vars

\* The cron fires every minute, also between other work, and what has begun
\* goes on.
Fairness == \A w \in Workers : SF_vars(CronList(w)) /\ WF_vars(Proceed(w))

FairSpec == Spec /\ Fairness

-----------------------------------------------------------------------------
\* Every variable holds a value the code can give it.
TypeOK ==
    /\ apps \in [AppIds -> Row]
    /\ category \in [AppIds -> Band \cup {"absent", NONE}]
    /\ scorable \subseteq AppIds
    /\ records \in [AppIds -> SUBSET Record]
    /\ scorings \in [AppIds -> 0..2]
    /\ queue \in [Workers -> SUBSET AppIds]
    /\ pending \in [Workers -> Pending]
    /\ faults \in Nat

\* Whatever overlaps or fails halfway, an application that passed has told the
\* services that follow, and its event committed with its status.
PassIsAnnounced ==
    \A a \in AppIds : apps[a].status \in {"SCORED_PASS", "IN_CRC_REVIEW"} =>
        records[a] \cap {"PASS", "OVERRIDDEN_TO_PASS"} # {}

\* A failed application is never without its engagement clock, and only one
\* that failed is closed.
FailStartsClock ==
    \A a \in AppIds : apps[a].status \in {"SCORED_FAIL", "CLOSED_ARCHIVED"} =>
        {"FAIL", "SLA_START"} \subseteq records[a]

\* An override is in the audit log, and overrides a verdict that was told.
OverrideIsAudited ==
    \A a \in AppIds : apps[a].overridden =>
        {"FAIL", "STATUS_OVERRIDDEN", "SLA_CANCEL"} \subseteq records[a]

\* However handlers overlap or fail, records vouch for the verdict an application
\* has, for its clock and for its override.
RecordsAgree == PassIsAnnounced /\ FailStartsClock /\ OverrideIsAudited

-----------------------------------------------------------------------------
(* What the comments and messages say: it holds of work that does not *)
(* overlap, and of no other.                                          *)

LifecycleEdges ==
    {<<"ABSENT", "DRAFT">>, <<"DRAFT", "SUBMITTED">>,
     <<"SUBMITTED", "SCORED_PASS">>, <<"SUBMITTED", "SCORED_FAIL">>,
     <<"SCORED_FAIL", "SCORED_PASS">>, <<"SCORED_PASS", "IN_CRC_REVIEW">>,
     <<"SCORED_FAIL", "CLOSED_ARCHIVED">>}

\* application-status.enum.ts: "DRAFT -> SUBMITTED -> SCORED_PASS | SCORED_FAIL
\* -> IN_CRC_REVIEW / CLOSED_ARCHIVED".
LifecycleIsFollowed ==
    [][\A a \in AppIds : \/ apps'[a].status = apps[a].status
                         \/ <<apps[a].status, apps'[a].status>> \in LifecycleEdges]_vars

\* saveDraft: "The application has been submitted and can no longer be edited":
\* the scored payload is the one that was validated.
SubmittedIsFrozen ==
    [][\A a \in AppIds : apps[a].status \notin {"ABSENT", "DRAFT"} =>
                            apps'[a].payload = apps[a].payload]_vars

\* overrideFailToPass: "the application then queues for CRC like any pass".
OverrideStands ==
    \A a \in AppIds : apps[a].overridden =>
        apps[a].status \in {"SCORED_PASS", "IN_CRC_REVIEW"}

\* An application is scored once, and its funder is told one verdict.
ScoredOnce == \A a \in AppIds : scorings[a] <= 1

\* The verdict on an application stands, whether the scoring's or the RM's.
VerdictStands == OverrideStands /\ ScoredOnce

\* getOrCreateDraft: an organisation has one application under way.
OneCurrentPerOrganisation ==
    \A a, b \in AppIds :
        /\ apps[a].status \in Current /\ apps[b].status \in Current
        /\ apps[a].organisation = apps[b].organisation
        => a = b

\* PortalApplicationService: "otherwise a cron retries until the report lands":
\* a submitted application with a category to find is scored in the end.
SubmittedIsScored ==
    \A a \in AppIds :
        apps[a].status = "SUBMITTED" /\ a \in scorable ~> apps[a].status # "SUBMITTED"
=============================================================================
