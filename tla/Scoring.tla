-------------------------------- MODULE Scoring --------------------------------
(***************************************************************************)
(* Filter-1 scoring of one submitted application: tryScore of              *)
(* PortalApplicationService and the scoring service it calls, run by the   *)
(* submission itself and by a cron that retries every minute.              *)
(*                                                                         *)
(* A run inserts one row per parameter, fills it in later, and then sums   *)
(* whatever parameter rows the application has by now, its own and those   *)
(* of other runs alike; nothing ever removes a row.  The rows are kept as  *)
(* what that query tells of them: how many are unfinished, and the sum of  *)
(* the finished ones, in hundredths of a point, up to a Cap above every    *)
(* band.                                                                   *)
(***************************************************************************)
EXTENDS Naturals, FiniteSets, FiniteSetsExt

CONSTANTS
    Parameters,      \* parameters of the default profile
    SubParameters,   \* their sub-parameters
    ParameterOf,     \* the parameter of a sub-parameter
    Worth,           \* what a met sub-parameter adds to the total
    MetByZero,       \* sub-parameters whose threshold rule a zero meets
    Low, Medium, High,  \* the bands: [min, max]
    Cap,             \* totals above every band, as one value
    Reports,         \* the reports that may land: what each measure is
    MayComeLate,     \* may the report land after the submission?
    Runs,            \* runs of tryScore that may overlap
    MaxFaults,       \* bound on crashes and failed statements
    NONE             \* SQL null

Measures == {"missing", "meets", "fails"}

ASSUME ConstantsAssumption ==
    /\ IsFiniteSet(SubParameters)
    /\ ParameterOf \in [SubParameters -> Parameters]
    /\ Worth \in [SubParameters -> Nat]
    /\ MetByZero \subseteq SubParameters
    /\ \A band \in {Low, Medium, High} : band \in [min : Nat, max : 0..(Cap - 1)]
    /\ Cap \in Nat
    /\ Reports \subseteq [SubParameters -> Measures]
    /\ MayComeLate \in BOOLEAN
    /\ MaxFaults \in Nat
    /\ NONE \notin Nat \cup {"LOW", "MEDIUM", "HIGH"}

VARIABLES
    status,      \* application.applicationStatus
    landed,      \* has the financial credit report landed?
    report,      \* the measures the report gives
    scoringRow,  \* is there a risk_application_scoring row?
    finished,    \* sum over the finished parameter rows
    unfinished,  \* number of parameter rows without a weighted score
    total,       \* risk_filter_1_total_score
    category,    \* risk_filter_1_category
    run,         \* per run: where it is and what it has read
    faults       \* faults so far

rows == <<finished, unfinished>>
verdict == <<total, category>>
vars == <<status, landed, report, scoringRow, rows, verdict, run, faults>>

Categories == {"LOW", "MEDIUM", "HIGH", NONE}

NoReport == [s \in SubParameters |-> "missing"]

Idle == [pc |-> "idle", todo |-> {}, inHand |-> NONE, measures |-> NoReport,
         total |-> NONE, category |-> NONE]

Init ==
    /\ status = "SUBMITTED"
    /\ landed \in BOOLEAN
    /\ landed \/ MayComeLate
    /\ report \in IF landed THEN Reports ELSE {NoReport}
    /\ scoringRow = FALSE
    /\ finished = 0 /\ unfinished = 0
    /\ total = NONE /\ category = NONE
    /\ run = [r \in Runs |-> Idle]
    /\ faults = 0

\* The pipeline stores the financial credit report.
Land ==
    /\ ~landed
    /\ landed' = TRUE
    /\ report' \in Reports
    /\ UNCHANGED <<status, scoringRow, rows, verdict, run, faults>>

-----------------------------------------------------------------------------
(* The scoring algorithm. *)

\* getValueFromCreditReport finds a field that is null, and Number(null) is 0:
\* a missing measure is compared like a zero.
Meets(m, s) == m[s] = "meets" \/ (m[s] = "missing" /\ s \in MetByZero)

SumOf(S) == MapThenSumSet(LAMBDA s : Worth[s], S)

\* Mutant: a sub-parameter without a matching rule earns its weight.
EarnedUnmatched(p, m) == SumOf({s \in SubParameters : ParameterOf[s] = p})

\* What a parameter's row adds to the total.
Earned(p, m) == SumOf({s \in SubParameters : ParameterOf[s] = p /\ Meets(m, s)})

AtMostCap(n) == IF n < Cap THEN n ELSE Cap

In(band, n) == n >= band.min /\ n <= band.max

CategoryOf(n) == CASE In(Low, n)    -> "LOW"
                   [] In(Medium, n) -> "MEDIUM"
                   [] In(High, n)   -> "HIGH"
                   [] OTHER         -> NONE

-----------------------------------------------------------------------------
(* A run of tryScore. *)

Begin(r) ==
    /\ run[r] = Idle
    /\ status = "SUBMITTED"
    /\ run' = [run EXCEPT ![r].pc = IF scoringRow THEN "read" ELSE "open"]
    /\ UNCHANGED <<status, landed, report, scoringRow, rows, verdict, faults>>

\* applicationId is unique: of two runs that saw no row, one is deferred.
Open(r) ==
    /\ run[r].pc = "open"
    /\ scoringRow' = TRUE
    /\ run' = [run EXCEPT ![r] = IF scoringRow THEN Idle ELSE [@ EXCEPT !.pc = "read"]]
    /\ UNCHANGED <<status, landed, report, rows, verdict, faults>>

ReadReport(r) ==
    /\ run[r].pc = "read"
    /\ run' = [run EXCEPT ![r].pc = "score", ![r].todo = Parameters,
                          ![r].measures = report]
    /\ UNCHANGED <<status, landed, report, scoringRow, rows, verdict, faults>>

InsertRow(r, p) ==
    /\ run[r].pc = "score"
    /\ p \in run[r].todo
    /\ unfinished' = unfinished + 1
    /\ run' = [run EXCEPT ![r].pc = "fill", ![r].inHand = p,
                          ![r].todo = run[r].todo \ {p}]
    /\ UNCHANGED <<status, landed, report, scoringRow, finished, verdict, faults>>

\* Mutant: the next parameter is not waited for.
FillLast(r) ==
    /\ run[r].pc = "fill"
    /\ unfinished' = unfinished - 1
    /\ finished' = AtMostCap(finished + Earned(run[r].inHand, run[r].measures))
    /\ \/ run' = [run EXCEPT ![r].pc = "score", ![r].inHand = NONE]
       \/ run' = [run EXCEPT ![r].pc = "score", ![r].inHand = NONE, ![r].todo = {}]
    /\ UNCHANGED <<status, landed, report, scoringRow, verdict, faults>>

FillRow(r) ==
    /\ run[r].pc = "fill"
    /\ unfinished' = unfinished - 1
    /\ finished' = AtMostCap(finished + Earned(run[r].inHand, run[r].measures))
    /\ run' = [run EXCEPT ![r].pc = "score", ![r].inHand = NONE]
    /\ UNCHANGED <<status, landed, report, scoringRow, verdict, faults>>

\* Mutant: a total of zero is taken for a missing one.
SumTruthy(r) ==
    /\ run[r].pc = "score" /\ run[r].todo = {}
    /\ run' = [run EXCEPT ![r] =
                 IF unfinished > 0 \/ finished = 0 THEN Idle
                 ELSE [@ EXCEPT !.pc = "save", !.total = finished,
                                !.category = CategoryOf(finished)]]
    /\ UNCHANGED <<status, landed, report, scoringRow, rows, verdict, faults>>

\* Any unfinished row, of whichever run, makes the sum throw.
Sum(r) ==
    /\ run[r].pc = "score" /\ run[r].todo = {}
    /\ run' = [run EXCEPT ![r] =
                 IF unfinished > 0 THEN Idle
                 ELSE [@ EXCEPT !.pc = "save", !.total = finished,
                                !.category = CategoryOf(finished)]]
    /\ UNCHANGED <<status, landed, report, scoringRow, rows, verdict, faults>>

SaveScore(r) ==
    /\ run[r].pc = "save"
    /\ total' = run[r].total /\ category' = run[r].category
    /\ run' = [run EXCEPT ![r].pc = "reread"]
    /\ UNCHANGED <<status, landed, report, scoringRow, rows, faults>>

\* tryScore reads the application and its score again.
Reread(r) ==
    /\ run[r].pc = "reread"
    /\ run' = [run EXCEPT ![r] =
                 IF category = NONE THEN Idle
                 ELSE [@ EXCEPT !.pc = "decide", !.total = total,
                                !.category = category]]
    /\ UNCHANGED <<status, landed, report, scoringRow, rows, verdict, faults>>

\* Mutant: the application gets the status meant for its score.
DecideApproved(r) ==
    /\ run[r].pc = "decide"
    /\ status' = IF run[r].category # "HIGH" THEN "APPROVED" ELSE "REJECTED"
    /\ total' = run[r].total /\ category' = run[r].category
    /\ run' = [run EXCEPT ![r] = Idle]
    /\ UNCHANGED <<landed, report, scoringRow, rows, faults>>

\* Mutant: LOW alone passes.
DecideLow(r) ==
    /\ run[r].pc = "decide"
    /\ status' = IF run[r].category = "LOW" THEN "SCORED_PASS" ELSE "SCORED_FAIL"
    /\ total' = run[r].total /\ category' = run[r].category
    /\ run' = [run EXCEPT ![r] = Idle]
    /\ UNCHANGED <<landed, report, scoringRow, rows, faults>>

\* The transaction that saves the application and its score as read.
Decide(r) ==
    /\ run[r].pc = "decide"
    /\ status' = IF run[r].category # "HIGH" THEN "SCORED_PASS" ELSE "SCORED_FAIL"
    /\ total' = run[r].total /\ category' = run[r].category
    /\ run' = [run EXCEPT ![r] = Idle]
    /\ UNCHANGED <<landed, report, scoringRow, rows, faults>>

\* A statement throws, or the process dies: the rows stay as they are.
Abort(r) ==
    /\ run[r] # Idle
    /\ faults < MaxFaults
    /\ faults' = faults + 1
    /\ run' = [run EXCEPT ![r] = Idle]
    /\ UNCHANGED <<status, landed, report, scoringRow, rows, verdict>>

Step(r) ==
    \/ Begin(r) \/ Open(r) \/ ReadReport(r)
    \/ \E p \in Parameters : InsertRow(r, p)
    \/ FillRow(r) \/ Sum(r) \/ SaveScore(r) \/ Reread(r) \/ Decide(r)

Next == Land \/ \E r \in Runs : Step(r) \/ Abort(r)

Spec == Init /\ [][Next]_vars

-----------------------------------------------------------------------------
\* Every variable holds a value the code can give it.
TypeOK ==
    /\ status \in {"SUBMITTED", "SCORED_PASS", "SCORED_FAIL"}
    /\ landed \in BOOLEAN /\ scoringRow \in BOOLEAN
    /\ report \in [SubParameters -> Measures]
    /\ finished \in 0..Cap /\ unfinished \in Nat
    /\ total \in 0..Cap \cup {NONE} /\ category \in Categories
    /\ run \in [Runs -> [pc : {"idle", "open", "read", "score", "fill", "save",
                               "reread", "decide"},
                         todo : SUBSET Parameters,
                         inHand : Parameters \cup {NONE},
                         measures : [SubParameters -> Measures],
                         total : 0..Cap \cup {NONE}, category : Categories]]
    /\ faults \in Nat

\* The score the profile defines: the worth of what the report meets.
ProfileScore == SumOf({s \in SubParameters : report[s] = "meets"})

\* However runs overlap and wherever one dies, no total leaves a parameter of
\* the profile out: what is summed includes all a run has just scored.
NothingLeftOut == total # NONE => total >= ProfileScore

\* A verdict is the one the score and category saved with it call for, also
\* when runs failed halfway before.
VerdictFitsScore ==
    /\ status = "SCORED_PASS" => In(Low, total) \/ In(Medium, total)
    /\ status = "SCORED_FAIL" => In(High, total)

Classified == CategoryOf(ProfileScore) # NONE

\* Runs that neither overlap nor fail score an application whose report has
\* landed and whose score a band takes: exactly, and once.
ScoreIsExact ==
    status # "SUBMITTED" /\ Classified =>
        total = ProfileScore /\ category = CategoryOf(ProfileScore)

\* Such an application is scored in the end.
ClassifiedIsScored == Classified ~> status # "SUBMITTED"

\* portal-application.service.ts: scoring "silently defers when the financial
\* credit report has not flowed through the pipeline yet".
DefersWithoutReport == status # "SUBMITTED" => landed

\* risk-quantitative-profile-scoring.service.ts: "Weighted total: ... the
\* profile total applies the parameter-level weight", once per parameter.
TotalIsWeighted == total # NONE => total = ProfileScore

\* risk-quantitative-profile-scoring.service.ts: "Skip if data from financial
\* credit report not found": a missing measure earns nothing.
MissingEarnsNothing == status # "SUBMITTED" => total <= ProfileScore

\* portal-application.service.ts: an application that was not scored at once,
\* "the cron below picks it up".
EveryoneIsScored == landed ~> status # "SUBMITTED"
=============================================================================
