------------------------------- MODULE MCScoring -------------------------------
(***************************************************************************)
(* Scoring for TLC: the seeded default profile, with its worths in         *)
(* hundredths of a point and its bands.  A behaviour is in one of three    *)
(* modes: serial, one run after the other; retries, the same with a report *)
(* that may come late and runs that fail halfway; overlap, two runs at     *)
(* once, one of which may fail.                                            *)
(***************************************************************************)
EXTENDS Scoring, TLC

CONSTANTS
    Modes,          \* the modes of an instance
    SerialReports,  \* the reports of serial and, with the examples, of retries
    r1, r2

VARIABLE mode

SeedParameters == {"Liquidity", "Leverage", "Coverage", "Assets", "Stability"}

SeedParameterOf ==
    [current |-> "Liquidity", quick |-> "Liquidity",
     debtToEquity |-> "Leverage", gearing |-> "Leverage",
     interest |-> "Coverage",
     turnover |-> "Assets", debtorDays |-> "Assets", creditorDays |-> "Assets",
     growth |-> "Stability", margin |-> "Stability"]

SeedSubParameters == DOMAIN SeedParameterOf

SeedWorth ==
    [current |-> 1500, quick |-> 1500, debtToEquity |-> 1250, gearing |-> 1250,
     interest |-> 1500, turnover |-> 510, debtorDays |-> 495,
     creditorDays |-> 495, growth |-> 750, margin |-> 750]

\* Rules of the form value <= t, and value >= 0.
SeedMetByZero ==
    {"debtToEquity", "gearing", "debtorDays", "creditorDays", "growth", "margin"}

SeedLow    == [min |-> 7100, max |-> 10000]
SeedMedium == [min |-> 3100, max |-> 7000]
SeedHigh   == [min |-> 0, max |-> 3000]

Complete == [SeedSubParameters -> {"meets", "fails"}]

Report(met, missing) ==
    [s \in SeedSubParameters |-> IF s \in met THEN "meets"
                                 ELSE IF s \in missing THEN "missing" ELSE "fails"]

\* The worked example of the manual fails gearing alone.
WorkedExample == Report(SeedSubParameters \ {"gearing"}, {})

\* 30.1 points, between two bands; 49.9; no equity on file; everything met.
Between   == Report({"debtToEquity", "gearing", "turnover"}, {})
NoEquity  == Report({"current", "interest"}, {"debtToEquity", "gearing"})
Examples  == {WorkedExample, Between, NoEquity, Report(SeedSubParameters, {}),
              Report({}, {}), Report(SeedMetByZero, {})}
AnyReport == Complete \cup Examples
Telling == {Between, NoEquity}
OneExample == {WorkedExample}

MCInit ==
    /\ Init
    /\ mode \in Modes
    /\ mode = "serial" => landed /\ report \in SerialReports
    /\ mode = "overlap" => landed /\ report = WorkedExample
    /\ mode = "retries" /\ landed => report \in Examples \cap Reports

Active == IF mode = "overlap" THEN Runs ELSE {r1}

FaultsOf == [serial |-> 0, retries |-> 1, overlap |-> 1]

MCNext ==
    /\ UNCHANGED mode
    /\ \/ mode = "retries" /\ Land /\ report' \in Examples
       \/ \E r \in Active : Step(r) \/ (faults < FaultsOf[mode] /\ Abort(r))

\* The report lands in the end, the cron fires every minute and a run goes on
\* to its end.
MCFairness ==
    /\ WF_vars(mode = "retries" /\ Land /\ report' \in Examples)
    /\ WF_vars(Step(r1))

MCSpec == MCInit /\ [][MCNext]_<<vars, mode>> /\ MCFairness

-----------------------------------------------------------------------------
\* However runs overlap and wherever one dies, no total leaves out a parameter
\* of the profile: what is summed includes all a run has just scored.
LeavesNothingOut == mode \in {"serial", "overlap"} => NothingLeftOut

\* Of runs that do not overlap, a verdict is the one that the score and the
\* category saved with it call for, also when runs failed halfway; and where
\* none fails, the score is exact.
VerdictIsRight ==
    /\ mode \in {"serial", "retries"} => VerdictFitsScore
    /\ mode = "serial" => ScoreIsExact

\* Such an application is scored in the end.
IsScored == mode = "serial" => ClassifiedIsScored

\* The statements of comments that the code does not keep, in the mode that
\* shows it.
LateReportIsScored == mode = "retries" => EveryoneIsScored
=============================================================================
