--------------------------------- MODULE Desks ---------------------------------
(***************************************************************************)
(* The maker-checker desks of the back office, one of them at work in a    *)
(* behaviour: risk models, operations cases, the governance of a profile's *)
(* weights, and the CRM's pipeline.  Where one request is handled at a     *)
(* time (alone), a desk has to keep what the code says of it; where        *)
(* requests overlap, what no overlap can break.  The desks share the       *)
(* variables of Desk, and each has its part of Ids and Persons.            *)
(***************************************************************************)
EXTENDS Desk

CONSTANTS
    Desks,       \* the desks of an instance
    Modes,       \* the values of alone in an instance
    IdsOf, PersonsOf, CommitsOf,  \* desk -> its ids, its staff, its bound
    Structures, Valid,            \* of CrcModel
    Organisations, Signatories,   \* of OperationsCase
    Weights, Values, Seed, Total, MaxEdits,  \* of RiskGovernance
    Supervisors, OpenStages, FirstStage      \* of CrmPipeline

DeskNames == {"crc", "operations", "governance", "pipeline"}

ASSUME DesksAssumption ==
    /\ Desks \subseteq DeskNames /\ Modes \subseteq BOOLEAN
    /\ \A d \in DeskNames : /\ IdsOf[d] \subseteq Ids /\ PersonsOf[d] \subseteq Persons
                            /\ CommitsOf[d] \in Nat
    /\ MaxEdits \in Nat
    /\ Valid \subseteq Structures
    /\ \A x \in {NONE, UNDEFINED} :
         x \notin Structures \cup Organisations \cup Signatories
    /\ DOMAIN Seed \subseteq Weights /\ Seed \in [DOMAIN Seed -> Values]
    /\ NONE \notin {"lead", "deal"}
    /\ FirstStage \in OpenStages
    /\ \A x \in {"ABSENT", "LEAD", "PROSPECT", "PROMOTED", "CLOSED"} : x \notin OpenStages

VARIABLES
    desk,    \* the desk at work
    alone,   \* whether it handles one request at a time
    weights, edited  \* of RiskGovernance

Crc == INSTANCE CrcModel WITH
    Ids <- IdsOf["crc"], Persons <- PersonsOf["crc"], MaxCommits <- CommitsOf["crc"]
Operations == INSTANCE OperationsCase WITH
    Ids <- IdsOf["operations"], Persons <- PersonsOf["operations"],
    MaxCommits <- CommitsOf["operations"]
Governance == INSTANCE RiskGovernance WITH
    Ids <- IdsOf["governance"], Persons <- PersonsOf["governance"],
    MaxCommits <- CommitsOf["governance"]
Pipeline == INSTANCE CrmPipeline WITH
    Ids <- IdsOf["pipeline"], Persons <- PersonsOf["pipeline"],
    MaxCommits <- CommitsOf["pipeline"]

\* A column that an entity leaves out is not a status.
ASSUME StatusAssumption ==
    UNDEFINED \notin UNION {Crc!Status, Operations!Status, Governance!Status,
                            Pipeline!LeadStatus, Pipeline!DealStatus, {"ABSENT"}}

profile == <<weights, edited>>
vars == <<desk, alone, profile, deskVars>>

Init ==
    /\ desk \in Desks /\ alone \in Modes
    /\ weights = Seed /\ edited = {}
    /\ CASE desk = "crc"        -> Crc!Init
         [] desk = "operations" -> Operations!Init
         [] desk = "governance" -> Governance!Init
         [] desk = "pipeline"   -> Pipeline!Init

\* Alone, a request begins when no other is in flight.
Turn(r) == alone => \A q \in Requests \ {r} : pending[q] = Idle

CrcStep == \E r \in Requests : Turn(r) /\ Crc!Step(r)
OperationsStep == \E r \in Requests : Turn(r) /\ Operations!Step(r)
PipelineStep == \E r \in Requests : Turn(r) /\ Pipeline!Step(r)
GovernanceStep ==
    \/ \E r \in Requests : Turn(r) /\ Governance!Step(r)
    \/ ~alone /\ Governance!Other

Next ==
    /\ UNCHANGED <<desk, alone>>
    /\ \/ desk = "crc" /\ CrcStep /\ UNCHANGED profile
       \/ desk = "operations" /\ OperationsStep /\ UNCHANGED profile
       \/ desk = "pipeline" /\ PipelineStep /\ UNCHANGED profile
       \/ desk = "governance" /\ GovernanceStep

Spec == Init /\ [][Next]_vars

-----------------------------------------------------------------------------
\* Every variable holds a value the code can give it.
TypeOK ==
    /\ desk = "crc"        => Crc!TypeOK
    /\ desk = "operations" => Operations!TypeOK
    /\ desk = "governance" => Governance!TypeOK
    /\ desk = "pipeline"   => Pipeline!TypeOK

\* However requests overlap, what is signed off is signed off by somebody else
\* than its maker: a published model, a change of weights.
SignedByOthers ==
    /\ desk = "crc" => Crc!PublishedByOthers
    /\ desk = "governance" => Governance!ChangedByApproval

\* However requests overlap, an outcome has its records: a facility in force its
\* contract and clock, a promoted lead its clock, a deal's stage its history.
OutcomeIsRecorded ==
    /\ desk = "operations" => Operations!ContractAfterApproval
    /\ desk = "pipeline" => Pipeline!OutcomeIsRecorded

\* What holds where requests do not overlap: a third person has checked what is
\* published, assessments rest on what was published, a case has one contract,
\* weights add up.
OneAtATime ==
    alone => /\ desk = "crc" => Crc!PublishedByThird /\ Crc!AssessedAsPublished
             /\ desk = "operations" => Operations!OneContract
             /\ desk = "governance" => Governance!WeightsAddUp

\* Requests that do not overlap leave a promoted lead and a closed deal alone.
FinalStays == [][alone /\ desk = "pipeline" => Pipeline!FinalKept]_vars

\* The files of the desk at work, when it handles one request at a time.
File(i) ==
    CASE alone /\ desk = "crc" /\ i \in IdsOf["crc"] -> Crc!FileOf(i)
      [] alone /\ desk = "operations" /\ i \in IdsOf["operations"] -> Operations!FileOf(i)
      [] OTHER -> [stage |-> "unopened", content |-> NONE, maker |-> NONE,
                   checker |-> NONE]

Chain == INSTANCE MakerChecker WITH
    Documents <- Ids, Staff <- Persons, Contents <- Structures \cup Organisations,
    Nobody <- NONE, Nothing <- NONE, file <- [i \in Ids |-> File(i)]

\* Requests that do not overlap keep the maker-checker promise.
KeepsPromise == Chain!Spec

-----------------------------------------------------------------------------
(* What comments and messages say, which overlapping requests break: see     *)
(* MCDesks_races.cfg.                                                        *)

\* crc.service.ts: "neither maker nor checker can publish it".
CheckerNeverPublishes == desk = "crc" => Crc!PublishedByThird

\* crc.service.ts: "Assessments can only be run against PUBLISHED models".
OnlyPublishedAssess == desk = "crc" => Crc!AssessedAsPublished

\* operations.service.ts: the signature of a case that is not pending one is
\* refused, "No agreement awaiting signature".
OneContract == desk = "operations" => Operations!OneContract

\* risk-governance.service.ts: "Parameter-level weights must sum to 100 after
\* the proposal".
WeightsAddUp == desk = "governance" => Governance!WeightsAddUp

\* crm.service.ts: "Promoted leads are read-only in CRM", and a closed deal is
\* refused.
FinalForEver == [][desk = "pipeline" => Pipeline!FinalKept]_vars
=============================================================================
