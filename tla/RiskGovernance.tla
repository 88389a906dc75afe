---------------------------- MODULE RiskGovernance ----------------------------
(***************************************************************************)
(* The weights of a risk profile and their change requests, of             *)
(* apps/risk-operation: RiskGovernanceService, which changes weights only  *)
(* by an approved request, and the endpoints of the profile and the weight *)
(* module that ask for no approval.  One profile, and its parameter-level  *)
(* weights.                                                                *)
(***************************************************************************)
EXTENDS Desk, FiniteSetsExt

CONSTANTS
    Weights,     \* ids of parameter-level weight rows
    Values,      \* the weights a proposal may name
    Seed,        \* the weights the profile was set up with
    Total,       \* what they add up to (100 in the code)
    MaxEdits     \* bound on the rows written without an approval

VARIABLES
    weights,  \* risk_quantitative_profile_weight: id -> weight
    edited    \* the rows that an endpoint without an approval wrote

vars == <<weights, edited, deskVars>>

Status == {"ABSENT", "PENDING", "APPROVED", "REJECTED"}

Proposals == UNION {[S -> Values] : S \in SUBSET Weights \ {{}}}
None == [w \in {} |-> 0]

Row == [status : Status, requester : Persons \cup {NONE},
        decider : Persons \cup {NONE}, proposal : Proposals \cup {None}]

Columns == {"status", "requester", "decider", "proposal"}

AbsentRow == [status |-> "ABSENT", requester |-> NONE, decider |-> NONE,
              proposal |-> None]

\* Audit rows.
Record == [kind : {"CHANGE_APPROVED", "CHANGE_REJECTED"}, person : Persons]

Init ==
    /\ DeskInit(AbsentRow)
    /\ weights = Seed
    /\ edited = {}

\* The weights w once proposal p is applied.
Applied(p, w) == [x \in DOMAIN w |-> IF x \in DOMAIN p THEN p[x] ELSE w[x]]

Sums(w) == MapThenSumSet(LAMBDA x : w[x], DOMAIN w)

-----------------------------------------------------------------------------
\* Mutant: the total of the proposal is not looked at.
CreateUnchecked(r, p, proposal) ==
    /\ UNCHANGED <<weights, edited>>
    /\ \A i \in Ids : rows[i].status # "PENDING"
    /\ DOMAIN proposal \subseteq DOMAIN weights
    /\ Begin(r, Inserting([status |-> "PENDING", requester |-> p, decider |-> NONE,
                           proposal |-> proposal], {}))

\* One request may wait at a time, and its outcome has to add up.
CreateChangeRequest(r, p, proposal) ==
    /\ UNCHANGED <<weights, edited>>
    /\ \A i \in Ids : rows[i].status # "PENDING"
    /\ DOMAIN proposal \subseteq DOMAIN weights
    /\ Sums(Applied(proposal, weights)) = Total
    /\ Begin(r, Inserting([status |-> "PENDING", requester |-> p, decider |-> NONE,
                           proposal |-> proposal], {}))

Decided(i, status, p) == [rows[i] EXCEPT !.status = status, !.decider = p]

\* Mutant: the proposer may approve.
ApproveOwn(r, i, p) ==
    /\ UNCHANGED <<weights, edited>>
    /\ rows[i].status = "PENDING"
    /\ Begin(r, Saving(i, Decided(i, "APPROVED", p),
                       {[kind |-> "CHANGE_APPROVED", person |-> p]}))

Approve(r, i, p) ==
    /\ UNCHANGED <<weights, edited>>
    /\ rows[i].status = "PENDING"
    /\ rows[i].requester # p
    /\ Begin(r, Saving(i, Decided(i, "APPROVED", p),
                       {[kind |-> "CHANGE_APPROVED", person |-> p]}))

\* The proposer may reject, too.
Reject(r, i, p) ==
    /\ UNCHANGED <<weights, edited>>
    /\ rows[i].status = "PENDING"
    /\ Begin(r, Saving(i, Decided(i, "REJECTED", p),
                       {[kind |-> "CHANGE_REJECTED", person |-> p]}))

\* An approval updates the weights by id in the transaction of its decision.
Commit(r) ==
    /\ \E i \in Ids : CommitRow(r, i)
    /\ weights' = IF pending[r].entity.status = "APPROVED"
                  THEN Applied(pending[r].entity.proposal, weights) ELSE weights
    /\ UNCHANGED edited

Edit(w) ==
    /\ commits < MaxCommits /\ Cardinality(edited) < MaxEdits
    /\ edited' = edited \cup {w}
    /\ commits' = commits + 1
    /\ UNCHANGED <<rows, records, pending>>

\* PATCH /risk-profile/:code/parameters saves the weight it is given.
UpdateWeight(w, v) ==
    /\ w \in DOMAIN weights
    /\ weights' = [weights EXCEPT ![w] = v]
    /\ Edit(w)

\* POST /risk-quantitative-profile-weight/:code, and its duplication of the
\* default profile, add rows beside those there are.
CreateWeight(w, v) ==
    /\ w \notin DOMAIN weights
    /\ weights' = [x \in DOMAIN weights \cup {w} |-> IF x = w THEN v ELSE weights[x]]
    /\ Edit(w)

Step(r) ==
    \/ Compare(r, {}) /\ UNCHANGED <<weights, edited>>
    \/ Commit(r)
    \/ Abort(r) /\ UNCHANGED <<weights, edited>>
    \/ \E p \in Persons, proposal \in Proposals : CreateChangeRequest(r, p, proposal)
    \/ \E i \in Ids, p \in Persons : Approve(r, i, p) \/ Reject(r, i, p)

Other == \E w \in Weights, v \in Values : UpdateWeight(w, v) \/ CreateWeight(w, v)

Next == Other \/ \E r \in Requests : Step(r)

Spec == Init /\ [][Next]_vars

-----------------------------------------------------------------------------
\* Every variable holds a value the code can give it.
TypeOK ==
    /\ rows \in [Ids -> Row]
    /\ records \in [Ids -> SUBSET Record]
    /\ pending \in [Requests -> Transactions(Row, Row, Record, Columns)]
    /\ commits \in Nat
    /\ edited \subseteq Weights
    /\ DOMAIN weights \subseteq Weights /\ \A w \in DOMAIN weights : weights[w] \in Values

\* However requests overlap, a weight in force is the one the profile was set
\* up with, or one a request proposed and somebody else than its proposer
\* approved, unless an endpoint that asks for no approval wrote it.
ChangedByApproval ==
    \A w \in DOMAIN weights \ edited :
        \/ weights[w] = Seed[w]
        \/ \E i \in Ids :
             /\ w \in DOMAIN rows[i].proposal /\ rows[i].proposal[w] = weights[w]
             /\ \E x \in records[i] : /\ x.kind = "CHANGE_APPROVED"
                                      /\ x.person # rows[i].requester

\* risk-governance.service.ts: "Parameter-level weights must sum to 100 after
\* the proposal".  It holds of requests that do not overlap, as long as the
\* other endpoints leave the weights alone, and of no others.
WeightsAddUp == Sums(weights) = Total
=============================================================================
