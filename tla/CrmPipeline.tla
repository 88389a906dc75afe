------------------------------ MODULE CrmPipeline ------------------------------
(***************************************************************************)
(* The leads and deals of apps/customer-relationship-management:           *)
(* CrmService's qualification and promotion of a lead, and the stages of   *)
(* its deals with their history.  Leads and deals share the table here:    *)
(* the kind of a row says which it is, and status is a deal's stage.       *)
(***************************************************************************)
EXTENDS Desk

CONSTANTS
    Supervisors,  \* who may act on anybody's rows
    OpenStages,   \* the stages of a deal before it is WON or LOST
    FirstStage    \* QUALIFIED

vars == deskVars

LeadStatus == {"LEAD", "PROSPECT", "PROMOTED", "CLOSED"}
DealStatus == OpenStages \cup {"WON", "LOST"}

Row == [kind : {"lead", "deal", NONE},
        status : {"ABSENT"} \cup LeadStatus \cup DealStatus,
        owner : Persons \cup {NONE}, closed : BOOLEAN]

Columns == {"kind", "status", "owner", "closed"}

AbsentRow == [kind |-> NONE, status |-> "ABSENT", owner |-> NONE, closed |-> FALSE]

\* The response clock of a promoted lead, and the stage history of a deal.
Record == [kind : {"RM_START", "MOVED"}, from : DealStatus \cup {NONE},
           to : DealStatus \cup {NONE}]

RmStart == {[kind |-> "RM_START", from |-> NONE, to |-> NONE]}
Moved(from, to) == {[kind |-> "MOVED", from |-> from, to |-> to]}

Init == DeskInit(AbsentRow)

Writable(i, p) == rows[i].owner = p \/ p \in Supervisors

-----------------------------------------------------------------------------
CreateLead(r, p) ==
    Begin(r, Inserting([kind |-> "lead", status |-> "LEAD", owner |-> p,
                        closed |-> FALSE], {}))

Allowed == {<<"LEAD", "PROSPECT">>, <<"LEAD", "CLOSED">>, <<"PROSPECT", "CLOSED">>,
            <<"PROSPECT", "LEAD">>, <<"CLOSED", "LEAD">>}

\* Mutant: a promoted lead can be taken back.
UpdatePromoted(r, i, p, status) ==
    /\ rows[i].kind = "lead" /\ Writable(i, p)
    /\ \/ status = rows[i].status
       \/ <<rows[i].status, status>> \in Allowed \cup {<<"PROMOTED", "LEAD">>}
    /\ Begin(r, Saving(i, [rows[i] EXCEPT !.status = status], {}))

\* An update of other columns saves the status it has read, too.
UpdateLead(r, i, p, status) ==
    /\ rows[i].kind = "lead" /\ Writable(i, p)
    /\ rows[i].status # "PROMOTED"
    /\ status = rows[i].status \/ <<rows[i].status, status>> \in Allowed
    /\ Begin(r, Saving(i, [rows[i] EXCEPT !.status = status], {}))

AssignLead(r, i, owner) ==
    /\ rows[i].kind = "lead"
    /\ Begin(r, Saving(i, [rows[i] EXCEPT !.owner = owner], {}))

\* Mutant: the response clock is not started.
PromoteQuietly(r, i, p) ==
    /\ rows[i].kind = "lead" /\ Writable(i, p)
    /\ rows[i].status = "PROSPECT"
    /\ Begin(r, Saving(i, [rows[i] EXCEPT !.status = "PROMOTED"], {}))

PromoteLead(r, i, p) ==
    /\ rows[i].kind = "lead" /\ Writable(i, p)
    /\ rows[i].status = "PROSPECT"
    /\ Begin(r, Saving(i, [rows[i] EXCEPT !.status = "PROMOTED"], RmStart))

CreateDeal(r, i, p) ==
    /\ rows[i].kind = "lead" /\ Writable(i, p)
    /\ Begin(r, Inserting([kind |-> "deal", status |-> FirstStage,
                           owner |-> rows[i].owner, closed |-> FALSE],
                          Moved(NONE, FirstStage)))

\* The history row is written from the stage read before the transaction.
UpdateDeal(r, i, p, stage) ==
    /\ rows[i].kind = "deal" /\ Writable(i, p)
    /\ stage # rows[i].status => ~rows[i].closed
    /\ Begin(r, Saving(i, [rows[i] EXCEPT !.status = stage,
                                          !.closed = @ \/ stage \in {"WON", "LOST"}],
                       IF stage = rows[i].status THEN {} ELSE Moved(rows[i].status, stage)))

Commit(r) == \E i \in Ids : CommitRow(r, i)

Step(r) ==
    \/ Compare(r, {}) \/ Commit(r) \/ Abort(r)
    \/ \E p \in Persons : CreateLead(r, p)
    \/ \E i \in Ids, p \in Persons :
         \/ AssignLead(r, i, p) \/ PromoteLead(r, i, p) \/ CreateDeal(r, i, p)
         \/ \E status \in LeadStatus : UpdateLead(r, i, p, status)
         \/ \E stage \in DealStatus : UpdateDeal(r, i, p, stage)

Next == \E r \in Requests : Step(r)

Spec == Init /\ [][Next]_vars

-----------------------------------------------------------------------------
\* Every variable holds a value the code can give it.
TypeOK ==
    /\ rows \in [Ids -> Row]
    /\ records \in [Ids -> SUBSET Record]
    /\ pending \in [Requests -> Transactions(Row, Row, Record, Columns)]
    /\ commits \in Nat

\* However requests overlap, a promoted lead has its response clock requested,
\* and a deal that is won or lost has a history row that says so.
OutcomeIsRecorded ==
    \A i \in Ids :
        /\ rows[i].status = "PROMOTED" => RmStart \subseteq records[i]
        /\ rows[i].kind = "deal" =>
             \E x \in records[i] : x.kind = "MOVED" /\ x.to = rows[i].status

Final(i) == rows[i].status = "PROMOTED" \/ rows[i].closed

\* A promoted lead stays promoted and a closed deal keeps its stage: it holds
\* of requests that do not overlap, and of no others.
FinalKept == \A i \in Ids : Final(i) => rows'[i].status = rows[i].status
FinalStays == [][FinalKept]_vars
=============================================================================
