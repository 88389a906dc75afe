---------------------------- MODULE OperationsCase ----------------------------
(***************************************************************************)
(* The operations cases of apps/trade-directory: the facility agreement an *)
(* onboarded client is given, prepared, checked and approved by three      *)
(* people of the funder and executed by the client's signature, which      *)
(* opens the contract.  The agreement's text is rendered from columns that *)
(* never change, so the pack is a function of the case.                    *)
(***************************************************************************)
EXTENDS Desk

CONSTANTS
    Organisations,  \* clients
    Signatories     \* people who may sign for a client

vars == deskVars

Live == {"NEW", "IN_PREPARATION", "PENDING_CHECK", "CHECKED", "PENDING_SIGNATURE"}
Status == {"ABSENT", "EXECUTED"} \cup Live

Row == [status : Status, organisation : Organisations \cup {NONE},
        operator : Persons \cup {NONE}, checker : Persons \cup {NONE},
        approver : Persons \cup {NONE}, signer : Signatories \cup {NONE}]

Columns == {"status", "organisation", "operator", "checker", "approver", "signer"}

AbsentRow == [status |-> "ABSENT", organisation |-> NONE, operator |-> NONE,
              checker |-> NONE, approver |-> NONE, signer |-> NONE]

\* Outbox rows of the signature's clock, and the contract with who signed it.
Record == [kind : {"SIGNATURE_START", "SIGNATURE_CANCEL", "CONTRACT"},
           person : Persons \cup Signatories]

Of(kind, p) == {[kind |-> kind, person |-> p]}

Init == DeskInit(AbsentRow)

-----------------------------------------------------------------------------
\* The consumer of CLIENT_ONBOARDED, for an event and for each redelivery.
CreateCaseFromOnboarding(r, g) ==
    /\ \A c \in Ids : ~(rows[c].organisation = g /\ rows[c].status \in Live)
    /\ Begin(r, Inserting([AbsentRow EXCEPT !.status = "NEW", !.organisation = g], {}))

Pickup(r, c, p) ==
    /\ rows[c].status = "NEW"
    /\ Begin(r, Saving(c, [rows[c] EXCEPT !.status = "IN_PREPARATION",
                                          !.operator = p], {}))

Submit(r, c, p) ==
    /\ rows[c].status = "IN_PREPARATION"
    /\ rows[c].operator = p
    /\ Begin(r, Saving(c, [rows[c] EXCEPT !.status = "PENDING_CHECK"], {}))

Check(r, c, p) ==
    /\ rows[c].status = "PENDING_CHECK"
    /\ rows[c].operator # p
    /\ Begin(r, Saving(c, [rows[c] EXCEPT !.status = "CHECKED", !.checker = p], {}))

ReturnToPreparation(r, c) ==
    /\ rows[c].status \in {"PENDING_CHECK", "CHECKED"}
    /\ Begin(r, Saving(c, [rows[c] EXCEPT !.status = "IN_PREPARATION",
                                          !.checker = NONE], {}))

Approve(r, c, p) ==
    /\ rows[c].status = "CHECKED"
    /\ p \notin {rows[c].operator, rows[c].checker}
    /\ Begin(r, Saving(c, [rows[c] EXCEPT !.status = "PENDING_SIGNATURE",
                                          !.approver = p],
                       Of("SIGNATURE_START", p)))

Signed(c, p) == [rows[c] EXCEPT !.status = "EXECUTED", !.signer = p]

\* Mutant: a checked pack can be signed before its approval.
SignEarly(r, g, p) ==
    \E c \in Ids :
      /\ rows[c].organisation = g
      /\ rows[c].status \in {"CHECKED", "PENDING_SIGNATURE"}
      /\ Begin(r, Saving(c, Signed(c, p),
                         Of("CONTRACT", p) \cup Of("SIGNATURE_CANCEL", p)))

\* Mutant: an executed case can be signed again.
SignAgain(r, g, p) ==
    \E c \in Ids :
      /\ rows[c].organisation = g
      /\ rows[c].status \in {"PENDING_SIGNATURE", "EXECUTED"}
      /\ Begin(r, Saving(c, Signed(c, p),
                         Of("CONTRACT", p) \cup Of("SIGNATURE_CANCEL", p)))

\* The client's signatory: the contract, the case and the clock together.
PortalSign(r, g, p) ==
    \E c \in Ids :
      /\ rows[c].organisation = g
      /\ rows[c].status = "PENDING_SIGNATURE"
      /\ Begin(r, Saving(c, Signed(c, p),
                         Of("CONTRACT", p) \cup Of("SIGNATURE_CANCEL", p)))

\* Unique index uq_ops_case_live_org.
OneLiveCase(table) ==
    \A c, d \in Ids :
        /\ table[c].status \in Live /\ table[d].status \in Live
        /\ table[c].organisation = table[d].organisation
        => c = d

Commit(r) == \E c \in Ids : CommitRow(r, c) /\ OneLiveCase(rows')

Step(r) ==
    \/ Compare(r, {}) \/ Commit(r) \/ Abort(r)
    \/ \E g \in Organisations :
         \/ CreateCaseFromOnboarding(r, g)
         \/ \E p \in Signatories : PortalSign(r, g, p)
    \/ \E c \in Ids :
         \/ ReturnToPreparation(r, c)
         \/ \E p \in Persons : \/ Pickup(r, c, p) \/ Submit(r, c, p)
                               \/ Check(r, c, p) \/ Approve(r, c, p)

Next == \E r \in Requests : Step(r)

Spec == Init /\ [][Next]_vars

-----------------------------------------------------------------------------
\* Every variable holds a value the code can give it.
TypeOK ==
    /\ rows \in [Ids -> Row]
    /\ records \in [Ids -> SUBSET Record]
    /\ pending \in [Requests -> Transactions(Row, Row, Record, Columns)]
    /\ commits \in Nat

Recorded(c, kind) == {x \in records[c] : x.kind = kind}

\* However requests overlap, a facility is in force only by a contract whose
\* pack was approved and sent for signature, with its clock's end requested.
ContractAfterApproval ==
    \A c \in Ids :
        /\ rows[c].status = "EXECUTED" => /\ Recorded(c, "CONTRACT") # {}
                                          /\ Recorded(c, "SIGNATURE_CANCEL") # {}
        /\ Recorded(c, "CONTRACT") # {} => Recorded(c, "SIGNATURE_START") # {}

\* One case, one signature, one contract: it holds of requests that do not
\* overlap, and of no others.
OneContract ==
    \A c \in Ids : Cardinality(Recorded(c, "CONTRACT")) <= 1

Stage(status) ==
    CASE status \in {"ABSENT", "NEW"} -> "unopened"
      [] status = "IN_PREPARATION"    -> "open"
      [] status = "PENDING_CHECK"     -> "submitted"
      [] status = "CHECKED"           -> "checked"
      [] OTHER                        -> "approved"

FileOf(c) ==
    [stage   |-> Stage(rows[c].status),
     content |-> IF Stage(rows[c].status) = "unopened" THEN NONE
                 ELSE rows[c].organisation,
     maker   |-> rows[c].operator, checker |-> rows[c].checker]

\* Requests that do not overlap keep the maker-checker promise.
Chain == INSTANCE MakerChecker WITH
    Documents <- Ids, Staff <- Persons, Contents <- Organisations, Nobody <- NONE,
    Nothing <- NONE, file <- [c \in Ids |-> FileOf(c)]

KeepsPromise == Chain!Spec
=============================================================================
