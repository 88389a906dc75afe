-------------------------------- MODULE Offer --------------------------------
(***************************************************************************)
(* The provisional offers of apps/risk-operation: the maker-checker-       *)
(* approver chain of OffersService, the applicant's answer through         *)
(* PortalOfferController, the registration fee and the acceptance breach.  *)
(*                                                                         *)
(* A handler reads the offer and checks its guards, changes the entity in  *)
(* memory and saves it in a transaction later; nothing locks the row or    *)
(* compares a version in between.  TypeORM's save(entity) selects the row  *)
(* again and updates the columns in which the entity differs from it.  So  *)
(* a request is three steps: its lookup and guards, which leave the entity *)
(* and the records to insert in pending; Compare, the save's select; and   *)
(* Commit, the update with everything else in its transaction.             *)
(***************************************************************************)
EXTENDS Naturals, FiniteSets

CONSTANTS
    Offers,        \* ids of provisional_offer (bounds the rows), in id order
    Applications,  \* one per applicant organisation
    Persons,       \* staff: makers, checkers, approvers, RMs
    Terms,         \* the simulator inputs an offer can carry
    Complete,      \* inputs whose simulation gives no warnings
    Requests,      \* handlers in flight
    MaxCommits,    \* bound on the transactions of a run
    NONE           \* SQL null

ASSUME ConstantsAssumption ==
    /\ Offers \subseteq Nat
    /\ Complete \subseteq Terms
    /\ MaxCommits \in Nat
    /\ NONE \notin Persons /\ NONE \notin Terms
    /\ NONE \notin Offers /\ NONE \notin Applications

VARIABLES
    offers,     \* provisional_offer: id -> row
    appStatus,  \* application.applicationStatus, of applications that passed
    records,    \* per offer: audit, evidence and outbox rows inserted so far
    pending,    \* per request: the transaction it is about to run
    commits     \* transactions so far

vars == <<offers, appStatus, records, pending, commits>>

PostApproval == {"SENT", "ACCEPTED", "DECLINED", "LAPSED", "CLOSED_ARCHIVED"}
Status == {"ABSENT", "DRAFT", "PENDING_CHECK", "CHECKED"} \cup PostApproval

Row == [status : Status, application : Applications \cup {NONE},
        maker : Persons \cup {NONE}, checker : Persons \cup {NONE},
        approver : Persons \cup {NONE}, terms : Terms \cup {NONE},
        feeConfirmedBy : Persons \cup {NONE}]

AbsentRow == [status |-> "ABSENT", application |-> NONE, maker |-> NONE,
              checker |-> NONE, approver |-> NONE, terms |-> NONE,
              feeConfirmedBy |-> NONE]

\* The rows a transaction inserts beside the offer, as far as a property tells
\* them apart: audit events, OfferAcceptance evidence, outbox messages.
Kinds == {"OFFER_CHECKED", "OFFER_APPROVED_SENT", "ACCEPTED", "DECLINED",
          "RM_RESOLVED", "CLIENT_ONBOARDED", "CRA_START", "CRA_CANCEL",
          "ACCEPTANCE_START", "ACCEPTANCE_CANCEL"}

Record == [kind : Kinds, person : Persons \cup {NONE}, terms : Terms]

Idle == [op |-> "idle"]
Columns == {"status", "checker", "approver", "terms", "feeConfirmedBy"}

Pending == {Idle} \cup [op : {"insert"}, row : Row, records : SUBSET Record]
                  \cup [op : {"update"}, offer : Offers, row : Row,
                        records : SUBSET Record]
                  \cup [op : {"write"}, offer : Offers, row : Row,
                        changed : SUBSET Columns, records : SUBSET Record]

By(kind, p, t) == {[kind |-> kind, person |-> p, terms |-> t]}
Of(kind, t)    == By(kind, NONE, t)

-----------------------------------------------------------------------------
Init ==
    /\ offers = [o \in Offers |-> AbsentRow]
    /\ appStatus = [a \in Applications |-> "SCORED_PASS"]
    /\ records = [o \in Offers |-> {}]
    /\ pending = [r \in Requests |-> Idle]
    /\ commits = 0

\* A handler got through its guards and will write row and recs.
Begin(r, p) ==
    /\ pending[r] = Idle
    /\ pending' = [pending EXCEPT ![r] = p]
    /\ UNCHANGED <<offers, appStatus, records, commits>>

Update(o, row, recs) ==
    [op |-> "update", offer |-> o, row |-> row, records |-> recs]

-----------------------------------------------------------------------------
(* The CRA's chain. *)

DraftRow(p, a, t) ==
    [status |-> "DRAFT", application |-> a, maker |-> p, checker |-> NONE,
     approver |-> NONE, terms |-> t, feeConfirmedBy |-> NONE]

\* The defaults come from whatever the rate-card mirror holds.
Create(r, p, a) ==
    /\ appStatus[a] \in {"SCORED_PASS", "IN_CRC_REVIEW"}
    /\ \E t \in Terms :
         Begin(r, [op |-> "insert", row |-> DraftRow(p, a, t),
                   records |-> Of("CRA_START", t)])

Save(r, o) ==
    /\ offers[o].status = "DRAFT"
    /\ \E t \in Terms : Begin(r, Update(o, [offers[o] EXCEPT !.terms = t], {}))

Submit(r, o) ==
    /\ offers[o].status = "DRAFT"
    /\ offers[o].terms \in Complete
    /\ Begin(r, Update(o, [offers[o] EXCEPT !.status = "PENDING_CHECK"], {}))

CheckedRow(o, p) == [offers[o] EXCEPT !.status = "CHECKED", !.checker = p]

\* Mutant: the maker is not compared with the caller.
CheckOwn(r, o, p) ==
    /\ offers[o].status = "PENDING_CHECK"
    /\ Begin(r, Update(o, CheckedRow(o, p), By("OFFER_CHECKED", p, offers[o].terms)))

Check(r, o, p) ==
    /\ offers[o].status = "PENDING_CHECK"
    /\ offers[o].maker # p
    /\ Begin(r, Update(o, CheckedRow(o, p), By("OFFER_CHECKED", p, offers[o].terms)))

BackToDraft(o) == [offers[o] EXCEPT !.status = "DRAFT", !.checker = NONE]

ReturnToDraft(r, o) ==
    /\ offers[o].status \in {"PENDING_CHECK", "CHECKED"}
    /\ Begin(r, Update(o, BackToDraft(o), {}))

Reject(r, o) ==
    /\ offers[o].status = "CHECKED"
    /\ Begin(r, Update(o, BackToDraft(o), {}))

\* Mutant: an approved offer waits to be sent.
ApproveUnsent(r, o, p) ==
    /\ offers[o].status = "CHECKED"
    /\ p \notin {offers[o].maker, offers[o].checker}
    /\ Begin(r, Update(o, [offers[o] EXCEPT !.status = "APPROVED", !.approver = p],
                       By("OFFER_APPROVED_SENT", p, offers[o].terms)))

\* Approval sends the offer: the CRA clock stops, the acceptance clock starts.
Approve(r, o, p) ==
    /\ offers[o].status = "CHECKED"
    /\ p \notin {offers[o].maker, offers[o].checker}
    /\ Begin(r, Update(o, [offers[o] EXCEPT !.status = "SENT", !.approver = p],
                       By("OFFER_APPROVED_SENT", p, offers[o].terms)
                         \cup Of("CRA_CANCEL", offers[o].terms)
                         \cup Of("ACCEPTANCE_START", offers[o].terms)))

-----------------------------------------------------------------------------
(* After approval. *)

\* RM: a lapsed offer is sent again unchanged.
Refresh(r, o) ==
    /\ offers[o].status = "LAPSED"
    /\ Begin(r, Update(o, [offers[o] EXCEPT !.status = "SENT"],
                       Of("ACCEPTANCE_START", offers[o].terms)))

\* Mutant: an offer still out can be closed.
CloseSent(r, o) ==
    /\ offers[o].status \in {"SENT", "DECLINED", "LAPSED"}
    /\ Begin(r, Update(o, [offers[o] EXCEPT !.status = "CLOSED_ARCHIVED"], {}))

Close(r, o) ==
    /\ offers[o].status \in {"DECLINED", "LAPSED"}
    /\ Begin(r, Update(o, [offers[o] EXCEPT !.status = "CLOSED_ARCHIVED"], {}))

\* Mutant: the acceptance clock is left running.
ResolveQuietly(r, o, decision) ==
    /\ offers[o].status = "SENT"
    /\ Begin(r, Update(o, [offers[o] EXCEPT !.status = decision],
                       Of("RM_RESOLVED", offers[o].terms)))

\* RM: accept or decline on the applicant's behalf.
Resolve(r, o, decision) ==
    /\ offers[o].status = "SENT"
    /\ Begin(r, Update(o, [offers[o] EXCEPT !.status = decision],
                       Of("RM_RESOLVED", offers[o].terms)
                         \cup Of("ACCEPTANCE_CANCEL", offers[o].terms)))

\* The newest offer of the applicant that it may see.
OwnOffer(a) ==
    {o \in Offers :
       /\ offers[o].application = a
       /\ offers[o].status \in {"SENT", "ACCEPTED", "DECLINED", "LAPSED"}
       /\ \A x \in Offers : x > o /\ offers[x].application = a =>
            offers[x].status \notin {"SENT", "ACCEPTED", "DECLINED", "LAPSED"}}

\* Mutant: the SENT guard is dropped.
RespondAgain(r, a, decision) ==
    \E o \in OwnOffer(a) :
      Begin(r, Update(o, [offers[o] EXCEPT !.status = decision],
                      Of(decision, offers[o].terms)
                        \cup Of("ACCEPTANCE_CANCEL", offers[o].terms)))

\* The applicant answers; what is signed is the hash of the terms just read.
Respond(r, a, decision) ==
    \E o \in OwnOffer(a) :
      /\ offers[o].status = "SENT"
      /\ Begin(r, Update(o, [offers[o] EXCEPT !.status = decision],
                         Of(decision, offers[o].terms)
                           \cup Of("ACCEPTANCE_CANCEL", offers[o].terms)))

\* Mutants: the fee is taken before the answer; the fee is taken again.
ConfirmUnanswered(r, o, p) ==
    /\ offers[o].status \in {"SENT", "ACCEPTED"}
    /\ offers[o].feeConfirmedBy = NONE
    /\ Begin(r, Update(o, [offers[o] EXCEPT !.feeConfirmedBy = p],
                       By("CLIENT_ONBOARDED", p, offers[o].terms)))

ConfirmAgain(r, o, p) ==
    /\ offers[o].status = "ACCEPTED"
    /\ Begin(r, Update(o, [offers[o] EXCEPT !.feeConfirmedBy = p],
                       By("CLIENT_ONBOARDED", p, offers[o].terms)))

ConfirmRegistrationFee(r, o, p) ==
    /\ offers[o].status = "ACCEPTED"
    /\ offers[o].feeConfirmedBy = NONE
    /\ Begin(r, Update(o, [offers[o] EXCEPT !.feeConfirmedBy = p],
                       By("CLIENT_ONBOARDED", p, offers[o].terms)))

\* An SLA_BREACHED message of the acceptance window arrives.
OnAcceptanceBreach(r, o) ==
    /\ offers[o].status = "SENT"
    /\ Begin(r, Update(o, [offers[o] EXCEPT !.status = "LAPSED"], {}))

-----------------------------------------------------------------------------
\* The id a sequence hands out next.
NextId(o) == /\ offers[o].status = "ABSENT"
             /\ \A x \in Offers : x < o => offers[x].status # "ABSENT"

\* The columns in which an entity differs from the row.  The maker and the
\* application of an offer are assigned once.
Changed(old, new) ==
    {c \in Columns : \/ c = "status" /\ old.status # new.status
                     \/ c = "checker" /\ old.checker # new.checker
                     \/ c = "approver" /\ old.approver # new.approver
                     \/ c = "terms" /\ old.terms # new.terms
                     \/ c = "feeConfirmedBy" /\ old.feeConfirmedBy # new.feeConfirmedBy}

\* The row with the changed columns taken from the entity.
Merge(old, new, changed) ==
    [status         |-> IF "status" \in changed THEN new.status ELSE old.status,
     application    |-> old.application,
     maker          |-> old.maker,
     checker        |-> IF "checker" \in changed THEN new.checker ELSE old.checker,
     approver       |-> IF "approver" \in changed THEN new.approver ELSE old.approver,
     terms          |-> IF "terms" \in changed THEN new.terms ELSE old.terms,
     feeConfirmedBy |-> IF "feeConfirmedBy" \in changed THEN new.feeConfirmedBy
                        ELSE old.feeConfirmedBy]

Compare(r) ==
    /\ pending[r].op = "update"
    /\ LET p == pending[r] IN
         pending' = [pending EXCEPT ![r] =
                       [op |-> "write", offer |-> p.offer, row |-> p.row,
                        changed |-> Changed(offers[p.offer], p.row),
                        records |-> p.records]]
    /\ UNCHANGED <<offers, appStatus, records, commits>>

\* The offer's row and the records that go with it.
Write(o, row, recs) ==
    /\ offers' = [offers EXCEPT ![o] = row]
    /\ records' = [records EXCEPT ![o] = @ \cup recs]

Commit(r) ==
    /\ commits < MaxCommits
    /\ commits' = commits + 1
    /\ \/ /\ pending[r].op = "insert"
          /\ \E o \in Offers :
               NextId(o) /\ Write(o, pending[r].row, pending[r].records)
          /\ appStatus' = [appStatus EXCEPT ![pending[r].row.application] =
                                              "IN_CRC_REVIEW"]
       \/ /\ pending[r].op = "write"
          /\ Write(pending[r].offer,
                   Merge(offers[pending[r].offer], pending[r].row, pending[r].changed),
                   pending[r].records)
          /\ UNCHANGED appStatus
    /\ pending' = [pending EXCEPT ![r] = Idle]

\* The transaction fails or the process dies.
Abort(r) ==
    /\ pending[r] # Idle
    /\ pending' = [pending EXCEPT ![r] = Idle]
    /\ UNCHANGED <<offers, appStatus, records, commits>>

Step(r) ==
    \/ Compare(r) \/ Commit(r) \/ Abort(r)
    \/ \E p \in Persons, a \in Applications : Create(r, p, a)
    \/ \E o \in Offers :
         \/ Save(r, o) \/ Submit(r, o) \/ ReturnToDraft(r, o) \/ Reject(r, o)
         \/ Refresh(r, o) \/ Close(r, o) \/ OnAcceptanceBreach(r, o)
         \/ \E d \in {"ACCEPTED", "DECLINED"} : Resolve(r, o, d)
         \/ \E p \in Persons :
              Check(r, o, p) \/ Approve(r, o, p) \/ ConfirmRegistrationFee(r, o, p)
    \/ \E a \in Applications, d \in {"ACCEPTED", "DECLINED"} : Respond(r, a, d)

Next == \E r \in Requests : Step(r)

Spec == Init /\ [][Next]_vars

-----------------------------------------------------------------------------
\* Every variable holds a value the code can give it.
TypeOK ==
    /\ offers \in [Offers -> Row]
    /\ appStatus \in [Applications -> {"SCORED_PASS", "IN_CRC_REVIEW"}]
    /\ records \in [Offers -> SUBSET Record]
    /\ pending \in [Requests -> Pending]
    /\ commits \in Nat

Recorded(o, kind, t) == \E x \in records[o] : x.kind = kind /\ x.terms = t
EverRecorded(o, kind) == \E t \in Terms : Recorded(o, kind, t)

\* However requests overlap, the maker of an offer neither checks nor approves
\* it: each guard reads the maker, and no save can change it.
MakerNeverSigns ==
    \A o \in Offers : offers[o].maker \in Persons =>
        offers[o].maker \notin {offers[o].checker, offers[o].approver}

\* No client is onboarded on an offer that was not approved, and then accepted
\* by the applicant (or by the RM in its place), whatever overlapped.
OnboardedAfterApproval ==
    \A o \in Offers :
        EverRecorded(o, "CLIENT_ONBOARDED") =>
            /\ EverRecorded(o, "OFFER_APPROVED_SENT")
            /\ EverRecorded(o, "ACCEPTED") \/ EverRecorded(o, "RM_RESOLVED")

\* An offer is out only with its acceptance clock requested, and answered only
\* with that clock's cancellation requested: the outbox rows commit with it.
ClockFollowsOffer ==
    \A o \in Offers :
        /\ offers[o].status \in PostApproval =>
             EverRecorded(o, "CRA_CANCEL") /\ EverRecorded(o, "ACCEPTANCE_START")
        /\ offers[o].status \in {"ACCEPTED", "DECLINED"} =>
             EverRecorded(o, "ACCEPTANCE_CANCEL")

\* However requests overlap, what an offer has come to is backed by its records
\* and by people other than its maker.
OfferIsBacked == MakerNeverSigns /\ OnboardedAfterApproval /\ ClockFollowsOffer

-----------------------------------------------------------------------------
(* What the code's comments, messages and design say of an offer: it holds *)
(* of requests that do not overlap, and of no others.                      *)

\* Maker, checker and approver of a sent offer are three people, and the terms
\* sent are terms the second of them verified.  offers.service.ts: "The checker
\* cannot also approve this offer"; docs/design/provisional-offer-design.md:
\* "maker # checker; neither can be the CRC Manager approver for that offer".
FourEyes ==
    \A o \in Offers : offers[o].status \in PostApproval =>
        /\ offers[o].checker \in Persons \ {offers[o].maker}
        /\ offers[o].approver \in Persons \ {offers[o].maker, offers[o].checker}
        /\ offers[o].terms \in Complete
        /\ \E x \in records[o] : /\ x.kind = "OFFER_CHECKED"
                                 /\ x.person = offers[o].checker
                                 /\ x.terms = offers[o].terms

\* The terms a client is onboarded on were approved, and accepted by the
\* applicant (or by the RM in its place), whatever happened to the row since.
OnboardedOnAgreedTerms ==
    \A o \in Offers, t \in Terms :
        Recorded(o, "CLIENT_ONBOARDED", t) =>
            /\ Recorded(o, "OFFER_APPROVED_SENT", t)
            /\ Recorded(o, "ACCEPTED", t) \/ Recorded(o, "RM_RESOLVED", t)

ChainEdges ==
    {<<"ABSENT", "DRAFT">>, <<"DRAFT", "PENDING_CHECK">>,
     <<"PENDING_CHECK", "CHECKED">>, <<"PENDING_CHECK", "DRAFT">>,
     <<"CHECKED", "DRAFT">>, <<"CHECKED", "SENT">>, <<"SENT", "ACCEPTED">>,
     <<"SENT", "DECLINED">>, <<"SENT", "LAPSED">>, <<"LAPSED", "SENT">>,
     <<"LAPSED", "CLOSED_ARCHIVED">>, <<"DECLINED", "CLOSED_ARCHIVED">>}

\* offers.service.ts: "DRAFT -> PENDING_CHECK -> CHECKED -> APPROVED (auto-SENT
\* with the acceptance SLA) -> ACCEPTED / DECLINED / LAPSED".
ChainIsFollowed ==
    [][\A o \in Offers : \/ offers'[o].status = offers[o].status
                         \/ <<offers[o].status, offers'[o].status>> \in ChainEdges]_vars

\* portal-offer.controller.ts: a second answer meets "This offer is no longer
\* open for a response".
OneAnswer ==
    \A o \in Offers :
        ~(EverRecorded(o, "ACCEPTED") /\ EverRecorded(o, "DECLINED"))

\* offers.service.ts: a second confirmation meets "Registration fee already
\* confirmed"; one CLIENT_ONBOARDED per offer.
FeeConfirmedOnce ==
    \A o \in Offers :
        Cardinality({x \in records[o] : x.kind = "CLIENT_ONBOARDED"}) <= 1

\* An offer is answered once and its fee is confirmed once: both guards refuse a
\* second request that does not overlap the first.
SettledOnce == OneAnswer /\ FeeConfirmedOnce
=============================================================================
