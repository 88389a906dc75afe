------------------------------- MODULE CrcModel -------------------------------
(***************************************************************************)
(* The filter-2 risk models of apps/risk-operation: CrcService's model     *)
(* authoring under maker and checker, and the assessments run against      *)
(* published models.  A row's structure column stands for the model's      *)
(* risk_factor rows, which an update deletes and inserts anew.             *)
(***************************************************************************)
EXTENDS Desk

CONSTANTS
    Structures,  \* what the builder can save as a model's structure
    Valid        \* those validateModelStructure has nothing against

vars == deskVars

Status == {"ABSENT", "DRAFT", "PENDING_CHECK", "CHECKED", "PUBLISHED", "ARCHIVED"}

Row == [status : Status, maker : Persons \cup {NONE}, checker : Persons \cup {NONE},
        publisher : Persons \cup {NONE}, structure : Structures \cup {NONE}]

Entity == [status : Status, maker : Persons \cup {NONE},
           checker : Persons \cup {NONE, UNDEFINED},
           publisher : Persons \cup {NONE},
           structure : Structures \cup {UNDEFINED}]

Columns == {"status", "maker", "checker", "publisher", "structure"}

AbsentRow == [status |-> "ABSENT", maker |-> NONE, checker |-> NONE,
              publisher |-> NONE, structure |-> NONE]

\* MODEL_CHECKED and MODEL_PUBLISHED audit rows, and the assessments, whose
\* structure is their snapshot.
Record == [kind : {"MODEL_CHECKED", "MODEL_PUBLISHED", "ASSESSED"},
           person : Persons, structure : Structures]

Recorded(kind, p, m) == {[kind |-> kind, person |-> p, structure |-> rows[m].structure]}

Init == DeskInit(AbsentRow)

\* The entity as loaded; only updateModel writes the structure.
Loaded(m) == [rows[m] EXCEPT !.structure = UNDEFINED]

-----------------------------------------------------------------------------
\* From nothing or from a copy of another model's structure.
CreateModel(r, p, s) ==
    Begin(r, Inserting([status |-> "DRAFT", maker |-> p, checker |-> NONE,
                        publisher |-> NONE, structure |-> s], {}))

\* Mutant: a submitted model can still be edited.
UpdateSubmitted(r, m, s) ==
    /\ rows[m].status \in {"DRAFT", "PENDING_CHECK"}
    /\ Begin(r, Saving(m, [Loaded(m) EXCEPT !.structure = s], {}))

\* With the factors in the payload, or without them.  Two that overlap may
\* leave the factors of both, which the model takes for those of the later one.
UpdateModel(r, m, s) ==
    /\ rows[m].status = "DRAFT"
    /\ Begin(r, Saving(m, [Loaded(m) EXCEPT !.structure = s], {}))

Submit(r, m) ==
    /\ rows[m].status = "DRAFT"
    /\ rows[m].structure \in Valid
    /\ Begin(r, Saving(m, [Loaded(m) EXCEPT !.status = "PENDING_CHECK"], {}))

CheckModel(r, m, p) ==
    /\ rows[m].status = "PENDING_CHECK"
    /\ rows[m].maker # p
    /\ Begin(r, Saving(m, [Loaded(m) EXCEPT !.status = "CHECKED", !.checker = p],
                       Recorded("MODEL_CHECKED", p, m)))

\* The checker is set to undefined, so the save leaves the column alone.
ReturnModel(r, m) ==
    /\ rows[m].status \in {"PENDING_CHECK", "CHECKED"}
    /\ Begin(r, Saving(m, [Loaded(m) EXCEPT !.status = "DRAFT",
                                            !.checker = UNDEFINED], {}))

\* Mutant: the checker may publish.
PublishChecked(r, m, p) ==
    /\ rows[m].status = "CHECKED"
    /\ rows[m].maker # p
    /\ Begin(r, Saving(m, [Loaded(m) EXCEPT !.status = "PUBLISHED", !.publisher = p],
                       Recorded("MODEL_PUBLISHED", p, m)))

Publish(r, m, p) ==
    /\ rows[m].status = "CHECKED"
    /\ rows[m].maker # p
    /\ rows[m].checker # p
    /\ Begin(r, Saving(m, [Loaded(m) EXCEPT !.status = "PUBLISHED", !.publisher = p],
                       Recorded("MODEL_PUBLISHED", p, m)))

Archive(r, m) ==
    /\ rows[m].status = "PUBLISHED"
    /\ Begin(r, Saving(m, [Loaded(m) EXCEPT !.status = "ARCHIVED"], {}))

\* Mutant: a draft can be assessed with.
AssessDraft(r, m, p) ==
    /\ rows[m].status \in {"DRAFT", "PUBLISHED"}
    /\ Begin(r, [op |-> "write", id |-> m, entity |-> Loaded(m), changed |-> {},
                 recs |-> Recorded("ASSESSED", p, m)])

\* The transaction inserts the assessment and leaves the model alone.
ConductAssessment(r, m, p) ==
    /\ rows[m].status = "PUBLISHED"
    /\ Begin(r, [op |-> "write", id |-> m, entity |-> Loaded(m), changed |-> {},
                 recs |-> Recorded("ASSESSED", p, m)])

Commit(r) == \E m \in Ids : CommitRow(r, m)

Step(r) ==
    \/ Compare(r, {"structure"}) \/ Commit(r) \/ Abort(r)
    \/ \E p \in Persons, s \in Structures : CreateModel(r, p, s)
    \/ \E m \in Ids :
         \/ Submit(r, m) \/ ReturnModel(r, m) \/ Archive(r, m)
         \/ \E s \in Structures \cup {UNDEFINED} : UpdateModel(r, m, s)
         \/ \E p \in Persons :
              CheckModel(r, m, p) \/ Publish(r, m, p) \/ ConductAssessment(r, m, p)

Next == \E r \in Requests : Step(r)

Spec == Init /\ [][Next]_vars

-----------------------------------------------------------------------------
\* Every variable holds a value the code can give it.
TypeOK ==
    /\ rows \in [Ids -> Row]
    /\ records \in [Ids -> SUBSET Record]
    /\ pending \in [Requests -> Transactions(Row, Entity, Record, Columns)]
    /\ commits \in Nat

Published(m) == {x \in records[m] : x.kind = "MODEL_PUBLISHED"}
Verified(m)  == {x \in records[m] : x.kind = "MODEL_CHECKED"}

\* However requests overlap, a model is not published by its maker, and somebody
\* else than its maker has checked it.
PublishedByOthers ==
    \A m \in Ids : \A x \in Published(m) :
        /\ x.person # rows[m].maker
        /\ \E y \in Verified(m) : y.person # rows[m].maker

\* crc.service.ts: "neither maker nor checker can publish it": what is published
\* was checked by a third person.  It holds of requests that do not overlap, and
\* of no others: a stale save can erase the checker that publish asks for.
PublishedByThird ==
    \A m \in Ids : \A x \in Published(m) :
        \E y \in Verified(m) : /\ y.structure = x.structure
                               /\ y.person \notin {x.person, rows[m].maker}

\* The structure an assessment was computed with is valid, was checked, and was
\* published: it holds of requests that do not overlap, and of no others.
AssessedAsPublished ==
    \A m \in Ids : \A a \in {x \in records[m] : x.kind = "ASSESSED"} :
        /\ a.structure \in Valid
        /\ \E y \in Verified(m) : y.structure = a.structure
        /\ \E x \in Published(m) : x.structure = a.structure

Stage(status) ==
    CASE status = "ABSENT"        -> "unopened"
      [] status = "DRAFT"         -> "open"
      [] status = "PENDING_CHECK" -> "submitted"
      [] status = "CHECKED"       -> "checked"
      [] OTHER                    -> "approved"

\* The checker a return leaves in the row is nobody's checker.
FileOf(m) ==
    [stage   |-> Stage(rows[m].status), content |-> rows[m].structure,
     maker   |-> rows[m].maker,
     checker |-> IF rows[m].status \in {"CHECKED", "PUBLISHED", "ARCHIVED"}
                 THEN rows[m].checker ELSE NONE]

\* Requests that do not overlap keep the maker-checker promise.
Chain == INSTANCE MakerChecker WITH
    Documents <- Ids, Staff <- Persons, Contents <- Structures, Nobody <- NONE,
    Nothing <- NONE, file <- [m \in Ids |-> FileOf(m)]

KeepsPromise == Chain!Spec
=============================================================================
