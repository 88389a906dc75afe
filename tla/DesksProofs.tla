------------------------------ MODULE DesksProofs ------------------------------
(***************************************************************************)
(* Proofs about the desks, for any numbers of rows, people and requests.   *)
(*                                                                         *)
(* However requests overlap: the argument is the same for each desk.  A    *)
(* stale save may put a status read long ago over whatever the row has     *)
(* become; what survives is that the records vouch for every status in a   *)
(* row or about to be written: an operation records with its status what   *)
(* the status calls for, or has read a status that was vouched for, and    *)
(* records are only added.                                                 *)
(*                                                                         *)
(* One request at a time: the second part, from Left on, down to the       *)
(* refinement of MakerChecker.                                             *)
(***************************************************************************)
EXTENDS Desks, FiniteSetTheorems, TLAPS

-----------------------------------------------------------------------------
(* Risk models. *)

CrcSignings(R) == {x \in R : x.kind # "ASSESSED"}
CrcPublished(R) == \E x \in R : x.kind = "MODEL_PUBLISHED"
CrcChecked(R) == \E x \in R : x.kind = "MODEL_CHECKED"

CrcRowOK(row, R) ==
    /\ IF row.status = "ABSENT" THEN R = {} ELSE row.structure # NONE
    /\ \A x \in CrcSignings(R) : x.person # row.maker
    /\ row.status = "CHECKED" \/ CrcPublished(R) => CrcChecked(R)

CrcPendingOK(p) ==
    /\ p.op = "insert" => p.entity.status = "DRAFT" /\ p.recs = {}
                         /\ p.entity.structure # NONE
    /\ p.op \in {"save", "write"} =>
         /\ rows[p.id].status # "ABSENT" /\ p.entity.status # "ABSENT"
         /\ p.entity.maker = rows[p.id].maker
         /\ \A x \in CrcSignings(p.recs) : x.person # p.entity.maker
         /\ p.entity.status = "CHECKED" \/ CrcPublished(p.recs)
              => CrcChecked(records[p.id] \cup p.recs)
    /\ p.op = "write" => \A c \in p.changed : p.entity[c] # UNDEFINED

CrcPending == Crc!Transactions(Crc!Row, Crc!Entity, Crc!Record, Crc!Columns)

CrcInv ==
    /\ Crc!TypeOK
    /\ \A m \in IdsOf["crc"] : CrcRowOK(rows[m], records[m])
    /\ \A r \in Requests : CrcPendingOK(pending[r])

LEMMA CrcMergeType ==
    ASSUME NEW row \in Crc!Row, NEW entity \in Crc!Entity, NEW changed,
           \A c \in changed : entity[c] # UNDEFINED
    PROVE  /\ Crc!Merge(row, entity, changed) \in Crc!Row
           /\ Crc!Merge(row, entity, changed).status \in {row.status, entity.status}
           /\ Crc!Merge(row, entity, changed).maker \in {row.maker, entity.maker}
           /\ row.structure # NONE => Crc!Merge(row, entity, changed).structure # NONE
BY DesksAssumption DEF Crc!Merge, Crc!Row, Crc!Entity

LEMMA CrcChangedType ==
    ASSUME NEW row \in Crc!Row, NEW entity \in Crc!Entity, NEW replaced
    PROVE  /\ Crc!Changed(row, entity, replaced) \subseteq Crc!Columns
           /\ \A c \in Crc!Changed(row, entity, replaced) : entity[c] # UNDEFINED
BY DEF Crc!Changed, Crc!Row, Crc!Columns

LEMMA CrcBeginKeeps ==
    ASSUME CrcInv, NEW r \in Requests, NEW p \in CrcPending, CrcPendingOK(p),
           Crc!Begin(r, p)
    PROVE  CrcInv'
<1>1. /\ pending' = [pending EXCEPT ![r] = p]
      /\ rows' = rows /\ records' = records /\ commits' = commits
  BY DEF Crc!Begin
<1>2. Crc!TypeOK'
  BY <1>1 DEF CrcInv, Crc!TypeOK, CrcPending
<1>3. \A q \in Requests : CrcPendingOK(pending'[q])
  BY <1>1 DEF CrcInv, Crc!TypeOK
<1> QED
  BY <1>1, <1>2, <1>3 DEF CrcInv, CrcPendingOK

LEMMA CrcAbortKeeps ==
    ASSUME CrcInv, NEW r \in Requests, Crc!Abort(r)
    PROVE  CrcInv'
<1>1. /\ pending' = [pending EXCEPT ![r] = Crc!Idle]
      /\ rows' = rows /\ records' = records /\ commits' = commits
  BY DEF Crc!Abort
<1>2. Crc!Idle \in CrcPending /\ CrcPendingOK(Crc!Idle)
  BY DEF CrcPending, Crc!Transactions, CrcPendingOK, Crc!Idle
<1>3. Crc!TypeOK'
  BY <1>1, <1>2 DEF CrcInv, Crc!TypeOK, CrcPending
<1>4. \A q \in Requests : CrcPendingOK(pending'[q])
  BY <1>1, <1>2 DEF CrcInv, Crc!TypeOK
<1> QED
  BY <1>1, <1>3, <1>4 DEF CrcInv, CrcPendingOK

LEMMA CrcCompareKeeps ==
    ASSUME CrcInv, NEW r \in Requests, Crc!Compare(r, {"structure"})
    PROVE  CrcInv'
<1>1. PICK p \in CrcPending : pending[r] = p /\ p.op = "save" /\ CrcPendingOK(p)
  BY DEF CrcInv, Crc!TypeOK, Crc!Compare, CrcPending
<1>2. p.id \in IdsOf["crc"] /\ p.entity \in Crc!Entity /\ p.recs \in SUBSET Crc!Record
  BY <1>1 DEF CrcPending, Crc!Transactions, Crc!Idle
<1> DEFINE changed == Crc!Changed(rows[p.id], p.entity, {"structure"})
           q == [op |-> "write", id |-> p.id, entity |-> p.entity,
                 changed |-> changed, recs |-> p.recs]
<1>3. changed \subseteq Crc!Columns /\ \A c \in changed : p.entity[c] # UNDEFINED
  BY <1>2, CrcChangedType DEF CrcInv, Crc!TypeOK
<1>4. /\ pending' = [pending EXCEPT ![r] = q]
      /\ rows' = rows /\ records' = records /\ commits' = commits
  BY <1>1 DEF Crc!Compare
<1> HIDE DEF changed
<1>5. q \in CrcPending /\ CrcPendingOK(q)
  BY <1>1, <1>2, <1>3 DEF CrcPending, Crc!Transactions, CrcPendingOK
<1> HIDE DEF q
<1>6. Crc!TypeOK'
  BY <1>4, <1>5 DEF CrcInv, Crc!TypeOK, CrcPending
<1>7. \A x \in Requests : CrcPendingOK(pending'[x])
  BY <1>4, <1>5 DEF CrcInv, Crc!TypeOK
<1> QED
  BY <1>4, <1>6, <1>7 DEF CrcInv, CrcPendingOK

\* A commit of row and recs under an id, which every other transaction that is
\* pending for the id may rely on.
LEMMA CrcWriteKeeps ==
    ASSUME CrcInv, NEW r \in Requests, NEW m \in IdsOf["crc"], NEW row \in Crc!Row,
           NEW recs \in SUBSET Crc!Record,
           rows' = [rows EXCEPT ![m] = row],
           records' = [records EXCEPT ![m] = records[m] \cup recs],
           pending' = [pending EXCEPT ![r] = Crc!Idle],
           commits' \in Nat,
           CrcRowOK(row, records[m] \cup recs),
           rows[m].status # "ABSENT" =>
             row.status # "ABSENT" /\ row.maker = rows[m].maker
    PROVE  CrcInv'
<1>1. Crc!Idle \in CrcPending /\ \A q : q = Crc!Idle => q.op \notin {"insert", "save", "write"}
  BY DEF CrcPending, Crc!Transactions, Crc!Idle
<1>2. /\ rows \in [IdsOf["crc"] -> Crc!Row]
      /\ records \in [IdsOf["crc"] -> SUBSET Crc!Record]
      /\ pending \in [Requests -> CrcPending]
  BY DEF CrcInv, Crc!TypeOK, CrcPending
<1>3. Crc!TypeOK'
  BY <1>1, <1>2 DEF Crc!TypeOK, CrcPending
<1>4. \A x \in IdsOf["crc"] : CrcRowOK(rows'[x], records'[x])
  <2> TAKE x \in IdsOf["crc"]
  <2>1. CASE x = m
    BY <1>2, <2>1
  <2>2. CASE x # m
    BY <1>2, <2>2 DEF CrcInv
  <2> QED
    BY <2>1, <2>2
<1>5. ASSUME NEW q \in Requests
      PROVE  CrcPendingOK(pending[q])'
  <2>1. CASE q = r
    <3>1. pending'[q] = Crc!Idle
      BY <1>2, <2>1
    <3> QED
      BY <3>1, <1>1 DEF CrcPendingOK
  <2>2. CASE q # r
    <3>1. PICK p \in CrcPending : pending[q] = p /\ pending'[q] = p /\ CrcPendingOK(p)
      BY <1>2, <2>2 DEF CrcInv
    <3>2. CASE p.op \in {"save", "write"}
      <4>1. p.id \in IdsOf["crc"]
        BY <3>2 DEF CrcPending, Crc!Transactions, Crc!Idle
      <4>2. /\ rows'[p.id].status # "ABSENT" /\ rows'[p.id].maker = rows[p.id].maker
            /\ records[p.id] \subseteq records'[p.id]
        BY <1>2, <3>1, <3>2, <4>1 DEF CrcPendingOK
      <4> QED
        BY <3>1, <3>2, <4>2 DEF CrcPendingOK, CrcChecked
    <3>3. CASE p.op \notin {"save", "write"}
      BY <3>1, <3>3 DEF CrcPendingOK
    <3> QED
      BY <3>2, <3>3
  <2> QED
    BY <2>1, <2>2
<1> QED
  BY <1>3, <1>4, <1>5 DEF CrcInv

LEMMA CrcCommitKeeps ==
    ASSUME CrcInv, NEW r \in Requests, Crc!Commit(r)
    PROVE  CrcInv'
<1>1. PICK m \in IdsOf["crc"] : Crc!CommitRow(r, m)
  BY DEF Crc!Commit
<1>2. PICK p \in CrcPending : pending[r] = p /\ CrcPendingOK(p)
  BY DEF CrcInv, Crc!TypeOK, CrcPending
<1>3. /\ rows[m] \in Crc!Row /\ CrcRowOK(rows[m], records[m])
      /\ commits' \in Nat
  BY <1>1 DEF CrcInv, Crc!TypeOK, Crc!CommitRow
<1>4. /\ records' = [records EXCEPT ![m] = records[m] \cup p.recs]
      /\ pending' = [pending EXCEPT ![r] = Crc!Idle]
  BY <1>1, <1>2 DEF Crc!CommitRow
<1>5. CASE p.op = "insert"
  <2>1. p.entity \in Crc!Row /\ p.recs = {} /\ p.entity.status = "DRAFT"
         /\ p.entity.structure # NONE
    BY <1>2, <1>5 DEF CrcPending, Crc!Transactions, Crc!Idle, CrcPendingOK
  <2>2. rows[m].status = "ABSENT" /\ rows' = [rows EXCEPT ![m] = p.entity]
    BY <1>1, <1>2, <1>5 DEF Crc!CommitRow, Crc!NextId, Crc!Written
  <2>3. records[m] = {}
    BY <1>3, <2>2 DEF CrcRowOK
  <2>4. CrcRowOK(p.entity, records[m] \cup p.recs)
    BY <2>1, <2>3 DEF CrcRowOK, CrcSignings, CrcPublished
  <2> QED
    BY <1>3, <1>4, <2>1, <2>2, <2>4, CrcWriteKeeps
<1>6. CASE p.op = "write"
  <2>1. /\ m = p.id /\ p.entity \in Crc!Entity /\ p.recs \in SUBSET Crc!Record
        /\ \A c \in p.changed : p.entity[c] # UNDEFINED
    BY <1>1, <1>2, <1>6 DEF Crc!CommitRow, CrcPending, Crc!Transactions, Crc!Idle,
                            CrcPendingOK
  <2> DEFINE new == Crc!Merge(rows[m], p.entity, p.changed)
  <2>2. rows' = [rows EXCEPT ![m] = new]
    BY <1>1, <1>2, <1>6, <2>1 DEF Crc!CommitRow, Crc!Written
  <2>3. /\ rows[m].status # "ABSENT" /\ p.entity.status # "ABSENT"
        /\ p.entity.maker = rows[m].maker
        /\ \A x \in CrcSignings(p.recs) : x.person # rows[m].maker
        /\ p.entity.status = "CHECKED" \/ CrcPublished(p.recs)
             => CrcChecked(records[m] \cup p.recs)
    BY <1>2, <1>6, <2>1 DEF CrcPendingOK
  <2>4. /\ new \in Crc!Row /\ new.status \in {rows[m].status, p.entity.status}
        /\ new.maker = rows[m].maker /\ new.structure # NONE
    BY <1>3, <2>1, <2>3, CrcMergeType DEF CrcRowOK
  <2> HIDE DEF new
  <2>5. CrcRowOK(new, records[m] \cup p.recs)
    BY <1>3, <2>3, <2>4 DEF CrcRowOK, CrcSignings, CrcPublished, CrcChecked
  <2> QED
    BY <1>3, <1>4, <2>1, <2>2, <2>3, <2>4, <2>5, CrcWriteKeeps
<1> QED
  BY <1>1, <1>2, <1>5, <1>6 DEF Crc!CommitRow

\* An entity of a model that exists, with records that vouch for its status, is
\* in order, whether it is saved or accompanies what is recorded.
LEMMA CrcSaveKeeps ==
    ASSUME CrcInv, NEW r \in Requests, NEW m \in IdsOf["crc"], NEW entity \in Crc!Entity,
           NEW recs \in SUBSET Crc!Record,
           \/ Crc!Begin(r, [op |-> "save", id |-> m, entity |-> entity, recs |-> recs])
           \/ Crc!Begin(r, [op |-> "write", id |-> m, entity |-> entity,
                            changed |-> {}, recs |-> recs]),
           rows[m].status # "ABSENT", entity.status # "ABSENT",
           entity.maker = rows[m].maker,
           \A x \in CrcSignings(recs) : x.person # entity.maker,
           entity.status = "CHECKED" \/ CrcPublished(recs)
             => CrcChecked(records[m] \cup recs)
    PROVE  CrcInv'
<1> DEFINE p == [op |-> "save", id |-> m, entity |-> entity, recs |-> recs]
           q == [op |-> "write", id |-> m, entity |-> entity, changed |-> {},
                 recs |-> recs]
<1>1. p \in CrcPending /\ q \in CrcPending
  BY DEF CrcPending, Crc!Transactions
<1>2. CrcPendingOK(p) /\ CrcPendingOK(q)
  BY DEF CrcPendingOK
<1>3. Crc!Begin(r, p) \/ Crc!Begin(r, q)
  OBVIOUS
<1> HIDE DEF p, q
<1> QED
  BY <1>1, <1>2, <1>3, CrcBeginKeeps

\* The records that an operation of person p makes of model m.
LEMMA CrcRecorded ==
    ASSUME Crc!TypeOK, NEW m \in IdsOf["crc"], NEW p \in PersonsOf["crc"],
           rows[m].structure # NONE,
           NEW kind \in {"MODEL_CHECKED", "MODEL_PUBLISHED", "ASSESSED"}
    PROVE  /\ Crc!Recorded(kind, p, m) \in SUBSET Crc!Record
           /\ \A x \in Crc!Recorded(kind, p, m) : x.kind = kind /\ x.person = p
           /\ \E x \in Crc!Recorded(kind, p, m) : x.kind = kind
BY DEF Crc!TypeOK, Crc!Recorded, Crc!Record, Crc!Row

LEMMA CrcNoRecords == CrcSignings({}) = {} /\ ~CrcPublished({})
BY DEF CrcSignings, CrcPublished

LEMMA CrcCreateKeeps ==
    ASSUME CrcInv, NEW r \in Requests, NEW p \in PersonsOf["crc"], NEW s \in Structures,
           Crc!CreateModel(r, p, s)
    PROVE  CrcInv'
<1> DEFINE row == [status |-> "DRAFT", maker |-> p, checker |-> NONE,
                   publisher |-> NONE, structure |-> s]
           q   == [op |-> "insert", entity |-> row, recs |-> {}]
<1>1. row \in Crc!Row /\ row.status = "DRAFT" /\ row.structure # NONE
  BY DesksAssumption DEF Crc!Row, Crc!Status
<1>2. Crc!Begin(r, q)
  BY DEF Crc!CreateModel, Crc!Inserting
<1> HIDE DEF row
<1>3. q \in CrcPending /\ CrcPendingOK(q)
  BY <1>1 DEF CrcPending, Crc!Transactions, CrcPendingOK
<1> HIDE DEF q
<1> QED
  BY <1>2, <1>3, CrcBeginKeeps

LEMMA CrcUpdateKeeps ==
    ASSUME CrcInv, NEW r \in Requests, NEW m \in IdsOf["crc"],
           NEW s \in Structures \cup {UNDEFINED}, Crc!UpdateModel(r, m, s)
    PROVE  CrcInv'
<1> DEFINE entity == [Crc!Loaded(m) EXCEPT !.structure = s]
<1>1. rows[m] \in Crc!Row /\ rows[m].status = "DRAFT"
  BY DEF CrcInv, Crc!TypeOK, Crc!UpdateModel
<1>2. /\ entity \in Crc!Entity /\ entity.status = "DRAFT"
      /\ entity.maker = rows[m].maker
  BY <1>1 DEF Crc!Loaded, Crc!Row, Crc!Entity
<1>3. Crc!Begin(r, [op |-> "save", id |-> m, entity |-> entity, recs |-> {}])
  BY DEF Crc!UpdateModel, Crc!Saving
<1> HIDE DEF entity
<1> QED
  BY <1>1, <1>2, <1>3, CrcNoRecords, CrcSaveKeeps

LEMMA CrcSubmitKeeps ==
    ASSUME CrcInv, NEW r \in Requests, NEW m \in IdsOf["crc"], Crc!Submit(r, m)
    PROVE  CrcInv'
<1> DEFINE entity == [Crc!Loaded(m) EXCEPT !.status = "PENDING_CHECK"]
<1>1. rows[m] \in Crc!Row /\ rows[m].status = "DRAFT"
  BY DEF CrcInv, Crc!TypeOK, Crc!Submit
<1>2. /\ entity \in Crc!Entity /\ entity.status = "PENDING_CHECK"
      /\ entity.maker = rows[m].maker
  BY <1>1 DEF Crc!Loaded, Crc!Row, Crc!Entity, Crc!Status
<1>3. Crc!Begin(r, [op |-> "save", id |-> m, entity |-> entity, recs |-> {}])
  BY DEF Crc!Submit, Crc!Saving
<1> HIDE DEF entity
<1> QED
  BY <1>1, <1>2, <1>3, CrcNoRecords, CrcSaveKeeps

LEMMA CrcReturnKeeps ==
    ASSUME CrcInv, NEW r \in Requests, NEW m \in IdsOf["crc"], Crc!ReturnModel(r, m)
    PROVE  CrcInv'
<1> DEFINE entity == [Crc!Loaded(m) EXCEPT !.status = "DRAFT", !.checker = UNDEFINED]
<1>1. rows[m] \in Crc!Row /\ rows[m].status # "ABSENT"
  BY DEF CrcInv, Crc!TypeOK, Crc!ReturnModel
<1>2. /\ entity \in Crc!Entity /\ entity.status = "DRAFT"
      /\ entity.maker = rows[m].maker
  BY <1>1 DEF Crc!Loaded, Crc!Row, Crc!Entity, Crc!Status
<1>3. Crc!Begin(r, [op |-> "save", id |-> m, entity |-> entity, recs |-> {}])
  BY DEF Crc!ReturnModel, Crc!Saving
<1> HIDE DEF entity
<1> QED
  BY <1>1, <1>2, <1>3, CrcNoRecords, CrcSaveKeeps

LEMMA CrcArchiveKeeps ==
    ASSUME CrcInv, NEW r \in Requests, NEW m \in IdsOf["crc"], Crc!Archive(r, m)
    PROVE  CrcInv'
<1> DEFINE entity == [Crc!Loaded(m) EXCEPT !.status = "ARCHIVED"]
<1>1. rows[m] \in Crc!Row /\ rows[m].status # "ABSENT"
  BY DEF CrcInv, Crc!TypeOK, Crc!Archive
<1>2. /\ entity \in Crc!Entity /\ entity.status = "ARCHIVED"
      /\ entity.maker = rows[m].maker
  BY <1>1 DEF Crc!Loaded, Crc!Row, Crc!Entity, Crc!Status
<1>3. Crc!Begin(r, [op |-> "save", id |-> m, entity |-> entity, recs |-> {}])
  BY DEF Crc!Archive, Crc!Saving
<1> HIDE DEF entity
<1> QED
  BY <1>1, <1>2, <1>3, CrcNoRecords, CrcSaveKeeps

\* A check brings the record of somebody else than the maker.
LEMMA CrcCheckKeeps ==
    ASSUME CrcInv, NEW r \in Requests, NEW m \in IdsOf["crc"], NEW p \in PersonsOf["crc"],
           Crc!CheckModel(r, m, p)
    PROVE  CrcInv'
<1> DEFINE entity == [Crc!Loaded(m) EXCEPT !.status = "CHECKED", !.checker = p]
           recs == Crc!Recorded("MODEL_CHECKED", p, m)
<1>1. /\ rows[m] \in Crc!Row /\ rows[m].status = "PENDING_CHECK" /\ rows[m].maker # p
      /\ rows[m].structure # NONE
  BY DEF CrcInv, Crc!TypeOK, Crc!CheckModel, CrcRowOK
<1>2. /\ entity \in Crc!Entity /\ entity.status = "CHECKED"
      /\ entity.maker = rows[m].maker
  BY <1>1 DEF Crc!Loaded, Crc!Row, Crc!Entity, Crc!Status
<1>3. Crc!Begin(r, [op |-> "save", id |-> m, entity |-> entity, recs |-> recs])
  BY DEF Crc!CheckModel, Crc!Saving
<1>4. /\ recs \in SUBSET Crc!Record /\ \A x \in recs : x.person = p
      /\ CrcChecked(recs)
  BY <1>1, CrcRecorded DEF CrcInv, CrcChecked
<1> HIDE DEF entity, recs
<1>5. /\ \A x \in CrcSignings(recs) : x.person # entity.maker
      /\ CrcChecked(records[m] \cup recs)
  BY <1>1, <1>2, <1>4 DEF CrcSignings, CrcChecked
<1> QED
  BY <1>1, <1>2, <1>3, <1>4, <1>5, CrcSaveKeeps

\* What publishes was read as checked, and the records vouch for that.
LEMMA CrcPublishKeeps ==
    ASSUME CrcInv, NEW r \in Requests, NEW m \in IdsOf["crc"], NEW p \in PersonsOf["crc"],
           Crc!Publish(r, m, p)
    PROVE  CrcInv'
<1> DEFINE entity == [Crc!Loaded(m) EXCEPT !.status = "PUBLISHED", !.publisher = p]
           recs == Crc!Recorded("MODEL_PUBLISHED", p, m)
<1>1. /\ rows[m] \in Crc!Row /\ rows[m].status = "CHECKED" /\ rows[m].maker # p
      /\ rows[m].structure # NONE /\ CrcChecked(records[m])
  BY DEF CrcInv, Crc!TypeOK, Crc!Publish, CrcRowOK
<1>2. /\ entity \in Crc!Entity /\ entity.status = "PUBLISHED"
      /\ entity.maker = rows[m].maker
  BY <1>1 DEF Crc!Loaded, Crc!Row, Crc!Entity, Crc!Status
<1>3. Crc!Begin(r, [op |-> "save", id |-> m, entity |-> entity, recs |-> recs])
  BY DEF Crc!Publish, Crc!Saving
<1>4. recs \in SUBSET Crc!Record /\ \A x \in recs : x.person = p
  BY <1>1, CrcRecorded DEF CrcInv
<1> HIDE DEF entity, recs
<1>5. /\ \A x \in CrcSignings(recs) : x.person # entity.maker
      /\ CrcChecked(records[m] \cup recs)
  BY <1>1, <1>2, <1>4 DEF CrcSignings, CrcChecked
<1> QED
  BY <1>1, <1>2, <1>3, <1>4, <1>5, CrcSaveKeeps

LEMMA CrcAssessKeeps ==
    ASSUME CrcInv, NEW r \in Requests, NEW m \in IdsOf["crc"], NEW p \in PersonsOf["crc"],
           Crc!ConductAssessment(r, m, p)
    PROVE  CrcInv'
<1> DEFINE entity == Crc!Loaded(m)
           recs == Crc!Recorded("ASSESSED", p, m)
<1>1. /\ rows[m] \in Crc!Row /\ rows[m].status = "PUBLISHED"
      /\ rows[m].structure # NONE
  BY DEF CrcInv, Crc!TypeOK, Crc!ConductAssessment, CrcRowOK
<1>2. /\ entity \in Crc!Entity /\ entity.status = "PUBLISHED"
      /\ entity.maker = rows[m].maker
  BY <1>1 DEF Crc!Loaded, Crc!Row, Crc!Entity
<1>3. Crc!Begin(r, [op |-> "write", id |-> m, entity |-> entity, changed |-> {},
                    recs |-> recs])
  BY DEF Crc!ConductAssessment
<1>4. recs \in SUBSET Crc!Record /\ \A x \in recs : x.kind = "ASSESSED"
  BY <1>1, CrcRecorded DEF CrcInv
<1> HIDE DEF entity, recs
<1>5. CrcSignings(recs) = {} /\ ~CrcPublished(recs)
  BY <1>4 DEF CrcSignings, CrcPublished
<1> QED
  BY <1>1, <1>2, <1>3, <1>4, <1>5, CrcSaveKeeps

LEMMA CrcStepKeeps ==
    ASSUME CrcInv, NEW r \in Requests, Crc!Step(r)
    PROVE  CrcInv'
<1>1. CASE Crc!Compare(r, {"structure"})
  BY <1>1, CrcCompareKeeps
<1>2. CASE Crc!Commit(r)
  BY <1>2, CrcCommitKeeps
<1>3. CASE Crc!Abort(r)
  BY <1>3, CrcAbortKeeps
<1>4. CASE \E p \in PersonsOf["crc"], s \in Structures : Crc!CreateModel(r, p, s)
  BY <1>4, CrcCreateKeeps
<1>5. CASE \E m \in IdsOf["crc"] :
             \/ Crc!Submit(r, m) \/ Crc!ReturnModel(r, m) \/ Crc!Archive(r, m)
             \/ \E s \in Structures \cup {UNDEFINED} : Crc!UpdateModel(r, m, s)
             \/ \E p \in PersonsOf["crc"] :
                  \/ Crc!CheckModel(r, m, p) \/ Crc!Publish(r, m, p)
                  \/ Crc!ConductAssessment(r, m, p)
  BY <1>5, CrcSubmitKeeps, CrcReturnKeeps, CrcArchiveKeeps, CrcUpdateKeeps,
     CrcCheckKeeps, CrcPublishKeeps, CrcAssessKeeps
<1> QED
  BY <1>1, <1>2, <1>3, <1>4, <1>5 DEF Crc!Step

LEMMA CrcInit ==
    ASSUME Crc!Init
    PROVE  CrcInv
<1>1. /\ rows = [i \in IdsOf["crc"] |-> Crc!AbsentRow]
      /\ records = [i \in IdsOf["crc"] |-> {}]
      /\ pending = [r \in Requests |-> Crc!Idle] /\ commits = 0
  BY DEF Crc!Init, Crc!DeskInit
<1>2. Crc!AbsentRow \in Crc!Row /\ Crc!AbsentRow.status = "ABSENT"
  BY DEF Crc!AbsentRow, Crc!Row, Crc!Status
<1>3. Crc!Idle \in CrcPending /\ Crc!Idle.op = "idle"
  BY DEF CrcPending, Crc!Transactions, Crc!Idle
<1>4. Crc!TypeOK
  BY <1>1, <1>2, <1>3 DEF Crc!TypeOK, CrcPending
<1>5. \A m \in IdsOf["crc"] : CrcRowOK(rows[m], records[m])
  BY <1>1, <1>2 DEF CrcRowOK, CrcSignings, CrcPublished
<1>6. \A r \in Requests : CrcPendingOK(pending[r])
  BY <1>1, <1>3 DEF CrcPendingOK
<1> QED
  BY <1>4, <1>5, <1>6 DEF CrcInv

LEMMA CrcSigned == CrcInv => Crc!PublishedByOthers
<1> SUFFICES ASSUME CrcInv, NEW m \in IdsOf["crc"], NEW x \in Crc!Published(m)
             PROVE  /\ x.person # rows[m].maker
                    /\ \E y \in Crc!Verified(m) : y.person # rows[m].maker
  BY DEF Crc!PublishedByOthers
<1>1. CrcRowOK(rows[m], records[m])
  BY DEF CrcInv
<1>2. x \in records[m] /\ x.kind = "MODEL_PUBLISHED"
  BY DEF Crc!Published
<1>3. PICK y \in records[m] : y.kind = "MODEL_CHECKED"
  BY <1>1, <1>2 DEF CrcRowOK, CrcPublished, CrcChecked
<1> QED
  BY <1>1, <1>2, <1>3 DEF CrcRowOK, CrcSignings, Crc!Verified

-----------------------------------------------------------------------------
(* Operations cases. *)

CaseHas(R, kind) == \E x \in R : x.kind = kind

\* The records R vouch for a row that those of recs go with.
CaseVouched(row, recs, R) ==
    /\ row.status = "EXECUTED" => CaseHas(R, "CONTRACT") /\ CaseHas(R, "SIGNATURE_CANCEL")
    /\ row.status = "PENDING_SIGNATURE" \/ CaseHas(recs, "CONTRACT")
         => CaseHas(R, "SIGNATURE_START")

CasePendingOK(p) ==
    /\ p.op = "insert" => p.entity.status = "NEW" /\ p.recs = {}
    /\ p.op \in {"save", "write"} =>
         CaseVouched(p.entity, p.recs, records[p.id] \cup p.recs)

CasePending ==
    Operations!Transactions(Operations!Row, Operations!Row, Operations!Record,
                            Operations!Columns)

CaseInv ==
    /\ Operations!TypeOK
    /\ \A c \in IdsOf["operations"] : CaseVouched(rows[c], records[c], records[c])
    /\ \A r \in Requests : CasePendingOK(pending[r])

LEMMA CaseMergeType ==
    ASSUME NEW row \in Operations!Row, NEW entity \in Operations!Row, NEW changed
    PROVE  /\ Operations!Merge(row, entity, changed) \in Operations!Row
           /\ Operations!Merge(row, entity, changed).status \in {row.status, entity.status}
BY DEF Operations!Merge, Operations!Row

LEMMA CaseBeginKeeps ==
    ASSUME CaseInv, NEW r \in Requests, NEW p \in CasePending, CasePendingOK(p),
           Operations!Begin(r, p)
    PROVE  CaseInv'
<1>1. /\ pending' = [pending EXCEPT ![r] = p]
      /\ rows' = rows /\ records' = records /\ commits' = commits
  BY DEF Operations!Begin
<1>2. Operations!TypeOK'
  BY <1>1 DEF CaseInv, Operations!TypeOK, CasePending
<1>3. \A q \in Requests : CasePendingOK(pending'[q])
  BY <1>1 DEF CaseInv, Operations!TypeOK
<1> QED
  BY <1>1, <1>2, <1>3 DEF CaseInv, CasePendingOK

LEMMA CaseAbortKeeps ==
    ASSUME CaseInv, NEW r \in Requests, Operations!Abort(r)
    PROVE  CaseInv'
<1>1. /\ pending' = [pending EXCEPT ![r] = Operations!Idle]
      /\ rows' = rows /\ records' = records /\ commits' = commits
  BY DEF Operations!Abort
<1>2. Operations!Idle \in CasePending /\ CasePendingOK(Operations!Idle)
  BY DEF CasePending, Operations!Transactions, CasePendingOK, Operations!Idle
<1>3. Operations!TypeOK'
  BY <1>1, <1>2 DEF CaseInv, Operations!TypeOK, CasePending
<1>4. \A q \in Requests : CasePendingOK(pending'[q])
  BY <1>1, <1>2 DEF CaseInv, Operations!TypeOK
<1> QED
  BY <1>1, <1>3, <1>4 DEF CaseInv, CasePendingOK

LEMMA CaseCompareKeeps ==
    ASSUME CaseInv, NEW r \in Requests, Operations!Compare(r, {})
    PROVE  CaseInv'
<1>1. PICK p \in CasePending : pending[r] = p /\ p.op = "save" /\ CasePendingOK(p)
  BY DEF CaseInv, Operations!TypeOK, Operations!Compare, CasePending
<1>2. /\ p.id \in IdsOf["operations"] /\ p.entity \in Operations!Row
      /\ p.recs \in SUBSET Operations!Record
  BY <1>1 DEF CasePending, Operations!Transactions, Operations!Idle
<1> DEFINE changed == Operations!Changed(rows[p.id], p.entity, {})
           q == [op |-> "write", id |-> p.id, entity |-> p.entity,
                 changed |-> changed, recs |-> p.recs]
<1>3. changed \subseteq Operations!Columns
  BY <1>2 DEF CaseInv, Operations!TypeOK, Operations!Changed, Operations!Row,
              Operations!Columns
<1>4. /\ pending' = [pending EXCEPT ![r] = q]
      /\ rows' = rows /\ records' = records /\ commits' = commits
  BY <1>1 DEF Operations!Compare
<1> HIDE DEF changed
<1>5. q \in CasePending /\ CasePendingOK(q)
  BY <1>1, <1>2, <1>3 DEF CasePending, Operations!Transactions, CasePendingOK
<1> HIDE DEF q
<1>6. Operations!TypeOK'
  BY <1>4, <1>5 DEF CaseInv, Operations!TypeOK, CasePending
<1>7. \A x \in Requests : CasePendingOK(pending'[x])
  BY <1>4, <1>5 DEF CaseInv, Operations!TypeOK
<1> QED
  BY <1>4, <1>6, <1>7 DEF CaseInv, CasePendingOK

LEMMA CaseWriteKeeps ==
    ASSUME CaseInv, NEW r \in Requests, NEW c \in IdsOf["operations"],
           NEW row \in Operations!Row, NEW recs \in SUBSET Operations!Record,
           rows' = [rows EXCEPT ![c] = row],
           records' = [records EXCEPT ![c] = records[c] \cup recs],
           pending' = [pending EXCEPT ![r] = Operations!Idle],
           commits' \in Nat,
           CaseVouched(row, records[c] \cup recs, records[c] \cup recs)
    PROVE  CaseInv'
<1>1. Operations!Idle \in CasePending /\ CasePendingOK(Operations!Idle)'
  BY DEF CasePending, Operations!Transactions, Operations!Idle, CasePendingOK
<1>2. /\ rows \in [IdsOf["operations"] -> Operations!Row]
      /\ records \in [IdsOf["operations"] -> SUBSET Operations!Record]
      /\ pending \in [Requests -> CasePending]
  BY DEF CaseInv, Operations!TypeOK, CasePending
<1>3. Operations!TypeOK'
  BY <1>1, <1>2 DEF Operations!TypeOK, CasePending
<1>4. \A x \in IdsOf["operations"] : CaseVouched(rows'[x], records'[x], records'[x])
  <2> TAKE x \in IdsOf["operations"]
  <2>1. CASE x = c
    BY <1>2, <2>1
  <2>2. CASE x # c
    BY <1>2, <2>2 DEF CaseInv
  <2> QED
    BY <2>1, <2>2
<1>5. ASSUME NEW q \in Requests
      PROVE  CasePendingOK(pending[q])'
  <2>1. CASE q = r
    BY <1>1, <1>2, <2>1 DEF CasePendingOK
  <2>2. CASE q # r
    <3>1. PICK p \in CasePending : pending[q] = p /\ pending'[q] = p /\ CasePendingOK(p)
      BY <1>2, <2>2 DEF CaseInv
    <3>2. CASE p.op \in {"save", "write"}
      <4>1. p.id \in IdsOf["operations"]
        BY <3>2 DEF CasePending, Operations!Transactions, Operations!Idle
      <4>2. records[p.id] \subseteq records'[p.id]
        BY <1>2, <4>1
      <4> QED
        BY <3>1, <3>2, <4>2 DEF CasePendingOK, CaseVouched, CaseHas
    <3>3. CASE p.op \notin {"save", "write"}
      BY <3>1, <3>3 DEF CasePendingOK
    <3> QED
      BY <3>2, <3>3
  <2> QED
    BY <2>1, <2>2
<1> QED
  BY <1>3, <1>4, <1>5 DEF CaseInv

LEMMA CaseCommitKeeps ==
    ASSUME CaseInv, NEW r \in Requests, Operations!Commit(r)
    PROVE  CaseInv'
<1>1. PICK c \in IdsOf["operations"] : Operations!CommitRow(r, c)
  BY DEF Operations!Commit
<1>2. PICK p \in CasePending : pending[r] = p /\ CasePendingOK(p)
  BY DEF CaseInv, Operations!TypeOK, CasePending
<1>3. /\ rows[c] \in Operations!Row /\ CaseVouched(rows[c], records[c], records[c])
      /\ commits' \in Nat
  BY <1>1 DEF CaseInv, Operations!TypeOK, Operations!CommitRow
<1>4. /\ records' = [records EXCEPT ![c] = records[c] \cup p.recs]
      /\ pending' = [pending EXCEPT ![r] = Operations!Idle]
  BY <1>1, <1>2 DEF Operations!CommitRow
<1>5. CASE p.op = "insert"
  <2>1. p.entity \in Operations!Row /\ p.recs = {} /\ p.entity.status = "NEW"
    BY <1>2, <1>5 DEF CasePending, Operations!Transactions, Operations!Idle, CasePendingOK
  <2>2. rows' = [rows EXCEPT ![c] = p.entity]
    BY <1>1, <1>2, <1>5 DEF Operations!CommitRow, Operations!Written
  <2>3. CaseVouched(p.entity, records[c] \cup p.recs, records[c] \cup p.recs)
    BY <1>3, <2>1 DEF CaseVouched, CaseHas
  <2> QED
    BY <1>3, <1>4, <2>1, <2>2, <2>3, CaseWriteKeeps
<1>6. CASE p.op = "write"
  <2>1. /\ c = p.id /\ p.entity \in Operations!Row /\ p.recs \in SUBSET Operations!Record
        /\ CaseVouched(p.entity, p.recs, records[c] \cup p.recs)
    <3>1. p.entity \in Operations!Row /\ p.recs \in SUBSET Operations!Record
      BY <1>2, <1>6 DEF CasePending, Operations!Transactions, Operations!Idle
    <3>2. c = p.id
      BY <1>1, <1>2, <1>6 DEF Operations!CommitRow
    <3>3. CaseVouched(p.entity, p.recs, records[p.id] \cup p.recs)
      BY <1>2, <1>6 DEF CasePendingOK
    <3> QED
      BY <3>1, <3>2, <3>3
  <2> DEFINE new == Operations!Merge(rows[c], p.entity, p.changed)
  <2>2. rows' = [rows EXCEPT ![c] = new]
    BY <1>1, <1>2, <1>6, <2>1 DEF Operations!CommitRow, Operations!Written
  <2>3. new \in Operations!Row /\ new.status \in {rows[c].status, p.entity.status}
    BY <1>3, <2>1, CaseMergeType
  <2> HIDE DEF new
  <2>4. CaseVouched(new, records[c] \cup p.recs, records[c] \cup p.recs)
    BY <1>3, <2>1, <2>3 DEF CaseVouched, CaseHas
  <2> QED
    BY <1>3, <1>4, <2>1, <2>2, <2>3, <2>4, CaseWriteKeeps
<1> QED
  BY <1>1, <1>2, <1>5, <1>6 DEF Operations!CommitRow

LEMMA CaseSaveKeeps ==
    ASSUME CaseInv, NEW r \in Requests, NEW c \in IdsOf["operations"],
           NEW entity \in Operations!Row, NEW recs \in SUBSET Operations!Record,
           Operations!Begin(r, [op |-> "save", id |-> c, entity |-> entity,
                                recs |-> recs]),
           CaseVouched(entity, recs, records[c] \cup recs)
    PROVE  CaseInv'
<1> DEFINE p == [op |-> "save", id |-> c, entity |-> entity, recs |-> recs]
<1>1. p \in CasePending /\ CasePendingOK(p)
  BY DEF CasePending, Operations!Transactions, CasePendingOK
<1>2. Operations!Begin(r, p)
  OBVIOUS
<1> HIDE DEF p
<1> QED
  BY <1>1, <1>2, CaseBeginKeeps

LEMMA CaseCreateKeeps ==
    ASSUME CaseInv, NEW r \in Requests, NEW g \in Organisations,
           Operations!CreateCaseFromOnboarding(r, g)
    PROVE  CaseInv'
<1> DEFINE row == [Operations!AbsentRow EXCEPT !.status = "NEW", !.organisation = g]
           p   == [op |-> "insert", entity |-> row, recs |-> {}]
<1>1. row \in Operations!Row /\ row.status = "NEW"
  BY DEF Operations!Row, Operations!AbsentRow, Operations!Status, Operations!Live
<1>2. Operations!Begin(r, p)
  BY DEF Operations!CreateCaseFromOnboarding, Operations!Inserting
<1> HIDE DEF row
<1>3. p \in CasePending /\ CasePendingOK(p)
  BY <1>1 DEF CasePending, Operations!Transactions, CasePendingOK
<1> HIDE DEF p
<1> QED
  BY <1>2, <1>3, CaseBeginKeeps

\* An entity that needs no records, saved without any.
LEMMA CaseQuietKeeps ==
    ASSUME CaseInv, NEW r \in Requests, NEW c \in IdsOf["operations"],
           NEW entity \in Operations!Row,
           entity.status \in {"IN_PREPARATION", "PENDING_CHECK", "CHECKED"},
           Operations!Begin(r, [op |-> "save", id |-> c, entity |-> entity, recs |-> {}])
    PROVE  CaseInv'
<1>1. CaseVouched(entity, {}, records[c] \cup {})
  BY DEF CaseVouched, CaseHas
<1> QED
  BY <1>1, CaseSaveKeeps

\* What comes before the approval records nothing.
LEMMA CasePrepareKeeps ==
    ASSUME CaseInv, NEW r \in Requests, NEW c \in IdsOf["operations"],
           NEW p \in PersonsOf["operations"],
           \/ Operations!Pickup(r, c, p) \/ Operations!Submit(r, c, p)
           \/ Operations!Check(r, c, p)
    PROVE  CaseInv'
<1>1. rows[c] \in Operations!Row
  BY DEF CaseInv, Operations!TypeOK
<1> DEFINE Good(entity) ==
             /\ entity \in Operations!Row
             /\ entity.status \in {"IN_PREPARATION", "PENDING_CHECK", "CHECKED"}
             /\ Operations!Begin(r, [op |-> "save", id |-> c, entity |-> entity, recs |-> {}])
<1>2. CASE Operations!Pickup(r, c, p)
  <2>1. Good([rows[c] EXCEPT !.status = "IN_PREPARATION", !.operator = p])
    BY <1>1, <1>2 DEF Operations!Pickup, Operations!Saving, Operations!Row,
                      Operations!Status, Operations!Live
  <2> QED
    BY <2>1, CaseQuietKeeps
<1>3. CASE Operations!Submit(r, c, p)
  <2>1. Good([rows[c] EXCEPT !.status = "PENDING_CHECK"])
    BY <1>1, <1>3 DEF Operations!Submit, Operations!Saving, Operations!Row,
                      Operations!Status, Operations!Live
  <2> QED
    BY <2>1, CaseQuietKeeps
<1>4. CASE Operations!Check(r, c, p)
  <2>1. Good([rows[c] EXCEPT !.status = "CHECKED", !.checker = p])
    BY <1>1, <1>4 DEF Operations!Check, Operations!Saving, Operations!Row,
                      Operations!Status, Operations!Live
  <2> QED
    BY <2>1, CaseQuietKeeps
<1> QED
  BY <1>2, <1>3, <1>4

LEMMA CaseReturnKeeps ==
    ASSUME CaseInv, NEW r \in Requests, NEW c \in IdsOf["operations"],
           Operations!ReturnToPreparation(r, c)
    PROVE  CaseInv'
<1> DEFINE entity == [rows[c] EXCEPT !.status = "IN_PREPARATION", !.checker = NONE]
<1>1. rows[c] \in Operations!Row
  BY DEF CaseInv, Operations!TypeOK
<1>2. entity \in Operations!Row /\ entity.status = "IN_PREPARATION"
  BY <1>1 DEF Operations!Row, Operations!Status, Operations!Live
<1>3. Operations!Begin(r, [op |-> "save", id |-> c, entity |-> entity, recs |-> {}])
  BY DEF Operations!ReturnToPreparation, Operations!Saving
<1> HIDE DEF entity
<1> QED
  BY <1>2, <1>3, CaseQuietKeeps

LEMMA CaseOf ==
    ASSUME NEW kind \in {"SIGNATURE_START", "SIGNATURE_CANCEL", "CONTRACT"},
           NEW p \in PersonsOf["operations"] \cup Signatories
    PROVE  /\ Operations!Of(kind, p) \in SUBSET Operations!Record
           /\ CaseHas(Operations!Of(kind, p), kind)
           /\ \A x \in Operations!Of(kind, p) : x.kind = kind
BY DEF Operations!Of, Operations!Record, CaseHas

LEMMA CaseApproveKeeps ==
    ASSUME CaseInv, NEW r \in Requests, NEW c \in IdsOf["operations"],
           NEW p \in PersonsOf["operations"], Operations!Approve(r, c, p)
    PROVE  CaseInv'
<1> DEFINE entity == [rows[c] EXCEPT !.status = "PENDING_SIGNATURE", !.approver = p]
           recs == Operations!Of("SIGNATURE_START", p)
<1>1. rows[c] \in Operations!Row
  BY DEF CaseInv, Operations!TypeOK
<1>2. entity \in Operations!Row /\ entity.status = "PENDING_SIGNATURE"
  BY <1>1 DEF Operations!Row, Operations!Status, Operations!Live
<1>3. Operations!Begin(r, [op |-> "save", id |-> c, entity |-> entity, recs |-> recs])
  BY DEF Operations!Approve, Operations!Saving
<1>4. recs \in SUBSET Operations!Record /\ CaseHas(recs, "SIGNATURE_START")
  BY CaseOf
<1> HIDE DEF entity, recs
<1>5. CaseVouched(entity, recs, records[c] \cup recs)
  BY <1>2, <1>4 DEF CaseVouched, CaseHas
<1> QED
  BY <1>2, <1>3, <1>4, <1>5, CaseSaveKeeps

\* The pack that is signed was read as sent for signature.
LEMMA CaseSignKeeps ==
    ASSUME CaseInv, NEW r \in Requests, NEW g \in Organisations, NEW p \in Signatories,
           Operations!PortalSign(r, g, p)
    PROVE  CaseInv'
<1> DEFINE recs == Operations!Of("CONTRACT", p) \cup Operations!Of("SIGNATURE_CANCEL", p)
<1>1. PICK c \in IdsOf["operations"] :
        /\ rows[c].status = "PENDING_SIGNATURE"
        /\ Operations!Begin(r, [op |-> "save", id |-> c,
                                entity |-> Operations!Signed(c, p), recs |-> recs])
  BY DEF Operations!PortalSign, Operations!Saving
<1>2. rows[c] \in Operations!Row /\ CaseVouched(rows[c], records[c], records[c])
  BY DEF CaseInv, Operations!TypeOK
<1> DEFINE entity == Operations!Signed(c, p)
<1>3. entity \in Operations!Row /\ entity.status = "EXECUTED"
  BY <1>2 DEF Operations!Signed, Operations!Row, Operations!Status
<1>4. /\ recs \in SUBSET Operations!Record
      /\ CaseHas(recs, "CONTRACT") /\ CaseHas(recs, "SIGNATURE_CANCEL")
  BY CaseOf DEF CaseHas
<1> HIDE DEF entity, recs
<1>5. CaseVouched(entity, recs, records[c] \cup recs)
  BY <1>1, <1>2, <1>3, <1>4 DEF CaseVouched, CaseHas
<1> QED
  BY <1>1, <1>3, <1>4, <1>5, CaseSaveKeeps DEF entity

LEMMA CaseStepKeeps ==
    ASSUME CaseInv, NEW r \in Requests, Operations!Step(r)
    PROVE  CaseInv'
<1>1. CASE Operations!Compare(r, {}) \/ Operations!Commit(r) \/ Operations!Abort(r)
  BY <1>1, CaseCompareKeeps, CaseCommitKeeps, CaseAbortKeeps
<1>2. CASE \E g \in Organisations :
             \/ Operations!CreateCaseFromOnboarding(r, g)
             \/ \E p \in Signatories : Operations!PortalSign(r, g, p)
  BY <1>2, CaseCreateKeeps, CaseSignKeeps
<1>3. CASE \E c \in IdsOf["operations"] : Operations!ReturnToPreparation(r, c)
  BY <1>3, CaseReturnKeeps
<1>4. CASE \E c \in IdsOf["operations"], p \in PersonsOf["operations"] :
             \/ Operations!Pickup(r, c, p) \/ Operations!Submit(r, c, p)
             \/ Operations!Check(r, c, p) \/ Operations!Approve(r, c, p)
  BY <1>4, CasePrepareKeeps, CaseApproveKeeps
<1> QED
  BY <1>1, <1>2, <1>3, <1>4 DEF Operations!Step

LEMMA CaseInit ==
    ASSUME Operations!Init
    PROVE  CaseInv
<1>1. /\ rows = [i \in IdsOf["operations"] |-> Operations!AbsentRow]
      /\ records = [i \in IdsOf["operations"] |-> {}]
      /\ pending = [r \in Requests |-> Operations!Idle] /\ commits = 0
  BY DEF Operations!Init, Operations!DeskInit
<1>2. Operations!AbsentRow \in Operations!Row /\ Operations!AbsentRow.status = "ABSENT"
  BY DEF Operations!AbsentRow, Operations!Row, Operations!Status
<1>3. Operations!Idle \in CasePending /\ CasePendingOK(Operations!Idle)
  BY DEF CasePending, Operations!Transactions, Operations!Idle, CasePendingOK
<1>4. Operations!TypeOK
  BY <1>1, <1>2, <1>3 DEF Operations!TypeOK, CasePending
<1>5. \A c \in IdsOf["operations"] : CaseVouched(rows[c], records[c], records[c])
  BY <1>1, <1>2 DEF CaseVouched, CaseHas
<1>6. \A r \in Requests : CasePendingOK(pending[r])
  BY <1>1, <1>3
<1> QED
  BY <1>4, <1>5, <1>6 DEF CaseInv

LEMMA CaseBacked == CaseInv => Operations!ContractAfterApproval
BY DEF CaseInv, CaseVouched, CaseHas, Operations!ContractAfterApproval,
       Operations!Recorded

-----------------------------------------------------------------------------
(* The CRM's pipeline. *)

DealVouched(row, R) ==
    /\ row.status = "PROMOTED" => Pipeline!RmStart \subseteq R
    /\ row.kind = "deal" => \E x \in R : x.kind = "MOVED" /\ x.to = row.status

DealRowOK(row, R) ==
    /\ row.status = "ABSENT" => row.kind = NONE
    /\ row.kind = "deal" => row.status \in Pipeline!DealStatus
    /\ DealVouched(row, R)

DealPendingOK(p) ==
    /\ p.op = "insert" => p.entity.status # "ABSENT" /\ DealRowOK(p.entity, p.recs)
    /\ p.op \in {"save", "write"} =>
         /\ rows[p.id].status # "ABSENT" /\ p.entity.status # "ABSENT"
         /\ p.entity.kind = rows[p.id].kind
         /\ DealRowOK(p.entity, records[p.id] \cup p.recs)

DealPending ==
    Pipeline!Transactions(Pipeline!Row, Pipeline!Row, Pipeline!Record, Pipeline!Columns)

DealInv ==
    /\ Pipeline!TypeOK
    /\ \A i \in IdsOf["pipeline"] : DealRowOK(rows[i], records[i])
    /\ \A r \in Requests : DealPendingOK(pending[r])

LEMMA DealRowOKGrows ==
    ASSUME NEW row, NEW R, NEW S, R \subseteq S, DealRowOK(row, R)
    PROVE  DealRowOK(row, S)
BY DEF DealRowOK, DealVouched

LEMMA DealMergeType ==
    ASSUME NEW row \in Pipeline!Row, NEW entity \in Pipeline!Row, NEW changed,
           entity.kind = row.kind
    PROVE  /\ Pipeline!Merge(row, entity, changed) \in Pipeline!Row
           /\ Pipeline!Merge(row, entity, changed).status \in {row.status, entity.status}
           /\ Pipeline!Merge(row, entity, changed).kind = row.kind
BY DEF Pipeline!Merge, Pipeline!Row

LEMMA DealBeginKeeps ==
    ASSUME DealInv, NEW r \in Requests, NEW p \in DealPending, DealPendingOK(p),
           Pipeline!Begin(r, p)
    PROVE  DealInv'
<1>1. /\ pending' = [pending EXCEPT ![r] = p]
      /\ rows' = rows /\ records' = records /\ commits' = commits
  BY DEF Pipeline!Begin
<1>2. Pipeline!TypeOK'
  BY <1>1 DEF DealInv, Pipeline!TypeOK, DealPending
<1>3. \A q \in Requests : DealPendingOK(pending'[q])
  BY <1>1 DEF DealInv, Pipeline!TypeOK
<1> QED
  BY <1>1, <1>2, <1>3 DEF DealInv, DealPendingOK

LEMMA DealAbortKeeps ==
    ASSUME DealInv, NEW r \in Requests, Pipeline!Abort(r)
    PROVE  DealInv'
<1>1. /\ pending' = [pending EXCEPT ![r] = Pipeline!Idle]
      /\ rows' = rows /\ records' = records /\ commits' = commits
  BY DEF Pipeline!Abort
<1>2. Pipeline!Idle \in DealPending /\ DealPendingOK(Pipeline!Idle)
  BY DEF DealPending, Pipeline!Transactions, DealPendingOK, Pipeline!Idle
<1>3. Pipeline!TypeOK'
  BY <1>1, <1>2 DEF DealInv, Pipeline!TypeOK, DealPending
<1>4. \A q \in Requests : DealPendingOK(pending'[q])
  BY <1>1, <1>2 DEF DealInv, Pipeline!TypeOK
<1> QED
  BY <1>1, <1>3, <1>4 DEF DealInv, DealPendingOK

LEMMA DealCompareKeeps ==
    ASSUME DealInv, NEW r \in Requests, Pipeline!Compare(r, {})
    PROVE  DealInv'
<1>1. PICK p \in DealPending : pending[r] = p /\ p.op = "save" /\ DealPendingOK(p)
  BY DEF DealInv, Pipeline!TypeOK, Pipeline!Compare, DealPending
<1>2. /\ p.id \in IdsOf["pipeline"] /\ p.entity \in Pipeline!Row
      /\ p.recs \in SUBSET Pipeline!Record
  BY <1>1 DEF DealPending, Pipeline!Transactions, Pipeline!Idle
<1> DEFINE changed == Pipeline!Changed(rows[p.id], p.entity, {})
           q == [op |-> "write", id |-> p.id, entity |-> p.entity,
                 changed |-> changed, recs |-> p.recs]
<1>3. changed \subseteq Pipeline!Columns
  BY <1>2 DEF DealInv, Pipeline!TypeOK, Pipeline!Changed, Pipeline!Row, Pipeline!Columns
<1>4. /\ pending' = [pending EXCEPT ![r] = q]
      /\ rows' = rows /\ records' = records /\ commits' = commits
  BY <1>1 DEF Pipeline!Compare
<1> HIDE DEF changed
<1>5. q \in DealPending /\ DealPendingOK(q)
  BY <1>1, <1>2, <1>3 DEF DealPending, Pipeline!Transactions, DealPendingOK
<1> HIDE DEF q
<1>6. Pipeline!TypeOK'
  BY <1>4, <1>5 DEF DealInv, Pipeline!TypeOK, DealPending
<1>7. \A x \in Requests : DealPendingOK(pending'[x])
  BY <1>4, <1>5 DEF DealInv, Pipeline!TypeOK
<1> QED
  BY <1>4, <1>6, <1>7 DEF DealInv, DealPendingOK

LEMMA DealWriteKeeps ==
    ASSUME DealInv, NEW r \in Requests, NEW i \in IdsOf["pipeline"],
           NEW row \in Pipeline!Row, NEW recs \in SUBSET Pipeline!Record,
           rows' = [rows EXCEPT ![i] = row],
           records' = [records EXCEPT ![i] = records[i] \cup recs],
           pending' = [pending EXCEPT ![r] = Pipeline!Idle],
           commits' \in Nat,
           DealRowOK(row, records[i] \cup recs), row.status # "ABSENT",
           rows[i].status # "ABSENT" => row.kind = rows[i].kind
    PROVE  DealInv'
<1>1. Pipeline!Idle \in DealPending /\ Pipeline!Idle.op = "idle"
  BY DEF DealPending, Pipeline!Transactions, Pipeline!Idle
<1>2. /\ rows \in [IdsOf["pipeline"] -> Pipeline!Row]
      /\ records \in [IdsOf["pipeline"] -> SUBSET Pipeline!Record]
      /\ pending \in [Requests -> DealPending]
  BY DEF DealInv, Pipeline!TypeOK, DealPending
<1>3. Pipeline!TypeOK'
  BY <1>1, <1>2 DEF Pipeline!TypeOK, DealPending
<1>4. \A x \in IdsOf["pipeline"] : DealRowOK(rows'[x], records'[x])
  <2> TAKE x \in IdsOf["pipeline"]
  <2>1. CASE x = i
    BY <1>2, <2>1
  <2>2. CASE x # i
    BY <1>2, <2>2 DEF DealInv
  <2> QED
    BY <2>1, <2>2
<1>5. ASSUME NEW q \in Requests
      PROVE  DealPendingOK(pending[q])'
  <2>1. CASE q = r
    BY <1>1, <1>2, <2>1 DEF DealPendingOK
  <2>2. CASE q # r
    <3>1. PICK p \in DealPending : pending[q] = p /\ pending'[q] = p /\ DealPendingOK(p)
      BY <1>2, <2>2 DEF DealInv
    <3>2. CASE p.op \in {"save", "write"}
      <4>1. p.id \in IdsOf["pipeline"]
        BY <3>2 DEF DealPending, Pipeline!Transactions, Pipeline!Idle
      <4>2. /\ rows'[p.id].status # "ABSENT" /\ rows'[p.id].kind = rows[p.id].kind
            /\ records[p.id] \cup p.recs \subseteq records'[p.id] \cup p.recs
        BY <1>2, <3>1, <3>2, <4>1 DEF DealPendingOK
      <4>3. DealRowOK(p.entity, records'[p.id] \cup p.recs)
        BY <3>1, <3>2, <4>2, DealRowOKGrows DEF DealPendingOK
      <4> QED
        BY <3>1, <3>2, <4>2, <4>3 DEF DealPendingOK
    <3>3. CASE p.op \notin {"save", "write"}
      BY <3>1, <3>3 DEF DealPendingOK
    <3> QED
      BY <3>2, <3>3
  <2> QED
    BY <2>1, <2>2
<1> QED
  BY <1>3, <1>4, <1>5 DEF DealInv

LEMMA DealCommitKeeps ==
    ASSUME DealInv, NEW r \in Requests, Pipeline!Commit(r)
    PROVE  DealInv'
<1>1. PICK i \in IdsOf["pipeline"] : Pipeline!CommitRow(r, i)
  BY DEF Pipeline!Commit
<1>2. PICK p \in DealPending : pending[r] = p /\ DealPendingOK(p)
  BY DEF DealInv, Pipeline!TypeOK, DealPending
<1>3. /\ rows[i] \in Pipeline!Row /\ DealRowOK(rows[i], records[i])
      /\ commits' \in Nat
  BY <1>1 DEF DealInv, Pipeline!TypeOK, Pipeline!CommitRow
<1>4. /\ records' = [records EXCEPT ![i] = records[i] \cup p.recs]
      /\ pending' = [pending EXCEPT ![r] = Pipeline!Idle]
  BY <1>1, <1>2 DEF Pipeline!CommitRow
<1>5. CASE p.op = "insert"
  <2>1. /\ p.entity \in Pipeline!Row /\ p.recs \in SUBSET Pipeline!Record
        /\ p.entity.status # "ABSENT" /\ DealRowOK(p.entity, p.recs)
    BY <1>2, <1>5 DEF DealPending, Pipeline!Transactions, Pipeline!Idle, DealPendingOK
  <2>2. rows[i].status = "ABSENT" /\ rows' = [rows EXCEPT ![i] = p.entity]
    BY <1>1, <1>2, <1>5 DEF Pipeline!CommitRow, Pipeline!NextId, Pipeline!Written
  <2>3. DealRowOK(p.entity, records[i] \cup p.recs)
    BY <2>1, DealRowOKGrows
  <2> QED
    BY <1>3, <1>4, <2>1, <2>2, <2>3, DealWriteKeeps
<1>6. CASE p.op = "write"
  <2>a. p.entity \in Pipeline!Row /\ p.recs \in SUBSET Pipeline!Record
    BY <1>6 DEF DealPending, Pipeline!Transactions, Pipeline!Idle
  <2>b. i = p.id
    BY <1>1, <1>2, <1>6 DEF Pipeline!CommitRow
  <2>1. /\ i = p.id /\ p.entity \in Pipeline!Row /\ p.recs \in SUBSET Pipeline!Record
        /\ rows[i].status # "ABSENT" /\ p.entity.status # "ABSENT"
        /\ p.entity.kind = rows[i].kind /\ DealRowOK(p.entity, records[i] \cup p.recs)
    BY <1>2, <1>6, <2>a, <2>b DEF DealPendingOK
  <2> DEFINE new == Pipeline!Merge(rows[i], p.entity, p.changed)
  <2>2. rows' = [rows EXCEPT ![i] = new]
    BY <1>1, <1>2, <1>6, <2>1 DEF Pipeline!CommitRow, Pipeline!Written
  <2>3. /\ new \in Pipeline!Row /\ new.status \in {rows[i].status, p.entity.status}
        /\ new.kind = rows[i].kind
    BY <1>3, <2>1, DealMergeType
  <2> HIDE DEF new
  <2>4. DealRowOK(rows[i], records[i] \cup p.recs)
    BY <1>3, DealRowOKGrows
  <2>5. DealRowOK(new, records[i] \cup p.recs) /\ new.status # "ABSENT"
    <3>1. CASE new.status = rows[i].status
      BY <2>1, <2>3, <2>4, <3>1 DEF DealRowOK, DealVouched
    <3>2. CASE new.status = p.entity.status
      BY <2>1, <2>3, <3>2 DEF DealRowOK, DealVouched
    <3> QED
      BY <2>3, <3>1, <3>2
  <2> QED
    BY <1>3, <1>4, <2>1, <2>2, <2>3, <2>5, DealWriteKeeps
<1> QED
  BY <1>1, <1>2, <1>5, <1>6 DEF Pipeline!CommitRow

LEMMA DealSaveKeeps ==
    ASSUME DealInv, NEW r \in Requests, NEW i \in IdsOf["pipeline"],
           NEW entity \in Pipeline!Row, NEW recs \in SUBSET Pipeline!Record,
           Pipeline!Begin(r, [op |-> "save", id |-> i, entity |-> entity, recs |-> recs]),
           rows[i].status # "ABSENT", entity.status # "ABSENT",
           entity.kind = rows[i].kind, DealRowOK(entity, records[i] \cup recs)
    PROVE  DealInv'
<1> DEFINE p == [op |-> "save", id |-> i, entity |-> entity, recs |-> recs]
<1>1. p \in DealPending /\ DealPendingOK(p)
  BY DEF DealPending, Pipeline!Transactions, DealPendingOK
<1>2. Pipeline!Begin(r, p)
  OBVIOUS
<1> HIDE DEF p
<1> QED
  BY <1>1, <1>2, DealBeginKeeps

LEMMA DealInsertKeeps ==
    ASSUME DealInv, NEW r \in Requests, NEW entity \in Pipeline!Row,
           NEW recs \in SUBSET Pipeline!Record,
           Pipeline!Begin(r, [op |-> "insert", entity |-> entity, recs |-> recs]),
           entity.status # "ABSENT", DealRowOK(entity, recs)
    PROVE  DealInv'
<1> DEFINE p == [op |-> "insert", entity |-> entity, recs |-> recs]
<1>1. p \in DealPending /\ DealPendingOK(p)
  BY DEF DealPending, Pipeline!Transactions, DealPendingOK
<1>2. Pipeline!Begin(r, p)
  OBVIOUS
<1> HIDE DEF p
<1> QED
  BY <1>1, <1>2, DealBeginKeeps

\* A lead, and a deal's stages apart from a lead's statuses.
LEMMA DealTypes ==
    ASSUME DealInv, NEW i \in IdsOf["pipeline"]
    PROVE  /\ rows[i] \in Pipeline!Row /\ DealRowOK(rows[i], records[i])
           /\ rows[i].kind \in {"lead", "deal"} => rows[i].status # "ABSENT"
           /\ \A s \in Pipeline!DealStatus : s \notin {"ABSENT", "PROMOTED"}
BY DesksAssumption DEF DealInv, Pipeline!TypeOK, DealRowOK, Pipeline!DealStatus

LEMMA DealCreateLeadKeeps ==
    ASSUME DealInv, NEW r \in Requests, NEW p \in PersonsOf["pipeline"],
           Pipeline!CreateLead(r, p)
    PROVE  DealInv'
<1> DEFINE row == [kind |-> "lead", status |-> "LEAD", owner |-> p, closed |-> FALSE]
<1>1. /\ row \in Pipeline!Row /\ row.status = "LEAD" /\ row.kind = "lead"
  BY DEF Pipeline!Row, Pipeline!LeadStatus
<1>2. Pipeline!Begin(r, [op |-> "insert", entity |-> row, recs |-> {}])
  BY DEF Pipeline!CreateLead, Pipeline!Inserting
<1> HIDE DEF row
<1>3. DealRowOK(row, {})
  BY <1>1 DEF DealRowOK, DealVouched
<1> QED
  BY <1>1, <1>2, <1>3, DealInsertKeeps

LEMMA DealUpdateLeadKeeps ==
    ASSUME DealInv, NEW r \in Requests, NEW i \in IdsOf["pipeline"],
           NEW p \in PersonsOf["pipeline"], NEW status \in Pipeline!LeadStatus,
           Pipeline!UpdateLead(r, i, p, status)
    PROVE  DealInv'
<1> DEFINE row == [rows[i] EXCEPT !.status = status]
<1>1. rows[i] \in Pipeline!Row /\ rows[i].kind = "lead" /\ rows[i].status # "ABSENT"
  BY DealTypes DEF Pipeline!UpdateLead
<1>2. status \notin {"ABSENT", "PROMOTED"}
  BY DEF Pipeline!UpdateLead, Pipeline!Allowed, Pipeline!LeadStatus
<1>3. row \in Pipeline!Row /\ row.status = status /\ row.kind = "lead"
  BY <1>1 DEF Pipeline!Row
<1>4. Pipeline!Begin(r, [op |-> "save", id |-> i, entity |-> row, recs |-> {}])
  BY DEF Pipeline!UpdateLead, Pipeline!Saving
<1> HIDE DEF row
<1>5. DealRowOK(row, records[i] \cup {})
  BY <1>2, <1>3 DEF DealRowOK, DealVouched
<1> QED
  BY <1>1, <1>2, <1>3, <1>4, <1>5, DealSaveKeeps

LEMMA DealAssignKeeps ==
    ASSUME DealInv, NEW r \in Requests, NEW i \in IdsOf["pipeline"],
           NEW p \in PersonsOf["pipeline"], Pipeline!AssignLead(r, i, p)
    PROVE  DealInv'
<1> DEFINE row == [rows[i] EXCEPT !.owner = p]
<1>1. /\ rows[i] \in Pipeline!Row /\ rows[i].kind = "lead" /\ rows[i].status # "ABSENT"
      /\ DealRowOK(rows[i], records[i])
  BY DealTypes DEF Pipeline!AssignLead
<1>2. row \in Pipeline!Row /\ row.status = rows[i].status /\ row.kind = "lead"
  BY <1>1 DEF Pipeline!Row
<1>3. Pipeline!Begin(r, [op |-> "save", id |-> i, entity |-> row, recs |-> {}])
  BY DEF Pipeline!AssignLead, Pipeline!Saving
<1> HIDE DEF row
<1>4. DealRowOK(row, records[i] \cup {})
  BY <1>1, <1>2 DEF DealRowOK, DealVouched
<1> QED
  BY <1>1, <1>2, <1>3, <1>4, DealSaveKeeps

\* A promotion brings the start of its clock.
LEMMA DealPromoteKeeps ==
    ASSUME DealInv, NEW r \in Requests, NEW i \in IdsOf["pipeline"],
           NEW p \in PersonsOf["pipeline"], Pipeline!PromoteLead(r, i, p)
    PROVE  DealInv'
<1> DEFINE row == [rows[i] EXCEPT !.status = "PROMOTED"]
<1>1. rows[i] \in Pipeline!Row /\ rows[i].kind = "lead" /\ rows[i].status # "ABSENT"
  BY DealTypes DEF Pipeline!PromoteLead
<1>2. row \in Pipeline!Row /\ row.status = "PROMOTED" /\ row.kind = "lead"
  BY <1>1 DEF Pipeline!Row, Pipeline!LeadStatus
<1>3. Pipeline!Begin(r, [op |-> "save", id |-> i, entity |-> row,
                         recs |-> Pipeline!RmStart])
  BY DEF Pipeline!PromoteLead, Pipeline!Saving
<1>4. Pipeline!RmStart \in SUBSET Pipeline!Record
  BY DEF Pipeline!RmStart, Pipeline!Record
<1> HIDE DEF row
<1>5. DealRowOK(row, records[i] \cup Pipeline!RmStart)
  BY <1>2 DEF DealRowOK, DealVouched
<1> QED
  BY <1>1, <1>2, <1>3, <1>4, <1>5, DealSaveKeeps

LEMMA DealMoved ==
    ASSUME NEW from \in Pipeline!DealStatus \cup {NONE}, NEW to \in Pipeline!DealStatus
    PROVE  /\ Pipeline!Moved(from, to) \in SUBSET Pipeline!Record
           /\ \E x \in Pipeline!Moved(from, to) : x.kind = "MOVED" /\ x.to = to
BY DEF Pipeline!Moved, Pipeline!Record

LEMMA DealCreateKeeps ==
    ASSUME DealInv, NEW r \in Requests, NEW i \in IdsOf["pipeline"],
           NEW p \in PersonsOf["pipeline"], Pipeline!CreateDeal(r, i, p)
    PROVE  DealInv'
<1> DEFINE row  == [kind |-> "deal", status |-> FirstStage, owner |-> rows[i].owner,
                    closed |-> FALSE]
           recs == Pipeline!Moved(NONE, FirstStage)
<1>1. FirstStage \in Pipeline!DealStatus /\ rows[i] \in Pipeline!Row
  BY DealTypes, DesksAssumption DEF Pipeline!DealStatus
<1>2. row \in Pipeline!Row /\ row.status = FirstStage /\ row.kind = "deal"
  BY <1>1 DEF Pipeline!Row
<1>3. Pipeline!Begin(r, [op |-> "insert", entity |-> row, recs |-> recs])
  BY DEF Pipeline!CreateDeal, Pipeline!Inserting
<1>4. /\ recs \in SUBSET Pipeline!Record
      /\ \E x \in recs : x.kind = "MOVED" /\ x.to = FirstStage
  BY <1>1, DealMoved
<1>5. FirstStage \notin {"ABSENT", "PROMOTED"}
  BY <1>1, DealTypes
<1> HIDE DEF row, recs
<1>6. DealRowOK(row, recs)
  BY <1>1, <1>2, <1>4, <1>5 DEF DealRowOK, DealVouched
<1> QED
  BY <1>2, <1>3, <1>4, <1>5, <1>6, DealInsertKeeps

\* A move brings its history row; what does not move keeps the row it has.
LEMMA DealUpdateKeeps ==
    ASSUME DealInv, NEW r \in Requests, NEW i \in IdsOf["pipeline"],
           NEW p \in PersonsOf["pipeline"], NEW stage \in Pipeline!DealStatus,
           Pipeline!UpdateDeal(r, i, p, stage)
    PROVE  DealInv'
<1> DEFINE row  == [rows[i] EXCEPT !.status = stage,
                                   !.closed = @ \/ stage \in {"WON", "LOST"}]
           recs == IF stage = rows[i].status THEN {} ELSE Pipeline!Moved(rows[i].status, stage)
<1>1. /\ rows[i] \in Pipeline!Row /\ rows[i].kind = "deal" /\ rows[i].status # "ABSENT"
      /\ DealRowOK(rows[i], records[i]) /\ stage \notin {"ABSENT", "PROMOTED"}
  BY DealTypes DEF Pipeline!UpdateDeal
<1>2. row \in Pipeline!Row /\ row.status = stage /\ row.kind = "deal"
  BY <1>1 DEF Pipeline!Row
<1>3. Pipeline!Begin(r, [op |-> "save", id |-> i, entity |-> row, recs |-> recs])
  BY DEF Pipeline!UpdateDeal, Pipeline!Saving
<1>4. /\ recs \in SUBSET Pipeline!Record
      /\ stage = rows[i].status \/ \E x \in recs : x.kind = "MOVED" /\ x.to = stage
  BY <1>1, DealMoved DEF DealRowOK
<1> HIDE DEF row, recs
<1>5. DealRowOK(row, records[i] \cup recs)
  BY <1>1, <1>2, <1>4 DEF DealRowOK, DealVouched
<1> QED
  BY <1>1, <1>2, <1>3, <1>4, <1>5, DealSaveKeeps

LEMMA DealStepKeeps ==
    ASSUME DealInv, NEW r \in Requests, Pipeline!Step(r)
    PROVE  DealInv'
<1>1. CASE Pipeline!Compare(r, {}) \/ Pipeline!Commit(r) \/ Pipeline!Abort(r)
  BY <1>1, DealCompareKeeps, DealCommitKeeps, DealAbortKeeps
<1>2. CASE \E p \in PersonsOf["pipeline"] : Pipeline!CreateLead(r, p)
  BY <1>2, DealCreateLeadKeeps
<1>3. CASE \E i \in IdsOf["pipeline"], p \in PersonsOf["pipeline"] :
             \/ Pipeline!AssignLead(r, i, p) \/ Pipeline!PromoteLead(r, i, p)
             \/ Pipeline!CreateDeal(r, i, p)
             \/ \E status \in Pipeline!LeadStatus : Pipeline!UpdateLead(r, i, p, status)
             \/ \E stage \in Pipeline!DealStatus : Pipeline!UpdateDeal(r, i, p, stage)
  BY <1>3, DealAssignKeeps, DealPromoteKeeps, DealCreateKeeps, DealUpdateLeadKeeps,
     DealUpdateKeeps
<1> QED
  BY <1>1, <1>2, <1>3 DEF Pipeline!Step

LEMMA DealInit ==
    ASSUME Pipeline!Init
    PROVE  DealInv
<1>1. /\ rows = [i \in IdsOf["pipeline"] |-> Pipeline!AbsentRow]
      /\ records = [i \in IdsOf["pipeline"] |-> {}]
      /\ pending = [r \in Requests |-> Pipeline!Idle] /\ commits = 0
  BY DEF Pipeline!Init, Pipeline!DeskInit
<1>2. /\ Pipeline!AbsentRow \in Pipeline!Row /\ Pipeline!AbsentRow.status = "ABSENT"
      /\ Pipeline!AbsentRow.kind = NONE
  BY DEF Pipeline!AbsentRow, Pipeline!Row
<1>3. Pipeline!Idle \in DealPending /\ DealPendingOK(Pipeline!Idle)
  BY DEF DealPending, Pipeline!Transactions, Pipeline!Idle, DealPendingOK
<1>4. Pipeline!TypeOK
  BY <1>1, <1>2, <1>3 DEF Pipeline!TypeOK, DealPending
<1>5. \A i \in IdsOf["pipeline"] : DealRowOK(rows[i], records[i])
  BY <1>1, <1>2, DesksAssumption DEF DealRowOK, DealVouched
<1>6. \A r \in Requests : DealPendingOK(pending[r])
  BY <1>1, <1>3
<1> QED
  BY <1>4, <1>5, <1>6 DEF DealInv

LEMMA DealBacked == DealInv => Pipeline!OutcomeIsRecorded
BY DEF DealInv, DealRowOK, DealVouched, Pipeline!OutcomeIsRecorded

-----------------------------------------------------------------------------
(* The governance of a profile's weights.  A weight in force points at the *)
(* request that proposed it: a request keeps its proposal and proposer, so *)
(* what vouches for the weight stays.                                      *)

ChangeApproved(R) == \E x \in R : x.kind = "CHANGE_APPROVED"
ApprovedByOthers(R, requester) ==
    \A x \in R : x.kind = "CHANGE_APPROVED" => x.person # requester

ChangeRowOK(row, R) ==
    /\ row.status = "ABSENT" => R = {}
    /\ ApprovedByOthers(R, row.requester)

ChangePendingOK(p) ==
    /\ p.op = "insert" => p.entity.status = "PENDING" /\ p.recs = {}
    /\ p.op \in {"save", "write"} =>
         /\ rows[p.id].status # "ABSENT" /\ p.entity.status # "ABSENT"
         /\ p.entity.requester = rows[p.id].requester
         /\ p.entity.proposal = rows[p.id].proposal
         /\ p.entity.status = "APPROVED" => ChangeApproved(p.recs)
         /\ ApprovedByOthers(p.recs, p.entity.requester)

ChangePending ==
    Governance!Transactions(Governance!Row, Governance!Row, Governance!Record,
                            Governance!Columns)

ChangeRowsInv ==
    /\ rows \in [IdsOf["governance"] -> Governance!Row]
    /\ records \in [IdsOf["governance"] -> SUBSET Governance!Record]
    /\ pending \in [Requests -> ChangePending]
    /\ commits \in Nat
    /\ \A i \in IdsOf["governance"] : ChangeRowOK(rows[i], records[i])
    /\ \A r \in Requests : ChangePendingOK(pending[r])

ProfileOK ==
    /\ edited \subseteq Weights
    /\ DOMAIN weights \subseteq Weights /\ \A w \in DOMAIN weights : weights[w] \in Values

ChangeInv == ChangeRowsInv /\ ProfileOK /\ Governance!ChangedByApproval

\* Request i proposed value v for weight w, and somebody else approved it.
Vouches(i, w, v) ==
    /\ w \in DOMAIN rows[i].proposal /\ rows[i].proposal[w] = v
    /\ \E x \in records[i] : x.kind = "CHANGE_APPROVED" /\ x.person # rows[i].requester

LEMMA ChangeMergeType ==
    ASSUME NEW row \in Governance!Row, NEW entity \in Governance!Row, NEW changed,
           entity.requester = row.requester, entity.proposal = row.proposal
    PROVE  /\ Governance!Merge(row, entity, changed) \in Governance!Row
           /\ Governance!Merge(row, entity, changed).status \in {row.status, entity.status}
           /\ Governance!Merge(row, entity, changed).requester = row.requester
           /\ Governance!Merge(row, entity, changed).proposal = row.proposal
BY DEF Governance!Merge, Governance!Row

\* What changes no weight keeps what vouches for it.
LEMMA ChangeQuietKeeps ==
    ASSUME ChangeInv, ChangeRowsInv', weights' = weights, edited' = edited,
           \A i \in IdsOf["governance"] : records[i] # {} =>
             /\ rows'[i].requester = rows[i].requester
             /\ rows'[i].proposal = rows[i].proposal
             /\ records[i] \subseteq records'[i]
    PROVE  ChangeInv'
<1>1. ProfileOK'
  BY DEF ChangeInv, ProfileOK
<1>2. ASSUME NEW w \in DOMAIN weights' \ edited', weights'[w] # Seed[w]
      PROVE  \E i \in IdsOf["governance"] : Vouches(i, w, weights[w])'
  <2>1. PICK i \in IdsOf["governance"] : Vouches(i, w, weights[w])
    BY <1>2 DEF ChangeInv, Governance!ChangedByApproval, Vouches
  <2>2. Vouches(i, w, weights[w])'
    BY <2>1 DEF Vouches
  <2> QED
    BY <2>2
<1> QED
  BY <1>1, <1>2 DEF ChangeInv, Governance!ChangedByApproval, Vouches

LEMMA ChangeBeginKeeps ==
    ASSUME ChangeInv, NEW r \in Requests, NEW p \in ChangePending, ChangePendingOK(p),
           Governance!Begin(r, p), weights' = weights, edited' = edited
    PROVE  ChangeInv'
<1>1. /\ pending' = [pending EXCEPT ![r] = p]
      /\ rows' = rows /\ records' = records /\ commits' = commits
  BY DEF Governance!Begin
<1>2. \A q \in Requests : ChangePendingOK(pending'[q])
  BY <1>1 DEF ChangeInv, ChangeRowsInv
<1>3. ChangeRowsInv'
  BY <1>1, <1>2 DEF ChangeInv, ChangeRowsInv, ChangePending, ChangePendingOK
<1> QED
  BY <1>1, <1>3, ChangeQuietKeeps

LEMMA ChangeAbortKeeps ==
    ASSUME ChangeInv, NEW r \in Requests, Governance!Abort(r),
           weights' = weights, edited' = edited
    PROVE  ChangeInv'
<1>1. /\ pending' = [pending EXCEPT ![r] = Governance!Idle]
      /\ rows' = rows /\ records' = records /\ commits' = commits
  BY DEF Governance!Abort
<1>2. Governance!Idle \in ChangePending /\ ChangePendingOK(Governance!Idle)
  BY DEF ChangePending, Governance!Transactions, ChangePendingOK, Governance!Idle
<1>3. \A q \in Requests : ChangePendingOK(pending'[q])
  BY <1>1, <1>2 DEF ChangeInv, ChangeRowsInv
<1>4. ChangeRowsInv'
  BY <1>1, <1>2, <1>3 DEF ChangeInv, ChangeRowsInv, ChangePending, ChangePendingOK
<1> QED
  BY <1>1, <1>4, ChangeQuietKeeps

LEMMA ChangeCompareKeeps ==
    ASSUME ChangeInv, NEW r \in Requests, Governance!Compare(r, {}),
           weights' = weights, edited' = edited
    PROVE  ChangeInv'
<1>1. PICK p \in ChangePending : pending[r] = p /\ p.op = "save" /\ ChangePendingOK(p)
  BY DEF ChangeInv, ChangeRowsInv, Governance!Compare
<1>2. /\ p.id \in IdsOf["governance"] /\ p.entity \in Governance!Row
      /\ p.recs \in SUBSET Governance!Record
  BY <1>1 DEF ChangePending, Governance!Transactions, Governance!Idle
<1> DEFINE changed == Governance!Changed(rows[p.id], p.entity, {})
           q == [op |-> "write", id |-> p.id, entity |-> p.entity,
                 changed |-> changed, recs |-> p.recs]
<1>3. changed \subseteq Governance!Columns
  BY <1>2 DEF ChangeInv, ChangeRowsInv, Governance!Changed, Governance!Row,
              Governance!Columns
<1>4. /\ pending' = [pending EXCEPT ![r] = q]
      /\ rows' = rows /\ records' = records /\ commits' = commits
  BY <1>1 DEF Governance!Compare
<1> HIDE DEF changed
<1>5. q \in ChangePending /\ ChangePendingOK(q)
  BY <1>1, <1>2, <1>3 DEF ChangePending, Governance!Transactions, ChangePendingOK
<1> HIDE DEF q
<1>6. \A x \in Requests : ChangePendingOK(pending'[x])
  BY <1>4, <1>5 DEF ChangeInv, ChangeRowsInv
<1>7. ChangeRowsInv'
  BY <1>4, <1>5, <1>6 DEF ChangeInv, ChangeRowsInv, ChangePending, ChangePendingOK
<1> QED
  BY <1>4, <1>7, ChangeQuietKeeps

\* A commit of row and recs under an id.
LEMMA ChangeWriteKeeps ==
    ASSUME ChangeInv, NEW r \in Requests, NEW i \in IdsOf["governance"],
           NEW row \in Governance!Row, NEW recs \in SUBSET Governance!Record,
           rows' = [rows EXCEPT ![i] = row],
           records' = [records EXCEPT ![i] = records[i] \cup recs],
           pending' = [pending EXCEPT ![r] = Governance!Idle],
           commits' \in Nat,
           row.status # "ABSENT", ApprovedByOthers(recs, row.requester),
           rows[i].status # "ABSENT" =>
             row.requester = rows[i].requester /\ row.proposal = rows[i].proposal
    PROVE  /\ ChangeRowsInv'
           /\ \A x \in IdsOf["governance"] : records[x] # {} =>
                /\ rows'[x].requester = rows[x].requester
                /\ rows'[x].proposal = rows[x].proposal
                /\ records[x] \subseteq records'[x]
<1>1. Governance!Idle \in ChangePending /\ Governance!Idle.op = "idle"
  BY DEF ChangePending, Governance!Transactions, Governance!Idle
<1>2. /\ rows \in [IdsOf["governance"] -> Governance!Row]
      /\ records \in [IdsOf["governance"] -> SUBSET Governance!Record]
      /\ pending \in [Requests -> ChangePending]
      /\ \A x \in IdsOf["governance"] : ChangeRowOK(rows[x], records[x])
  BY DEF ChangeInv, ChangeRowsInv
<1>3. /\ rows' \in [IdsOf["governance"] -> Governance!Row]
      /\ records' \in [IdsOf["governance"] -> SUBSET Governance!Record]
      /\ pending' \in [Requests -> ChangePending]
  BY <1>1, <1>2
<1>4. \A x \in IdsOf["governance"] : ChangeRowOK(rows'[x], records'[x])
  <2> TAKE x \in IdsOf["governance"]
  <2>1. CASE x = i
    <3>1. CASE rows[i].status = "ABSENT"
      BY <1>2, <2>1, <3>1 DEF ChangeRowOK, ApprovedByOthers
    <3>2. CASE rows[i].status # "ABSENT"
      BY <1>2, <2>1, <3>2 DEF ChangeRowOK, ApprovedByOthers
    <3> QED
      BY <3>1, <3>2
  <2>2. CASE x # i
    BY <1>2, <2>2
  <2> QED
    BY <2>1, <2>2
<1>5. ASSUME NEW q \in Requests
      PROVE  ChangePendingOK(pending[q])'
  <2>1. CASE q = r
    BY <1>1, <1>2, <2>1 DEF ChangePendingOK
  <2>2. CASE q # r
    <3>1. PICK p \in ChangePending : pending[q] = p /\ pending'[q] = p /\ ChangePendingOK(p)
      BY <1>2, <2>2 DEF ChangeInv, ChangeRowsInv
    <3>2. CASE p.op \in {"save", "write"}
      <4>1. p.id \in IdsOf["governance"]
        BY <3>2 DEF ChangePending, Governance!Transactions, Governance!Idle
      <4>2. /\ rows'[p.id].status # "ABSENT"
            /\ rows'[p.id].requester = rows[p.id].requester
            /\ rows'[p.id].proposal = rows[p.id].proposal
        BY <1>2, <3>1, <3>2, <4>1 DEF ChangePendingOK
      <4> QED
        BY <3>1, <3>2, <4>2 DEF ChangePendingOK
    <3>3. CASE p.op \notin {"save", "write"}
      BY <3>1, <3>3 DEF ChangePendingOK
    <3> QED
      BY <3>2, <3>3
  <2> QED
    BY <2>1, <2>2
<1>6. ASSUME NEW x \in IdsOf["governance"], records[x] # {}
      PROVE  /\ rows'[x].requester = rows[x].requester
             /\ rows'[x].proposal = rows[x].proposal
             /\ records[x] \subseteq records'[x]
  BY <1>2, <1>6 DEF ChangeRowOK
<1> QED
  BY <1>3, <1>4, <1>5, <1>6 DEF ChangeRowsInv

\* An approval puts into force what its own request proposed.
LEMMA ChangeApplyKeeps ==
    ASSUME ChangeInv, NEW i \in IdsOf["governance"], ChangeRowsInv',
           weights' = Governance!Applied(rows'[i].proposal, weights), edited' = edited,
           ChangeApproved(records'[i]),
           \A x \in IdsOf["governance"] : records[x] # {} =>
             /\ rows'[x].requester = rows[x].requester
             /\ rows'[x].proposal = rows[x].proposal
             /\ records[x] \subseteq records'[x]
    PROVE  ChangeInv'
<1> DEFINE proposal == rows'[i].proposal
<1>1. \A w \in DOMAIN proposal : proposal[w] \in Values
  BY DEF ChangeRowsInv, Governance!Row, Governance!Proposals, Governance!None
<1>2. /\ DOMAIN weights' = DOMAIN weights
      /\ \A w \in DOMAIN weights :
           weights'[w] = IF w \in DOMAIN proposal THEN proposal[w] ELSE weights[w]
  BY DEF Governance!Applied
<1>3. \E x \in records'[i] : x.kind = "CHANGE_APPROVED" /\ x.person # rows'[i].requester
  BY DEF ChangeRowsInv, ChangeRowOK, ChangeApproved, ApprovedByOthers
<1> HIDE DEF proposal
<1>4. ProfileOK'
  BY <1>1, <1>2 DEF ChangeInv, ProfileOK
<1>5. ASSUME NEW w \in DOMAIN weights' \ edited', weights'[w] # Seed[w]
      PROVE  \E x \in IdsOf["governance"] : Vouches(x, w, weights[w])'
  <2>1. CASE w \in DOMAIN proposal
    <3>1. Vouches(i, w, weights[w])'
      BY <1>2, <1>3, <1>5, <2>1 DEF Vouches, proposal
    <3> QED
      BY <3>1
  <2>2. CASE w \notin DOMAIN proposal
    <3>1. weights'[w] = weights[w] /\ w \in DOMAIN weights \ edited
      BY <1>2, <1>5, <2>2
    <3>2. PICK x \in IdsOf["governance"] : Vouches(x, w, weights[w])
      BY <1>5, <3>1 DEF ChangeInv, Governance!ChangedByApproval, Vouches
    <3>3. Vouches(x, w, weights[w])'
      BY <3>1, <3>2 DEF Vouches
    <3> QED
      BY <3>3
  <2> QED
    BY <2>1, <2>2
<1> QED
  BY <1>4, <1>5 DEF ChangeInv, Governance!ChangedByApproval, Vouches

LEMMA ChangeCommitKeeps ==
    ASSUME ChangeInv, NEW r \in Requests, Governance!Commit(r)
    PROVE  ChangeInv'
<1>1. PICK i \in IdsOf["governance"] : Governance!CommitRow(r, i)
  BY DEF Governance!Commit
<1>2. PICK p \in ChangePending : pending[r] = p /\ ChangePendingOK(p)
  BY DEF ChangeInv, ChangeRowsInv
<1>3. rows[i] \in Governance!Row /\ commits' \in Nat
  BY <1>1 DEF ChangeInv, ChangeRowsInv, Governance!CommitRow
<1>4. /\ records' = [records EXCEPT ![i] = records[i] \cup p.recs]
      /\ pending' = [pending EXCEPT ![r] = Governance!Idle]
  BY <1>1, <1>2 DEF Governance!CommitRow
<1>5. /\ weights' = IF p.entity.status = "APPROVED"
                    THEN Governance!Applied(p.entity.proposal, weights) ELSE weights
      /\ edited' = edited
  BY <1>2 DEF Governance!Commit
<1>6. CASE p.op = "insert"
  <2>1. /\ p.entity \in Governance!Row /\ p.recs \in SUBSET Governance!Record
        /\ p.entity.status = "PENDING" /\ p.recs = {}
    BY <1>2, <1>6 DEF ChangePending, Governance!Transactions, Governance!Idle,
                      ChangePendingOK
  <2>2. rows[i].status = "ABSENT" /\ rows' = [rows EXCEPT ![i] = p.entity]
    BY <1>1, <1>2, <1>6 DEF Governance!CommitRow, Governance!NextId, Governance!Written
  <2>3. ApprovedByOthers(p.recs, p.entity.requester)
    BY <2>1 DEF ApprovedByOthers
  <2>4. /\ ChangeRowsInv'
        /\ \A x \in IdsOf["governance"] : records[x] # {} =>
             /\ rows'[x].requester = rows[x].requester
             /\ rows'[x].proposal = rows[x].proposal
             /\ records[x] \subseteq records'[x]
    BY <1>3, <1>4, <2>1, <2>2, <2>3, ChangeWriteKeeps
  <2>5. weights' = weights
    BY <1>5, <2>1
  <2> QED
    BY <1>5, <2>4, <2>5, ChangeQuietKeeps
<1>7. CASE p.op = "write"
  <2>1. p.entity \in Governance!Row /\ p.recs \in SUBSET Governance!Record
    BY <1>7 DEF ChangePending, Governance!Transactions, Governance!Idle
  <2>2. i = p.id
    BY <1>1, <1>2, <1>7 DEF Governance!CommitRow
  <2>3. /\ rows[i].status # "ABSENT" /\ p.entity.status # "ABSENT"
        /\ p.entity.requester = rows[i].requester /\ p.entity.proposal = rows[i].proposal
        /\ p.entity.status = "APPROVED" => ChangeApproved(p.recs)
        /\ ApprovedByOthers(p.recs, p.entity.requester)
    BY <1>2, <1>7, <2>2 DEF ChangePendingOK
  <2> DEFINE new == Governance!Merge(rows[i], p.entity, p.changed)
  <2>4. rows' = [rows EXCEPT ![i] = new]
    BY <1>1, <1>2, <1>7 DEF Governance!CommitRow, Governance!Written
  <2>5. /\ new \in Governance!Row /\ new.status \in {rows[i].status, p.entity.status}
        /\ new.requester = rows[i].requester /\ new.proposal = rows[i].proposal
    BY <1>3, <2>1, <2>3, ChangeMergeType
  <2> HIDE DEF new
  <2>6. /\ ChangeRowsInv'
        /\ \A x \in IdsOf["governance"] : records[x] # {} =>
             /\ rows'[x].requester = rows[x].requester
             /\ rows'[x].proposal = rows[x].proposal
             /\ records[x] \subseteq records'[x]
    BY <1>3, <1>4, <2>1, <2>3, <2>4, <2>5, ChangeWriteKeeps
  <2>7. CASE p.entity.status = "APPROVED"
    <3>1. rows'[i] = new /\ records'[i] = records[i] \cup p.recs
      BY <1>4, <2>4 DEF ChangeInv, ChangeRowsInv
    <3>2. weights' = Governance!Applied(rows'[i].proposal, weights)
      BY <1>5, <2>3, <2>5, <2>7, <3>1
    <3>3. ChangeApproved(records'[i])
      BY <2>3, <2>7, <3>1 DEF ChangeApproved
    <3> QED
      BY <1>5, <2>6, <3>2, <3>3, ChangeApplyKeeps
  <2>8. CASE p.entity.status # "APPROVED"
    <3>1. weights' = weights
      BY <1>5, <2>8
    <3> QED
      BY <1>5, <2>6, <3>1, ChangeQuietKeeps
  <2> QED
    BY <2>7, <2>8
<1> QED
  BY <1>1, <1>2, <1>6, <1>7 DEF Governance!CommitRow

LEMMA ChangeCreateKeeps ==
    ASSUME ChangeInv, NEW r \in Requests, NEW p \in PersonsOf["governance"],
           NEW proposal \in Governance!Proposals,
           Governance!CreateChangeRequest(r, p, proposal)
    PROVE  ChangeInv'
<1> DEFINE row == [status |-> "PENDING", requester |-> p, decider |-> NONE,
                   proposal |-> proposal]
           tx  == [op |-> "insert", entity |-> row, recs |-> {}]
<1>1. row \in Governance!Row /\ row.status = "PENDING"
  BY DEF Governance!Row, Governance!Status
<1>2. Governance!Begin(r, tx) /\ weights' = weights /\ edited' = edited
  BY DEF Governance!CreateChangeRequest, Governance!Inserting
<1> HIDE DEF row
<1>3. tx \in ChangePending /\ ChangePendingOK(tx)
  BY <1>1 DEF ChangePending, Governance!Transactions, ChangePendingOK
<1> HIDE DEF tx
<1> QED
  BY <1>2, <1>3, ChangeBeginKeeps

\* The decision of a pending request, with its audit row.
LEMMA ChangeDecideKeeps ==
    ASSUME ChangeInv, NEW r \in Requests, NEW i \in IdsOf["governance"],
           NEW p \in PersonsOf["governance"],
           NEW status \in {"APPROVED", "REJECTED"},
           NEW kind \in {"CHANGE_APPROVED", "CHANGE_REJECTED"},
           rows[i].status = "PENDING", weights' = weights, edited' = edited,
           status = "APPROVED" => kind = "CHANGE_APPROVED",
           kind = "CHANGE_APPROVED" => rows[i].requester # p,
           Governance!Begin(r, Governance!Saving(i, Governance!Decided(i, status, p),
                                                 {[kind |-> kind, person |-> p]}))
    PROVE  ChangeInv'
<1> DEFINE row  == Governance!Decided(i, status, p)
           recs == {[kind |-> kind, person |-> p]}
           tx   == [op |-> "save", id |-> i, entity |-> row, recs |-> recs]
<1>1. /\ row \in Governance!Row /\ row.status = status
      /\ row.requester = rows[i].requester /\ row.proposal = rows[i].proposal
  BY DEF Governance!Decided, ChangeInv, ChangeRowsInv, Governance!Row, Governance!Status
<1>2. /\ recs \in SUBSET Governance!Record
      /\ status = "APPROVED" => ChangeApproved(recs)
      /\ ApprovedByOthers(recs, rows[i].requester)
  BY DEF Governance!Record, ChangeApproved, ApprovedByOthers
<1>3. Governance!Begin(r, tx)
  BY DEF Governance!Saving
<1> HIDE DEF row, recs
<1>4. tx \in ChangePending /\ ChangePendingOK(tx)
  BY <1>1, <1>2 DEF ChangePending, Governance!Transactions, ChangePendingOK
<1> HIDE DEF tx
<1> QED
  BY <1>3, <1>4, ChangeBeginKeeps

\* An endpoint that asks for no approval marks the weight it writes.
LEMMA ChangeOtherKeeps ==
    ASSUME ChangeInv, Governance!Other
    PROVE  ChangeInv'
<1>1. PICK w \in Weights, v \in Values :
        Governance!UpdateWeight(w, v) \/ Governance!CreateWeight(w, v)
  BY DEF Governance!Other
<1>2. /\ edited' = edited \cup {w} /\ DOMAIN weights' = DOMAIN weights \cup {w}
      /\ weights'[w] = v /\ \A x \in DOMAIN weights \ {w} : weights'[x] = weights[x]
      /\ Governance!Edit(w)
  BY <1>1 DEF Governance!UpdateWeight, Governance!CreateWeight, Governance!Edit
<1>3. /\ rows' = rows /\ records' = records /\ pending' = pending
      /\ commits' = commits + 1
  BY <1>2 DEF Governance!Edit
<1>4. ChangeRowsInv'
  BY <1>3 DEF ChangeInv, ChangeRowsInv, ChangePendingOK
<1>5. ProfileOK'
  BY <1>2 DEF ChangeInv, ProfileOK
<1>6. Governance!ChangedByApproval'
  BY <1>2, <1>3 DEF ChangeInv, Governance!ChangedByApproval
<1> QED
  BY <1>4, <1>5, <1>6 DEF ChangeInv

LEMMA ChangeStepKeeps ==
    ASSUME ChangeInv, NEW r \in Requests, Governance!Step(r)
    PROVE  ChangeInv'
<1>1. CASE Governance!Compare(r, {}) /\ UNCHANGED <<weights, edited>>
  BY <1>1, ChangeCompareKeeps
<1>2. CASE Governance!Commit(r)
  BY <1>2, ChangeCommitKeeps
<1>3. CASE Governance!Abort(r) /\ UNCHANGED <<weights, edited>>
  BY <1>3, ChangeAbortKeeps
<1>4. CASE \E p \in PersonsOf["governance"], proposal \in Governance!Proposals :
             Governance!CreateChangeRequest(r, p, proposal)
  BY <1>4, ChangeCreateKeeps
<1>5. ASSUME NEW i \in IdsOf["governance"], NEW p \in PersonsOf["governance"],
             Governance!Approve(r, i, p)
      PROVE  ChangeInv'
  BY <1>5, ChangeDecideKeeps DEF Governance!Approve
<1>6. ASSUME NEW i \in IdsOf["governance"], NEW p \in PersonsOf["governance"],
             Governance!Reject(r, i, p)
      PROVE  ChangeInv'
  BY <1>6, ChangeDecideKeeps DEF Governance!Reject
<1> QED
  BY <1>1, <1>2, <1>3, <1>4, <1>5, <1>6 DEF Governance!Step

LEMMA ChangeInit ==
    ASSUME Governance!Init
    PROVE  ChangeInv
<1>1. /\ rows = [i \in IdsOf["governance"] |-> Governance!AbsentRow]
      /\ records = [i \in IdsOf["governance"] |-> {}]
      /\ pending = [r \in Requests |-> Governance!Idle] /\ commits = 0
      /\ weights = Seed /\ edited = {}
  BY DEF Governance!Init, Governance!DeskInit
<1>2. Governance!AbsentRow \in Governance!Row /\ Governance!AbsentRow.status = "ABSENT"
  BY DEF Governance!AbsentRow, Governance!Row, Governance!Status
<1>3. Governance!Idle \in ChangePending /\ Governance!Idle.op = "idle"
  BY DEF ChangePending, Governance!Transactions, Governance!Idle
<1>4. ChangeRowsInv
  BY <1>1, <1>2, <1>3 DEF ChangeRowsInv, ChangeRowOK, ChangePendingOK, ApprovedByOthers
<1>5. ProfileOK
  BY <1>1, DesksAssumption DEF ProfileOK
<1>6. Governance!ChangedByApproval
  BY <1>1 DEF Governance!ChangedByApproval
<1> QED
  BY <1>4, <1>5, <1>6 DEF ChangeInv

LEMMA ChangeTypes == ChangeInv => Governance!TypeOK
BY DEF ChangeInv, ChangeRowsInv, ProfileOK, ChangePending, Governance!TypeOK

-----------------------------------------------------------------------------
(* The desks together: one of them is at work, the same one for ever. *)

DesksInv ==
    /\ desk \in DeskNames
    /\ desk = "crc"        => CrcInv
    /\ desk = "operations" => CaseInv
    /\ desk = "governance" => ChangeInv
    /\ desk = "pipeline"   => DealInv

LEMMA DesksInit == Init => DesksInv
<1> SUFFICES ASSUME Init PROVE DesksInv
  OBVIOUS
<1>1. desk \in DeskNames
  BY DesksAssumption DEF Init
<1>2. CASE desk = "crc"
  BY <1>1, <1>2, CrcInit DEF Init, DesksInv
<1>3. CASE desk = "operations"
  BY <1>1, <1>3, CaseInit DEF Init, DesksInv
<1>4. CASE desk = "governance"
  BY <1>1, <1>4, ChangeInit DEF Init, DesksInv
<1>5. CASE desk = "pipeline"
  BY <1>1, <1>5, DealInit DEF Init, DesksInv
<1> QED
  BY <1>1, <1>2, <1>3, <1>4, <1>5 DEF DeskNames

LEMMA DesksStay ==
    ASSUME DesksInv, UNCHANGED vars
    PROVE  DesksInv'
<1>1. /\ desk' = desk /\ rows' = rows /\ records' = records /\ pending' = pending
      /\ commits' = commits /\ weights' = weights /\ edited' = edited
  BY DEF vars, deskVars, profile
<1>2. CrcInv => CrcInv'
  BY <1>1 DEF CrcInv, Crc!TypeOK, CrcPendingOK
<1>3. CaseInv => CaseInv'
  BY <1>1 DEF CaseInv, Operations!TypeOK, CasePendingOK
<1>4. ChangeInv => ChangeInv'
  BY <1>1 DEF ChangeInv, ChangeRowsInv, ChangePendingOK, ProfileOK,
              Governance!ChangedByApproval
<1>5. DealInv => DealInv'
  BY <1>1 DEF DealInv, Pipeline!TypeOK, DealPendingOK
<1> QED
  BY <1>1, <1>2, <1>3, <1>4, <1>5 DEF DesksInv

LEMMA DesksStep ==
    ASSUME DesksInv, Next
    PROVE  DesksInv'
<1>1. desk' = desk
  BY DEF Next
<1>2. CASE desk = "crc" /\ CrcStep
  BY <1>1, <1>2, CrcStepKeeps DEF CrcStep, DesksInv
<1>3. CASE desk = "operations" /\ OperationsStep
  BY <1>1, <1>3, CaseStepKeeps DEF OperationsStep, DesksInv
<1>4. CASE desk = "pipeline" /\ PipelineStep
  BY <1>1, <1>4, DealStepKeeps DEF PipelineStep, DesksInv
<1>5. CASE desk = "governance" /\ GovernanceStep
  BY <1>1, <1>5, ChangeStepKeeps, ChangeOtherKeeps DEF GovernanceStep, DesksInv
<1> QED
  BY <1>2, <1>3, <1>4, <1>5 DEF Next

LEMMA DesksInvariant == Spec => []DesksInv
<1>1. DesksInv /\ [Next]_vars => DesksInv'
  BY DesksStay, DesksStep
<1> QED
  BY DesksInit, <1>1, PTL DEF Spec

\* Type correctness: whatever overlaps, a row holds what its columns allow; the
\* ORM's merge of a stale entity with the row never mixes up a value.
THEOREM TypeCorrect == Spec => []TypeOK
<1>1. DesksInv => TypeOK
  BY ChangeTypes DEF DesksInv, TypeOK, CrcInv, CaseInv, DealInv
<1> QED
  BY <1>1, DesksInvariant, PTL

\* Whatever overlaps, a published model was published by another than its maker
\* and checked by another than its maker, and a weight in force that is not the
\* one set up was proposed by one person and approved by another: publishModel
\* and approve compare with a column that no save ever changes.
THEOREM SignedOff == Spec => []SignedByOthers
<1>1. DesksInv => SignedByOthers
  BY CrcSigned DEF DesksInv, SignedByOthers, ChangeInv
<1> QED
  BY <1>1, DesksInvariant, PTL

\* Whatever overlaps, an executed case has its contract and has stopped its
\* clock, a promoted lead has its clock requested, and a deal's stage is in its
\* history: the record is written in the transaction of the status.
THEOREM OutcomesRecorded == Spec => []OutcomeIsRecorded
<1>1. DesksInv => OutcomeIsRecorded
  BY CaseBacked, DealBacked DEF DesksInv, OutcomeIsRecorded
<1> QED
  BY <1>1, DesksInvariant, PTL
-----------------------------------------------------------------------------
(* One request at a time.  When no other request is in flight, the row a   *)
(* handler has read is the row its transaction finds; so it is enough to   *)
(* require of a transaction that the row it will leave is in order and is  *)
(* a step the promise allows.                                              *)

\* The row that transaction p leaves, if nothing comes between.
Left(p, replaced) ==
    CASE p.op = "insert" -> p.entity
      [] p.op = "save"   ->
           Merge(rows[p.id], p.entity, Changed(rows[p.id], p.entity, replaced))
      [] OTHER           -> Merge(rows[p.id], p.entity, p.changed)

\* A file becomes what MakerChecker lets it become.
Promised(f, g) ==
    \/ g = f
    \/ \E p \in Persons, c \in Structures \cup Organisations :
         /\ f = Chain!Unopened
         /\ g = [stage |-> "open", content |-> c, maker |-> p, checker |-> NONE]
    \/ \E c \in Structures \cup Organisations :
         /\ f.stage = "open"
         /\ g = [stage |-> "open", content |-> c, maker |-> f.maker, checker |-> NONE]
    \/ /\ f.stage = "open"
       /\ g = [stage |-> "submitted", content |-> f.content, maker |-> f.maker,
               checker |-> NONE]
    \/ \E p \in Persons \ {f.maker} :
         /\ f.stage = "submitted"
         /\ g = [stage |-> "checked", content |-> f.content, maker |-> f.maker,
                 checker |-> p]
    \/ /\ f.stage \in {"submitted", "checked"}
       /\ g = [stage |-> "open", content |-> f.content, maker |-> f.maker,
               checker |-> NONE]
    \/ \E p \in Persons \ {f.maker, f.checker} :
         /\ f.stage = "checked"
         /\ g = [stage |-> "approved", content |-> f.content, maker |-> f.maker,
                 checker |-> f.checker]

LEMMA SaveLeaves ==
    ASSUME NEW row, NEW entity, NEW replaced, NEW c \in DOMAIN row
    PROVE  Merge(row, entity, Changed(row, entity, replaced))[c]
             = IF entity[c] = UNDEFINED THEN row[c] ELSE entity[c]
BY DEF Merge, Changed
-----------------------------------------------------------------------------
(* Risk models, one request at a time. *)

CrcFile(row) ==
    [stage   |-> Crc!Stage(row.status), content |-> row.structure, maker |-> row.maker,
     checker |-> IF row.status \in {"CHECKED", "PUBLISHED", "ARCHIVED"}
                 THEN row.checker ELSE NONE]

\* The signatures in R of the structure of a model that maker made.
CrcVerified(R, structure, others) ==
    \E y \in R : y.kind = "MODEL_CHECKED" /\ y.structure = structure /\ y.person \notin others
CrcReleased(R, structure) == \E x \in R : x.kind = "MODEL_PUBLISHED" /\ x.structure = structure

CrcSignatures(R, maker) ==
    /\ \A x \in R : x.kind = "MODEL_PUBLISHED" =>
         CrcVerified(R, x.structure, {x.person, maker})
    /\ \A a \in R : a.kind = "ASSESSED" =>
         /\ a.structure \in Valid
         /\ CrcVerified(R, a.structure, {maker}) /\ CrcReleased(R, a.structure)

CrcBacked(row, R) ==
    /\ row.status = "ABSENT" => row = Crc!AbsentRow
    /\ row.status \notin {"ABSENT", "DRAFT"} => row.structure \in Valid
    /\ row.status \in {"CHECKED", "PUBLISHED", "ARCHIVED"} =>
         \E y \in R : /\ y.kind = "MODEL_CHECKED" /\ y.structure = row.structure
                      /\ y.person = row.checker /\ y.person # row.maker
    /\ row.status \in {"PUBLISHED", "ARCHIVED"} => CrcReleased(R, row.structure)
    /\ CrcSignatures(R, row.maker)

CrcProposes(p) ==
    LET row == Left(p, {"structure"}) IN
    /\ p.op = "insert" => /\ CrcBacked(row, {})
                          /\ Promised(Chain!Unopened, CrcFile(row))
    /\ p.op \in {"save", "write"} =>
         /\ CrcBacked(row, records[p.id] \cup p.recs)
         /\ Promised(CrcFile(rows[p.id]), CrcFile(row))

CrcAlone ==
    /\ \A m \in IdsOf["crc"] : CrcBacked(rows[m], records[m])
    /\ \A r \in Requests : CrcProposes(pending[r])

LEMMA CrcSaveLeaves ==
    ASSUME NEW m \in IdsOf["crc"], rows[m] \in Crc!Row, NEW entity \in Crc!Entity, NEW p,
           p.op = "save", p.id = m, p.entity = entity
    PROVE  LET row == Left(p, {"structure"}) IN
           /\ row.status = entity.status /\ row.maker = entity.maker
           /\ row.checker = IF entity.checker = UNDEFINED THEN rows[m].checker
                            ELSE entity.checker
           /\ row.structure = IF entity.structure = UNDEFINED THEN rows[m].structure
                              ELSE entity.structure
<1>1. DOMAIN rows[m] = Crc!Columns
  BY DEF Crc!Row, Crc!Columns
<1>2. \A c \in Crc!Columns : Left(p, {"structure"})[c] =
        IF entity[c] = UNDEFINED THEN rows[m][c] ELSE entity[c]
  BY <1>1, SaveLeaves DEF Left
<1>3. entity.status # UNDEFINED /\ entity.maker # UNDEFINED
  BY StatusAssumption, DeskAssumption, DesksAssumption DEF Crc!Entity, DeskNames
<1> QED
  BY <1>2, <1>3 DEF Crc!Columns

\* A step that changes no row.
LEMMA CrcAloneQuiet ==
    ASSUME CrcInv, CrcAlone, NEW r \in Requests, NEW q, CrcProposes(q),
           pending' = [pending EXCEPT ![r] = q], rows' = rows, records' = records
    PROVE  CrcAlone'
<1>1. ASSUME NEW x \in Requests
      PROVE  CrcProposes(pending[x])'
  <2>1. CrcProposes(pending'[x])
    BY DEF CrcAlone, CrcInv, Crc!TypeOK
  <2> QED
    BY <2>1 DEF CrcProposes, Left
<1> QED
  BY <1>1 DEF CrcAlone

LEMMA CrcIdleProposes == CrcProposes(Crc!Idle)
BY DEF CrcProposes, Crc!Idle

LEMMA CrcCompareAlone ==
    ASSUME CrcInv, CrcAlone, NEW r \in Requests, Crc!Compare(r, {"structure"})
    PROVE  CrcAlone'
<1> DEFINE p == pending[r]
           q == [op |-> "write", id |-> p.id, entity |-> p.entity,
                 changed |-> Crc!Changed(rows[p.id], p.entity, {"structure"}),
                 recs |-> p.recs]
<1>1. /\ pending' = [pending EXCEPT ![r] = q]
      /\ rows' = rows /\ records' = records /\ p.op = "save"
  BY DEF Crc!Compare
<1>2. Left(q, {"structure"}) = Left(p, {"structure"})
  BY <1>1 DEF Left, Crc!Changed, Changed
<1>3. q.op = "write" /\ q.id = p.id /\ q.recs = p.recs
  OBVIOUS
<1>4. CrcProposes(p)
  BY DEF CrcAlone
<1> HIDE DEF p, q
<1>5. CrcProposes(q)
  BY <1>1, <1>2, <1>3, <1>4 DEF CrcProposes
<1> QED
  BY <1>1, <1>5, CrcAloneQuiet

\* A transaction leaves a row in order, by a step the promise allows.
CrcMoves ==
    \/ rows' = rows
    \/ \E m \in IdsOf["crc"] : \E row \in Crc!Row :
         rows' = [rows EXCEPT ![m] = row] /\ Promised(CrcFile(rows[m]), CrcFile(row))

LEMMA CrcCommitAlone ==
    ASSUME CrcInv, CrcAlone, CrcInv', NEW r \in Requests, Crc!Commit(r),
           \A q \in Requests \ {r} : pending[q] = Crc!Idle
    PROVE  CrcAlone' /\ CrcMoves
<1>1. PICK m \in IdsOf["crc"] : Crc!CommitRow(r, m)
  BY DEF Crc!Commit
<1> DEFINE p == pending[r]
           row == Left(p, {"structure"})
<1>2. CrcProposes(p) /\ CrcPendingOK(p) /\ CrcBacked(rows[m], records[m])
  BY DEF CrcAlone, CrcInv
<1>3. /\ rows \in [IdsOf["crc"] -> Crc!Row] /\ rows' \in [IdsOf["crc"] -> Crc!Row]
      /\ records \in [IdsOf["crc"] -> SUBSET Crc!Record]
      /\ pending \in [Requests -> CrcPending]
  BY DEF CrcInv, Crc!TypeOK, CrcPending
<1>4. /\ rows' = [rows EXCEPT ![m] = row]
      /\ CrcBacked(row, records[m] \cup p.recs)
      /\ Promised(CrcFile(rows[m]), CrcFile(row))
  <2>1. CASE p.op = "insert"
    <3>1. rows[m].status = "ABSENT" /\ row = p.entity /\ p.recs = {}
          /\ rows' = [rows EXCEPT ![m] = row]
      BY <1>1, <1>2, <2>1 DEF Crc!CommitRow, Crc!NextId, Crc!Written, Left, CrcPendingOK
    <3>2. records[m] = {} /\ CrcFile(rows[m]) = Chain!Unopened
      BY <1>2, <3>1 DEF CrcInv, CrcRowOK, CrcBacked, CrcFile, Crc!Stage, Crc!AbsentRow,
                        Chain!Unopened
    <3>3. CrcBacked(row, {}) /\ Promised(Chain!Unopened, CrcFile(row))
      BY <1>2, <2>1 DEF CrcProposes
    <3>4. records[m] \cup p.recs = {}
      BY <3>1, <3>2
    <3> QED
      BY <3>1, <3>2, <3>3, <3>4
  <2>2. CASE p.op = "write"
    <3>1. m = p.id /\ rows' = [rows EXCEPT ![m] = row]
      BY <1>1, <2>2 DEF Crc!CommitRow, Crc!Written, Left, Crc!Merge, Merge
    <3> QED
      BY <1>2, <2>2, <3>1 DEF CrcProposes
  <2> QED
    BY <1>1, <2>1, <2>2 DEF Crc!CommitRow
<1>5. row \in Crc!Row
  BY <1>3, <1>4
<1>6. /\ records' = [records EXCEPT ![m] = records[m] \cup p.recs]
      /\ pending' = [pending EXCEPT ![r] = Crc!Idle]
  BY <1>1 DEF Crc!CommitRow
<1> HIDE DEF p, row
<1>7. \A x \in IdsOf["crc"] : CrcBacked(rows'[x], records'[x])
  <2> TAKE x \in IdsOf["crc"]
  <2>1. CASE x = m
    BY <1>3, <1>4, <1>6, <2>1
  <2>2. CASE x # m
    BY <1>3, <1>4, <1>6, <2>2 DEF CrcAlone
  <2> QED
    BY <2>1, <2>2
<1>8. ASSUME NEW x \in Requests PROVE CrcProposes(pending[x])'
  <2>1. pending'[x] = Crc!Idle
    BY <1>3, <1>6
  <2> QED
    BY <2>1 DEF CrcProposes, Crc!Idle
<1> QED
  BY <1>4, <1>5, <1>7, <1>8 DEF CrcAlone, CrcMoves
\* Row is what saving the entity leaves of model m.
CrcLeaves(row, m, entity) ==
    /\ row.status = entity.status /\ row.maker = entity.maker
    /\ row.checker = IF entity.checker = UNDEFINED THEN rows[m].checker
                     ELSE entity.checker
    /\ row.structure = IF entity.structure = UNDEFINED THEN rows[m].structure
                       ELSE entity.structure

CrcBegun(r, q) == CrcInv /\ CrcAlone /\ r \in Requests /\ Crc!Begin(r, q)

LEMMA CrcBeginAlone ==
    ASSUME NEW r, NEW q, CrcBegun(r, q), CrcProposes(q)
    PROVE  CrcAlone' /\ CrcMoves
BY CrcAloneQuiet DEF CrcBegun, Crc!Begin, CrcMoves

LEMMA CrcSaveAlone ==
    ASSUME NEW r, NEW m \in IdsOf["crc"], NEW entity \in Crc!Entity, NEW recs,
           CrcBegun(r, Crc!Saving(m, entity, recs)),
           \A row : CrcLeaves(row, m, entity) =>
             /\ CrcBacked(row, records[m] \cup recs)
             /\ Promised(CrcFile(rows[m]), CrcFile(row))
    PROVE  CrcAlone' /\ CrcMoves
<1> DEFINE q == Crc!Saving(m, entity, recs)
<1>1. rows[m] \in Crc!Row
  BY DEF CrcBegun, CrcInv, Crc!TypeOK
<1>2. q.op = "save" /\ q.id = m /\ q.entity = entity /\ q.recs = recs
  BY DEF Crc!Saving
<1>3. CrcBegun(r, q)
  OBVIOUS
<1> HIDE DEF q
<1>4. CrcLeaves(Left(q, {"structure"}), m, entity)
  BY <1>1, <1>2, CrcSaveLeaves DEF CrcLeaves
<1>5. CrcProposes(q)
  BY <1>2, <1>4 DEF CrcProposes
<1> QED
  BY <1>3, <1>5, CrcBeginAlone

LEMMA CrcCreateAlone ==
    ASSUME CrcInv, CrcAlone, NEW r \in Requests, NEW p \in PersonsOf["crc"],
           NEW s \in Structures, Crc!CreateModel(r, p, s)
    PROVE  CrcAlone' /\ CrcMoves
<1> DEFINE row == [status |-> "DRAFT", maker |-> p, checker |-> NONE,
                   publisher |-> NONE, structure |-> s]
           q   == [op |-> "insert", entity |-> row, recs |-> {}]
<1>1. CrcBegun(r, q)
  BY DEF Crc!CreateModel, Crc!Inserting, CrcBegun
<1>2. CrcBacked(row, {})
  BY DEF CrcBacked, CrcSignatures
<1>3. CrcFile(row) = [stage |-> "open", content |-> s, maker |-> p, checker |-> NONE]
  BY DEF CrcFile, Crc!Stage
<1>4. p \in Persons
  BY DesksAssumption DEF DeskNames
<1>5. Promised(Chain!Unopened, CrcFile(row))
  BY <1>3, <1>4 DEF Promised
<1>6. q.op = "insert" /\ Left(q, {"structure"}) = row
  BY DEF Left
<1> HIDE DEF q, row
<1>7. CrcProposes(q)
  BY <1>2, <1>5, <1>6 DEF CrcProposes
<1> QED
  BY <1>1, <1>7, CrcBeginAlone

LEMMA CrcUpdateAlone ==
    ASSUME CrcInv, CrcAlone, NEW r \in Requests, NEW m \in IdsOf["crc"],
           NEW s \in Structures \cup {UNDEFINED}, Crc!UpdateModel(r, m, s)
    PROVE  CrcAlone' /\ CrcMoves
<1> DEFINE entity == [Crc!Loaded(m) EXCEPT !.structure = s]
<1>1. rows[m] \in Crc!Row /\ rows[m].status = "DRAFT" /\ CrcBacked(rows[m], records[m])
  BY DEF CrcInv, CrcAlone, Crc!TypeOK, Crc!UpdateModel
<1>2. /\ entity \in Crc!Entity /\ entity.status = "DRAFT"
      /\ entity.maker = rows[m].maker /\ entity.checker = rows[m].checker
      /\ entity.structure = s
  BY <1>1 DEF Crc!Loaded, Crc!Row, Crc!Entity
<1>3. CrcBegun(r, Crc!Saving(m, entity, {}))
  BY DEF Crc!UpdateModel, CrcBegun
<1> HIDE DEF entity
<1>4. ASSUME NEW row, CrcLeaves(row, m, entity)
      PROVE  /\ CrcBacked(row, records[m] \cup {})
             /\ Promised(CrcFile(rows[m]), CrcFile(row))
  <2>1. /\ row.status = "DRAFT" /\ row.maker = rows[m].maker
        /\ row.structure = rows[m].structure \/ row.structure \in Structures
    BY <1>2, <1>4 DEF CrcLeaves
  <2>2. CrcBacked(row, records[m] \cup {})
    BY <1>1, <2>1 DEF CrcBacked
  <2>3. /\ CrcFile(rows[m]) = [stage |-> "open", content |-> rows[m].structure,
                               maker |-> rows[m].maker, checker |-> NONE]
        /\ CrcFile(row) = [stage |-> "open", content |-> row.structure,
                           maker |-> rows[m].maker, checker |-> NONE]
    BY <1>1, <2>1 DEF CrcFile, Crc!Stage
  <2> QED
    BY <2>1, <2>2, <2>3 DEF Promised
<1> QED
  BY <1>2, <1>3, <1>4, CrcSaveAlone

LEMMA CrcSubmitAlone ==
    ASSUME CrcInv, CrcAlone, NEW r \in Requests, NEW m \in IdsOf["crc"], Crc!Submit(r, m)
    PROVE  CrcAlone' /\ CrcMoves
<1> DEFINE entity == [Crc!Loaded(m) EXCEPT !.status = "PENDING_CHECK"]
<1>1. /\ rows[m] \in Crc!Row /\ rows[m].status = "DRAFT" /\ rows[m].structure \in Valid
      /\ CrcBacked(rows[m], records[m])
  BY DEF CrcInv, CrcAlone, Crc!TypeOK, Crc!Submit
<1>2. /\ entity \in Crc!Entity /\ entity.status = "PENDING_CHECK"
      /\ entity.maker = rows[m].maker /\ entity.checker = rows[m].checker
      /\ entity.structure = UNDEFINED
  BY <1>1 DEF Crc!Loaded, Crc!Row, Crc!Entity, Crc!Status
<1>3. CrcBegun(r, Crc!Saving(m, entity, {}))
  BY DEF Crc!Submit, CrcBegun
<1> HIDE DEF entity
<1>4. ASSUME NEW row, CrcLeaves(row, m, entity)
      PROVE  /\ CrcBacked(row, records[m] \cup {})
             /\ Promised(CrcFile(rows[m]), CrcFile(row))
  <2>1. /\ row.status = "PENDING_CHECK" /\ row.maker = rows[m].maker
        /\ row.structure = rows[m].structure
    BY <1>2, <1>4 DEF CrcLeaves
  <2>2. CrcBacked(row, records[m] \cup {})
    BY <1>1, <2>1 DEF CrcBacked
  <2>3. /\ CrcFile(rows[m]) = [stage |-> "open", content |-> rows[m].structure,
                               maker |-> rows[m].maker, checker |-> NONE]
        /\ CrcFile(row) = [stage |-> "submitted", content |-> rows[m].structure,
                           maker |-> rows[m].maker, checker |-> NONE]
    BY <1>1, <2>1 DEF CrcFile, Crc!Stage
  <2> QED
    BY <2>2, <2>3 DEF Promised
<1> QED
  BY <1>2, <1>3, <1>4, CrcSaveAlone

\* A return empties no column, and yet nobody is the checker of what it reopens.
LEMMA CrcReturnAlone ==
    ASSUME CrcInv, CrcAlone, NEW r \in Requests, NEW m \in IdsOf["crc"],
           Crc!ReturnModel(r, m)
    PROVE  CrcAlone' /\ CrcMoves
<1> DEFINE entity == [Crc!Loaded(m) EXCEPT !.status = "DRAFT", !.checker = UNDEFINED]
<1>1. /\ rows[m] \in Crc!Row /\ rows[m].status \in {"PENDING_CHECK", "CHECKED"}
      /\ CrcBacked(rows[m], records[m])
  BY DEF CrcInv, CrcAlone, Crc!TypeOK, Crc!ReturnModel
<1>2. /\ entity \in Crc!Entity /\ entity.status = "DRAFT"
      /\ entity.maker = rows[m].maker /\ entity.structure = UNDEFINED
  BY <1>1 DEF Crc!Loaded, Crc!Row, Crc!Entity, Crc!Status
<1>3. CrcBegun(r, Crc!Saving(m, entity, {}))
  BY DEF Crc!ReturnModel, CrcBegun
<1> HIDE DEF entity
<1>4. ASSUME NEW row, CrcLeaves(row, m, entity)
      PROVE  /\ CrcBacked(row, records[m] \cup {})
             /\ Promised(CrcFile(rows[m]), CrcFile(row))
  <2>1. /\ row.status = "DRAFT" /\ row.maker = rows[m].maker
        /\ row.structure = rows[m].structure
    BY <1>2, <1>4 DEF CrcLeaves
  <2>2. CrcBacked(row, records[m] \cup {})
    BY <1>1, <2>1 DEF CrcBacked
  <2> DEFINE f == CrcFile(rows[m])
  <2>3. /\ f.stage \in {"submitted", "checked"} /\ f.content = rows[m].structure
        /\ f.maker = rows[m].maker
        /\ CrcFile(row) = [stage |-> "open", content |-> rows[m].structure,
                           maker |-> rows[m].maker, checker |-> NONE]
    BY <1>1, <2>1 DEF CrcFile, Crc!Stage
  <2> HIDE DEF f
  <2>4. Promised(f, CrcFile(row))
    BY <2>3 DEF Promised
  <2> QED
    BY <2>2, <2>4 DEF f
<1> QED
  BY <1>2, <1>3, <1>4, CrcSaveAlone

LEMMA CrcArchiveAlone ==
    ASSUME CrcInv, CrcAlone, NEW r \in Requests, NEW m \in IdsOf["crc"], Crc!Archive(r, m)
    PROVE  CrcAlone' /\ CrcMoves
<1> DEFINE entity == [Crc!Loaded(m) EXCEPT !.status = "ARCHIVED"]
<1>1. /\ rows[m] \in Crc!Row /\ rows[m].status = "PUBLISHED"
      /\ CrcBacked(rows[m], records[m])
  BY DEF CrcInv, CrcAlone, Crc!TypeOK, Crc!Archive
<1>2. /\ entity \in Crc!Entity /\ entity.status = "ARCHIVED"
      /\ entity.maker = rows[m].maker /\ entity.checker = rows[m].checker
      /\ entity.structure = UNDEFINED
  BY <1>1 DEF Crc!Loaded, Crc!Row, Crc!Entity, Crc!Status
<1>3. CrcBegun(r, Crc!Saving(m, entity, {}))
  BY DEF Crc!Archive, CrcBegun
<1> HIDE DEF entity
<1>4. ASSUME NEW row, CrcLeaves(row, m, entity)
      PROVE  /\ CrcBacked(row, records[m] \cup {})
             /\ Promised(CrcFile(rows[m]), CrcFile(row))
  <2>1. /\ row.status = "ARCHIVED" /\ row.maker = rows[m].maker
        /\ row.structure = rows[m].structure /\ row.checker = rows[m].checker
    BY <1>2, <1>4 DEF CrcLeaves
  <2>2. CrcBacked(row, records[m] \cup {})
    BY <1>1, <2>1 DEF CrcBacked
  <2>3. CrcFile(rows[m]) = CrcFile(row)
    BY <1>1, <2>1 DEF CrcFile, Crc!Stage
  <2> QED
    BY <2>2, <2>3 DEF Promised
<1> QED
  BY <1>2, <1>3, <1>4, CrcSaveAlone
LEMMA CrcSignaturesGrow ==
    ASSUME NEW R, NEW recs, NEW maker, CrcSignatures(R, maker),
           \A x \in recs : x.kind = "MODEL_PUBLISHED" =>
             CrcVerified(R \cup recs, x.structure, {x.person, maker}),
           \A a \in recs : a.kind = "ASSESSED" =>
             /\ a.structure \in Valid
             /\ CrcVerified(R \cup recs, a.structure, {maker})
             /\ CrcReleased(R \cup recs, a.structure)
    PROVE  CrcSignatures(R \cup recs, maker)
<1>1. \A s, others : CrcVerified(R, s, others) => CrcVerified(R \cup recs, s, others)
  BY DEF CrcVerified
<1>2. \A s : CrcReleased(R, s) => CrcReleased(R \cup recs, s)
  BY DEF CrcReleased
<1> QED
  BY <1>1, <1>2 DEF CrcSignatures

\* What is recorded of a model bears its structure.
LEMMA CrcRecordedAlone ==
    ASSUME NEW kind, NEW p, NEW m
    PROVE  /\ \A x \in Crc!Recorded(kind, p, m) :
                x.kind = kind /\ x.person = p /\ x.structure = rows[m].structure
           /\ \E x \in Crc!Recorded(kind, p, m) :
                x.kind = kind /\ x.person = p /\ x.structure = rows[m].structure
BY DEF Crc!Recorded

LEMMA CrcCheckAlone ==
    ASSUME CrcInv, CrcAlone, NEW r \in Requests, NEW m \in IdsOf["crc"],
           NEW p \in PersonsOf["crc"], Crc!CheckModel(r, m, p)
    PROVE  CrcAlone' /\ CrcMoves
<1> DEFINE entity == [Crc!Loaded(m) EXCEPT !.status = "CHECKED", !.checker = p]
           recs   == Crc!Recorded("MODEL_CHECKED", p, m)
<1>1. /\ rows[m] \in Crc!Row /\ rows[m].status = "PENDING_CHECK" /\ rows[m].maker # p
      /\ CrcBacked(rows[m], records[m])
  BY DEF CrcInv, CrcAlone, Crc!TypeOK, Crc!CheckModel
<1>2. /\ entity \in Crc!Entity /\ entity.status = "CHECKED"
      /\ entity.maker = rows[m].maker /\ entity.checker = p
      /\ entity.structure = UNDEFINED
  BY <1>1 DEF Crc!Loaded, Crc!Row, Crc!Entity, Crc!Status
<1>3. CrcBegun(r, Crc!Saving(m, entity, recs))
  BY DEF Crc!CheckModel, CrcBegun
<1>4. p \in Persons /\ p # UNDEFINED
  BY DesksAssumption, DeskAssumption DEF DeskNames
<1>5. /\ \A x \in recs : x.kind = "MODEL_CHECKED"
      /\ \E x \in recs : x.kind = "MODEL_CHECKED" /\ x.person = p
                         /\ x.structure = rows[m].structure
  BY CrcRecordedAlone
<1> HIDE DEF entity, recs
<1>6. CrcSignatures(records[m] \cup recs, rows[m].maker)
  BY <1>1, <1>5, CrcSignaturesGrow DEF CrcBacked
<1>7. ASSUME NEW row, CrcLeaves(row, m, entity)
      PROVE  /\ CrcBacked(row, records[m] \cup recs)
             /\ Promised(CrcFile(rows[m]), CrcFile(row))
  <2>1. /\ row.status = "CHECKED" /\ row.maker = rows[m].maker
        /\ row.structure = rows[m].structure /\ row.checker = p
    BY <1>2, <1>4, <1>7 DEF CrcLeaves
  <2>2. CrcBacked(row, records[m] \cup recs)
    BY <1>1, <1>5, <1>6, <2>1 DEF CrcBacked
  <2>3. /\ CrcFile(rows[m]) = [stage |-> "submitted", content |-> rows[m].structure,
                               maker |-> rows[m].maker, checker |-> NONE]
        /\ CrcFile(row) = [stage |-> "checked", content |-> rows[m].structure,
                           maker |-> rows[m].maker, checker |-> p]
    BY <1>1, <2>1 DEF CrcFile, Crc!Stage
  <2> QED
    BY <1>1, <1>4, <2>2, <2>3 DEF Promised
<1> QED
  BY <1>2, <1>3, <1>7, CrcSaveAlone

\* The signature of the check that the row's status rests on is by neither the
\* maker nor the publisher, and is for the structure that is published.
LEMMA CrcPublishAlone ==
    ASSUME CrcInv, CrcAlone, NEW r \in Requests, NEW m \in IdsOf["crc"],
           NEW p \in PersonsOf["crc"], Crc!Publish(r, m, p)
    PROVE  CrcAlone' /\ CrcMoves
<1> DEFINE entity == [Crc!Loaded(m) EXCEPT !.status = "PUBLISHED", !.publisher = p]
           recs   == Crc!Recorded("MODEL_PUBLISHED", p, m)
<1>1. /\ rows[m] \in Crc!Row /\ rows[m].status = "CHECKED"
      /\ rows[m].maker # p /\ rows[m].checker # p
      /\ CrcBacked(rows[m], records[m])
  BY DEF CrcInv, CrcAlone, Crc!TypeOK, Crc!Publish
<1>2. /\ entity \in Crc!Entity /\ entity.status = "PUBLISHED"
      /\ entity.maker = rows[m].maker /\ entity.checker = rows[m].checker
      /\ entity.structure = UNDEFINED
  BY <1>1 DEF Crc!Loaded, Crc!Row, Crc!Entity, Crc!Status
<1>3. CrcBegun(r, Crc!Saving(m, entity, recs))
  BY DEF Crc!Publish, CrcBegun
<1>4. p \in Persons
  BY DesksAssumption DEF DeskNames
<1>5. /\ \A x \in recs : /\ x.kind = "MODEL_PUBLISHED" /\ x.person = p
                         /\ x.structure = rows[m].structure
      /\ \E x \in recs : x.kind = "MODEL_PUBLISHED" /\ x.structure = rows[m].structure
  BY CrcRecordedAlone
<1> HIDE DEF entity, recs
<1>6. CrcVerified(records[m] \cup recs, rows[m].structure, {p, rows[m].maker})
  BY <1>1 DEF CrcBacked, CrcVerified
<1>7. CrcSignatures(records[m] \cup recs, rows[m].maker)
  BY <1>1, <1>5, <1>6, CrcSignaturesGrow DEF CrcBacked
<1>8. ASSUME NEW row, CrcLeaves(row, m, entity)
      PROVE  /\ CrcBacked(row, records[m] \cup recs)
             /\ Promised(CrcFile(rows[m]), CrcFile(row))
  <2>1. /\ row.status = "PUBLISHED" /\ row.maker = rows[m].maker
        /\ row.structure = rows[m].structure /\ row.checker = rows[m].checker
    BY <1>2, <1>8 DEF CrcLeaves
  <2>2. CrcReleased(records[m] \cup recs, row.structure)
    BY <1>5, <2>1 DEF CrcReleased
  <2>3. CrcBacked(row, records[m] \cup recs)
    BY <1>1, <1>7, <2>1, <2>2 DEF CrcBacked
  <2>4. /\ CrcFile(rows[m]) = [stage |-> "checked", content |-> rows[m].structure,
                               maker |-> rows[m].maker, checker |-> rows[m].checker]
        /\ CrcFile(row) = [stage |-> "approved", content |-> rows[m].structure,
                           maker |-> rows[m].maker, checker |-> rows[m].checker]
    BY <1>1, <2>1 DEF CrcFile, Crc!Stage
  <2> QED
    BY <1>1, <1>4, <2>3, <2>4 DEF Promised
<1> QED
  BY <1>2, <1>3, <1>8, CrcSaveAlone

LEMMA CrcAssessAlone ==
    ASSUME CrcInv, CrcAlone, NEW r \in Requests, NEW m \in IdsOf["crc"],
           NEW p \in PersonsOf["crc"], Crc!ConductAssessment(r, m, p)
    PROVE  CrcAlone' /\ CrcMoves
<1> DEFINE recs == Crc!Recorded("ASSESSED", p, m)
           q    == [op |-> "write", id |-> m, entity |-> Crc!Loaded(m), changed |-> {},
                    recs |-> recs]
<1>1. /\ rows[m] \in Crc!Row /\ rows[m].status = "PUBLISHED"
      /\ CrcBacked(rows[m], records[m]) /\ CrcBegun(r, q)
  BY DEF CrcInv, CrcAlone, Crc!TypeOK, Crc!ConductAssessment, CrcBegun
<1>2. \A x \in recs : x.kind = "ASSESSED" /\ x.structure = rows[m].structure
  BY CrcRecordedAlone
<1>3. q.op = "write" /\ q.id = m /\ q.recs = recs /\ Left(q, {"structure"}) = rows[m]
  <2>1. rows[m] = [c \in DOMAIN rows[m] |-> rows[m][c]]
    BY <1>1 DEF Crc!Row
  <2> QED
    BY <2>1 DEF Left, Merge
<1> HIDE DEF q, recs
<1>4. /\ CrcVerified(records[m] \cup recs, rows[m].structure, {rows[m].maker})
      /\ CrcReleased(records[m] \cup recs, rows[m].structure)
  BY <1>1 DEF CrcBacked, CrcVerified, CrcReleased
<1>5. CrcSignatures(records[m] \cup recs, rows[m].maker)
  BY <1>1, <1>2, <1>4, CrcSignaturesGrow DEF CrcBacked
<1>6. CrcBacked(rows[m], records[m] \cup recs)
  BY <1>1, <1>4, <1>5 DEF CrcBacked
<1>7. Promised(CrcFile(rows[m]), CrcFile(rows[m]))
  BY DEF Promised
<1>8. CrcProposes(q)
  BY <1>3, <1>6, <1>7 DEF CrcProposes
<1> QED
  BY <1>1, <1>8, CrcBeginAlone

LEMMA CrcStepAlone ==
    ASSUME CrcInv, CrcAlone, CrcInv', NEW r \in Requests, Crc!Step(r),
           \A q \in Requests \ {r} : pending[q] = Crc!Idle
    PROVE  CrcAlone' /\ CrcMoves
<1>1. CASE Crc!Compare(r, {"structure"})
  BY <1>1, CrcCompareAlone DEF CrcMoves, Crc!Compare
<1>2. CASE Crc!Commit(r)
  BY <1>2, CrcCommitAlone
<1>3. CASE Crc!Abort(r)
  BY <1>3, CrcAloneQuiet, CrcIdleProposes DEF CrcMoves, Crc!Abort
<1>4. ASSUME NEW p \in PersonsOf["crc"], NEW s \in Structures, Crc!CreateModel(r, p, s)
      PROVE  CrcAlone' /\ CrcMoves
  BY <1>4, CrcCreateAlone
<1>5. ASSUME NEW m \in IdsOf["crc"],
             \/ Crc!Submit(r, m) \/ Crc!ReturnModel(r, m) \/ Crc!Archive(r, m)
             \/ \E s \in Structures \cup {UNDEFINED} : Crc!UpdateModel(r, m, s)
      PROVE  CrcAlone' /\ CrcMoves
  BY <1>5, CrcSubmitAlone, CrcReturnAlone, CrcArchiveAlone, CrcUpdateAlone
<1>6. ASSUME NEW m \in IdsOf["crc"], NEW p \in PersonsOf["crc"],
             Crc!CheckModel(r, m, p) \/ Crc!Publish(r, m, p)
               \/ Crc!ConductAssessment(r, m, p)
      PROVE  CrcAlone' /\ CrcMoves
  BY <1>6, CrcCheckAlone, CrcPublishAlone, CrcAssessAlone
<1> QED
  BY <1>1, <1>2, <1>3, <1>4, <1>5, <1>6 DEF Crc!Step

LEMMA CrcAloneInit ==
    ASSUME Crc!Init
    PROVE  CrcAlone
<1>1. /\ rows = [m \in IdsOf["crc"] |-> Crc!AbsentRow]
      /\ records = [m \in IdsOf["crc"] |-> {}]
      /\ pending = [r \in Requests |-> Crc!Idle]
  BY DEF Crc!Init, Crc!DeskInit
<1>2. CrcBacked(Crc!AbsentRow, {})
  BY DEF CrcBacked, CrcSignatures, Crc!AbsentRow
<1> QED
  BY <1>1, <1>2, CrcIdleProposes DEF CrcAlone

LEMMA CrcAloneSigned ==
    CrcAlone => Crc!PublishedByThird /\ Crc!AssessedAsPublished
BY DEF CrcAlone, CrcBacked, CrcSignatures, CrcVerified, CrcReleased, Crc!Published,
       Crc!Verified, Crc!PublishedByThird, Crc!AssessedAsPublished
-----------------------------------------------------------------------------
(* Operations cases, one request at a time. *)

CaseFile(row) ==
    [stage   |-> Operations!Stage(row.status),
     content |-> IF Operations!Stage(row.status) = "unopened" THEN NONE
                 ELSE row.organisation,
     maker   |-> row.operator, checker |-> row.checker]

CaseBackedAlone(row, R) ==
    /\ row.status \in {"ABSENT", "NEW"} => row.operator = NONE
    /\ row.status \in {"ABSENT", "NEW", "IN_PREPARATION", "PENDING_CHECK"} =>
         row.checker = NONE
    /\ row.status # "ABSENT" => row.organisation \in Organisations
    /\ row.status # "EXECUTED" => ~CaseHas(R, "CONTRACT")
    /\ \A x, y \in R : x.kind = "CONTRACT" /\ y.kind = "CONTRACT" => x = y

CaseProposes(p) ==
    LET row == Left(p, {}) IN
    /\ p.op = "insert" => /\ CaseBackedAlone(row, {})
                          /\ Promised(Chain!Unopened, CaseFile(row))
    /\ p.op \in {"save", "write"} =>
         /\ row.status # "ABSENT" /\ CaseBackedAlone(row, records[p.id] \cup p.recs)
         /\ Promised(CaseFile(rows[p.id]), CaseFile(row))

CaseAlone ==
    /\ \A c \in IdsOf["operations"] : CaseBackedAlone(rows[c], records[c])
    /\ \A c \in IdsOf["operations"] : rows[c].status = "ABSENT" => records[c] = {}
    /\ \A r \in Requests : CaseProposes(pending[r])

LEMMA CaseSaveLeaves ==
    ASSUME NEW c \in IdsOf["operations"], rows[c] \in Operations!Row,
           NEW entity \in Operations!Row, NEW p,
           p.op = "save", p.id = c, p.entity = entity
    PROVE  Left(p, {}) = entity
<1>1. DOMAIN rows[c] = Operations!Columns /\ DOMAIN entity = Operations!Columns
  BY DEF Operations!Row, Operations!Columns
<1>2. \A x \in Operations!Columns : entity[x] # UNDEFINED
  BY StatusAssumption, DeskAssumption, DesksAssumption
     DEF Operations!Row, Operations!Columns, DeskNames
<1>3. \A x \in Operations!Columns : Left(p, {})[x] = entity[x]
  BY <1>1, <1>2, SaveLeaves DEF Left
<1>4. Left(p, {}) = [x \in Operations!Columns |-> Left(p, {})[x]]
  BY <1>1 DEF Left, Merge
<1>5. entity = [x \in Operations!Columns |-> entity[x]]
  BY <1>1 DEF Operations!Row
<1> QED
  BY <1>3, <1>4, <1>5

LEMMA CaseAloneQuiet ==
    ASSUME CaseInv, CaseAlone, NEW r \in Requests, NEW q, CaseProposes(q),
           pending' = [pending EXCEPT ![r] = q], rows' = rows, records' = records
    PROVE  CaseAlone'
<1>1. ASSUME NEW x \in Requests
      PROVE  CaseProposes(pending[x])'
  <2>1. CaseProposes(pending'[x])
    BY DEF CaseAlone, CaseInv, Operations!TypeOK
  <2> QED
    BY <2>1 DEF CaseProposes, Left
<1> QED
  BY <1>1 DEF CaseAlone

LEMMA CaseIdleProposes == CaseProposes(Operations!Idle)
BY DEF CaseProposes, Operations!Idle

LEMMA CaseCompareAlone ==
    ASSUME CaseInv, CaseAlone, NEW r \in Requests, Operations!Compare(r, {})
    PROVE  CaseAlone'
<1> DEFINE p == pending[r]
           q == [op |-> "write", id |-> p.id, entity |-> p.entity,
                 changed |-> Operations!Changed(rows[p.id], p.entity, {}),
                 recs |-> p.recs]
<1>1. /\ pending' = [pending EXCEPT ![r] = q]
      /\ rows' = rows /\ records' = records /\ p.op = "save"
  BY DEF Operations!Compare
<1>2. Left(q, {}) = Left(p, {})
  BY <1>1 DEF Left, Operations!Changed, Changed
<1>3. q.op = "write" /\ q.id = p.id /\ q.recs = p.recs
  OBVIOUS
<1>4. CaseProposes(p)
  BY DEF CaseAlone
<1> HIDE DEF p, q
<1>5. CaseProposes(q)
  BY <1>1, <1>2, <1>3, <1>4 DEF CaseProposes
<1> QED
  BY <1>1, <1>5, CaseAloneQuiet

CaseMoves ==
    \/ rows' = rows
    \/ \E c \in IdsOf["operations"] : \E row \in Operations!Row :
         rows' = [rows EXCEPT ![c] = row] /\ Promised(CaseFile(rows[c]), CaseFile(row))

LEMMA CaseCommitAlone ==
    ASSUME CaseInv, CaseAlone, CaseInv', NEW r \in Requests, Operations!Commit(r),
           \A q \in Requests \ {r} : pending[q] = Operations!Idle
    PROVE  CaseAlone' /\ CaseMoves
<1>1. PICK m \in IdsOf["operations"] : Operations!CommitRow(r, m)
  BY DEF Operations!Commit
<1> DEFINE p == pending[r]
           row == Left(p, {})
<1>2. CaseProposes(p) /\ CasePendingOK(p) /\ CaseBackedAlone(rows[m], records[m])
  BY DEF CaseAlone, CaseInv
<1>3. /\ rows \in [IdsOf["operations"] -> Operations!Row]
      /\ rows' \in [IdsOf["operations"] -> Operations!Row]
      /\ records \in [IdsOf["operations"] -> SUBSET Operations!Record]
      /\ pending \in [Requests -> CasePending]
  BY DEF CaseInv, Operations!TypeOK, CasePending
<1>4. /\ rows' = [rows EXCEPT ![m] = row] /\ row.status # "ABSENT"
      /\ CaseBackedAlone(row, records[m] \cup p.recs)
      /\ Promised(CaseFile(rows[m]), CaseFile(row))
  <2>1. CASE p.op = "insert"
    <3>1. /\ rows[m].status = "ABSENT" /\ row = p.entity /\ p.recs = {}
          /\ row.status = "NEW" /\ rows' = [rows EXCEPT ![m] = row]
      BY <1>1, <1>2, <2>1 DEF Operations!CommitRow, Operations!NextId,
                              Operations!Written, Left, CasePendingOK
    <3>2. records[m] = {} /\ CaseFile(rows[m]) = Chain!Unopened
      BY <1>2, <3>1 DEF CaseAlone, CaseBackedAlone, CaseFile, Operations!Stage,
                        Chain!Unopened
    <3>3. CaseBackedAlone(row, {}) /\ Promised(Chain!Unopened, CaseFile(row))
      BY <1>2, <2>1 DEF CaseProposes
    <3>4. records[m] \cup p.recs = {}
      BY <3>1, <3>2
    <3> QED
      BY <3>1, <3>2, <3>3, <3>4
  <2>2. CASE p.op = "write"
    <3>1. m = p.id /\ rows' = [rows EXCEPT ![m] = row]
      BY <1>1, <2>2 DEF Operations!CommitRow, Operations!Written, Left,
                        Operations!Merge, Merge
    <3> QED
      BY <1>2, <2>2, <3>1 DEF CaseProposes
  <2> QED
    BY <1>1, <2>1, <2>2 DEF Operations!CommitRow
<1>5. row \in Operations!Row
  BY <1>3, <1>4
<1>6. /\ records' = [records EXCEPT ![m] = records[m] \cup p.recs]
      /\ pending' = [pending EXCEPT ![r] = Operations!Idle]
  BY <1>1 DEF Operations!CommitRow
<1> HIDE DEF p, row
<1>7. ASSUME NEW x \in IdsOf["operations"]
      PROVE  /\ CaseBackedAlone(rows'[x], records'[x])
             /\ rows'[x].status = "ABSENT" => records'[x] = {}
  <2>1. CASE x = m
    BY <1>3, <1>4, <1>6, <2>1
  <2>2. CASE x # m
    BY <1>3, <1>4, <1>6, <2>2 DEF CaseAlone
  <2> QED
    BY <2>1, <2>2
<1>8. ASSUME NEW x \in Requests PROVE CaseProposes(pending[x])'
  <2>1. pending'[x] = Operations!Idle
    BY <1>3, <1>6
  <2> QED
    BY <2>1 DEF CaseProposes, Operations!Idle
<1> QED
  BY <1>4, <1>5, <1>7, <1>8 DEF CaseAlone, CaseMoves

CaseBegun(r, q) == CaseInv /\ CaseAlone /\ r \in Requests /\ Operations!Begin(r, q)

LEMMA CaseBeginAlone ==
    ASSUME NEW r, NEW q, CaseBegun(r, q), CaseProposes(q)
    PROVE  CaseAlone' /\ CaseMoves
BY CaseAloneQuiet DEF CaseBegun, Operations!Begin, CaseMoves

LEMMA CaseSaveAlone ==
    ASSUME NEW r, NEW c \in IdsOf["operations"], NEW entity \in Operations!Row, NEW recs,
           CaseBegun(r, Operations!Saving(c, entity, recs)),
           entity.status # "ABSENT",
           CaseBackedAlone(entity, records[c] \cup recs),
           Promised(CaseFile(rows[c]), CaseFile(entity))
    PROVE  CaseAlone' /\ CaseMoves
<1> DEFINE q == Operations!Saving(c, entity, recs)
<1>1. rows[c] \in Operations!Row
  BY DEF CaseBegun, CaseInv, Operations!TypeOK
<1>2. q.op = "save" /\ q.id = c /\ q.entity = entity /\ q.recs = recs
  BY DEF Operations!Saving
<1>3. CaseBegun(r, q)
  OBVIOUS
<1> HIDE DEF q
<1>4. Left(q, {}) = entity
  BY <1>1, <1>2, CaseSaveLeaves
<1>5. CaseProposes(q)
  BY <1>2, <1>4 DEF CaseProposes
<1> QED
  BY <1>3, <1>5, CaseBeginAlone

LEMMA CaseCreateAlone ==
    ASSUME CaseInv, CaseAlone, NEW r \in Requests, NEW g \in Organisations,
           Operations!CreateCaseFromOnboarding(r, g)
    PROVE  CaseAlone' /\ CaseMoves
<1> DEFINE row == [Operations!AbsentRow EXCEPT !.status = "NEW", !.organisation = g]
           q   == [op |-> "insert", entity |-> row, recs |-> {}]
<1>1. CaseBegun(r, q)
  BY DEF Operations!CreateCaseFromOnboarding, Operations!Inserting, CaseBegun
<1>2. /\ row.status = "NEW" /\ row.organisation = g
      /\ row.operator = NONE /\ row.checker = NONE
  BY DEF Operations!AbsentRow
<1>3. q.op = "insert" /\ Left(q, {}) = row
  BY DEF Left
<1> HIDE DEF q, row
<1>4. CaseBackedAlone(row, {})
  BY <1>2 DEF CaseBackedAlone, CaseHas
<1>5. CaseFile(row) = Chain!Unopened
  BY <1>2 DEF CaseFile, Operations!Stage, Chain!Unopened
<1>6. CaseProposes(q)
  BY <1>3, <1>4, <1>5 DEF CaseProposes, Promised
<1> QED
  BY <1>1, <1>6, CaseBeginAlone

\* What a handler that reads case c finds.
LEMMA CaseFound ==
    ASSUME CaseInv, CaseAlone, NEW c \in IdsOf["operations"]
    PROVE  /\ rows[c] \in Operations!Row /\ CaseBackedAlone(rows[c], records[c])
           /\ records[c] \cup {} = records[c]
BY DEF CaseInv, CaseAlone, Operations!TypeOK

LEMMA CasePickupAlone ==
    ASSUME CaseInv, CaseAlone, NEW r \in Requests, NEW c \in IdsOf["operations"],
           NEW p \in PersonsOf["operations"], Operations!Pickup(r, c, p)
    PROVE  CaseAlone' /\ CaseMoves
<1> DEFINE entity == [rows[c] EXCEPT !.status = "IN_PREPARATION", !.operator = p]
<1>1. /\ rows[c] \in Operations!Row /\ rows[c].status = "NEW"
      /\ CaseBackedAlone(rows[c], records[c]) /\ records[c] \cup {} = records[c]
  BY CaseFound DEF Operations!Pickup
<1>2. /\ entity \in Operations!Row /\ entity.status = "IN_PREPARATION"
      /\ entity.operator = p /\ entity.checker = rows[c].checker
      /\ entity.organisation = rows[c].organisation
  BY <1>1 DEF Operations!Row, Operations!Status, Operations!Live
<1>3. CaseBegun(r, Operations!Saving(c, entity, {}))
  BY DEF Operations!Pickup, CaseBegun
<1> HIDE DEF entity
<1>4. CaseBackedAlone(entity, records[c] \cup {})
  BY <1>1, <1>2 DEF CaseBackedAlone
<1>5. rows[c].organisation \in Organisations /\ p \in Persons
  BY <1>1, DesksAssumption DEF CaseBackedAlone, DeskNames
<1>6. /\ CaseFile(rows[c]) = Chain!Unopened
      /\ CaseFile(entity) = [stage |-> "open", content |-> rows[c].organisation,
                             maker |-> p, checker |-> NONE]
  BY <1>1, <1>2 DEF CaseBackedAlone, CaseFile, Operations!Stage, Chain!Unopened
<1> QED
  BY <1>2, <1>3, <1>4, <1>5, <1>6, CaseSaveAlone DEF Promised

LEMMA CaseSubmitAlone ==
    ASSUME CaseInv, CaseAlone, NEW r \in Requests, NEW c \in IdsOf["operations"],
           NEW p \in PersonsOf["operations"], Operations!Submit(r, c, p)
    PROVE  CaseAlone' /\ CaseMoves
<1> DEFINE entity == [rows[c] EXCEPT !.status = "PENDING_CHECK"]
<1>1. /\ rows[c] \in Operations!Row /\ rows[c].status = "IN_PREPARATION"
      /\ CaseBackedAlone(rows[c], records[c]) /\ records[c] \cup {} = records[c]
  BY CaseFound DEF Operations!Submit
<1>2. /\ entity \in Operations!Row /\ entity.status = "PENDING_CHECK"
      /\ entity.operator = rows[c].operator /\ entity.checker = rows[c].checker
      /\ entity.organisation = rows[c].organisation
  BY <1>1 DEF Operations!Row, Operations!Status, Operations!Live
<1>3. CaseBegun(r, Operations!Saving(c, entity, {}))
  BY DEF Operations!Submit, CaseBegun
<1> HIDE DEF entity
<1>4. CaseBackedAlone(entity, records[c] \cup {})
  BY <1>1, <1>2 DEF CaseBackedAlone
<1>5. /\ CaseFile(rows[c]) = [stage |-> "open", content |-> rows[c].organisation,
                              maker |-> rows[c].operator, checker |-> NONE]
      /\ CaseFile(entity) = [stage |-> "submitted", content |-> rows[c].organisation,
                             maker |-> rows[c].operator, checker |-> NONE]
  BY <1>1, <1>2 DEF CaseBackedAlone, CaseFile, Operations!Stage
<1> QED
  BY <1>2, <1>3, <1>4, <1>5, CaseSaveAlone DEF Promised

LEMMA CaseCheckAlone ==
    ASSUME CaseInv, CaseAlone, NEW r \in Requests, NEW c \in IdsOf["operations"],
           NEW p \in PersonsOf["operations"], Operations!Check(r, c, p)
    PROVE  CaseAlone' /\ CaseMoves
<1> DEFINE entity == [rows[c] EXCEPT !.status = "CHECKED", !.checker = p]
<1>1. /\ rows[c] \in Operations!Row /\ rows[c].status = "PENDING_CHECK"
      /\ rows[c].operator # p
      /\ CaseBackedAlone(rows[c], records[c]) /\ records[c] \cup {} = records[c]
  BY CaseFound DEF Operations!Check
<1>2. /\ entity \in Operations!Row /\ entity.status = "CHECKED"
      /\ entity.operator = rows[c].operator /\ entity.checker = p
      /\ entity.organisation = rows[c].organisation
  BY <1>1 DEF Operations!Row, Operations!Status, Operations!Live
<1>3. CaseBegun(r, Operations!Saving(c, entity, {}))
  BY DEF Operations!Check, CaseBegun
<1> HIDE DEF entity
<1>4. CaseBackedAlone(entity, records[c] \cup {})
  BY <1>1, <1>2 DEF CaseBackedAlone
<1>5. p \in Persons
  BY DesksAssumption DEF DeskNames
<1>6. /\ CaseFile(rows[c]) = [stage |-> "submitted", content |-> rows[c].organisation,
                              maker |-> rows[c].operator, checker |-> NONE]
      /\ CaseFile(entity) = [stage |-> "checked", content |-> rows[c].organisation,
                             maker |-> rows[c].operator, checker |-> p]
  BY <1>1, <1>2 DEF CaseBackedAlone, CaseFile, Operations!Stage
<1> QED
  BY <1>1, <1>2, <1>3, <1>4, <1>5, <1>6, CaseSaveAlone DEF Promised

LEMMA CaseReturnAlone ==
    ASSUME CaseInv, CaseAlone, NEW r \in Requests, NEW c \in IdsOf["operations"],
           Operations!ReturnToPreparation(r, c)
    PROVE  CaseAlone' /\ CaseMoves
<1> DEFINE entity == [rows[c] EXCEPT !.status = "IN_PREPARATION", !.checker = NONE]
           f == CaseFile(rows[c])
<1>1. /\ rows[c] \in Operations!Row /\ rows[c].status \in {"PENDING_CHECK", "CHECKED"}
      /\ CaseBackedAlone(rows[c], records[c]) /\ records[c] \cup {} = records[c]
  BY CaseFound DEF Operations!ReturnToPreparation
<1>2. /\ entity \in Operations!Row /\ entity.status = "IN_PREPARATION"
      /\ entity.operator = rows[c].operator /\ entity.checker = NONE
      /\ entity.organisation = rows[c].organisation
  BY <1>1 DEF Operations!Row, Operations!Status, Operations!Live
<1>3. CaseBegun(r, Operations!Saving(c, entity, {}))
  BY DEF Operations!ReturnToPreparation, CaseBegun
<1> HIDE DEF entity
<1>4. CaseBackedAlone(entity, records[c] \cup {})
  BY <1>1, <1>2 DEF CaseBackedAlone
<1>5. /\ f.stage \in {"submitted", "checked"} /\ f.content = rows[c].organisation
      /\ f.maker = rows[c].operator
      /\ CaseFile(entity) = [stage |-> "open", content |-> rows[c].organisation,
                             maker |-> rows[c].operator, checker |-> NONE]
  BY <1>1, <1>2 DEF CaseFile, Operations!Stage
<1> HIDE DEF f
<1>6. Promised(f, CaseFile(entity))
  BY <1>5 DEF Promised
<1> QED
  BY <1>2, <1>3, <1>4, <1>6, CaseSaveAlone DEF f

LEMMA CaseApproveAlone ==
    ASSUME CaseInv, CaseAlone, NEW r \in Requests, NEW c \in IdsOf["operations"],
           NEW p \in PersonsOf["operations"], Operations!Approve(r, c, p)
    PROVE  CaseAlone' /\ CaseMoves
<1> DEFINE entity == [rows[c] EXCEPT !.status = "PENDING_SIGNATURE", !.approver = p]
           recs   == Operations!Of("SIGNATURE_START", p)
<1>1. /\ rows[c] \in Operations!Row /\ rows[c].status = "CHECKED"
      /\ p # rows[c].operator /\ p # rows[c].checker
      /\ CaseBackedAlone(rows[c], records[c])
  BY CaseFound DEF Operations!Approve
<1>2. /\ entity \in Operations!Row /\ entity.status = "PENDING_SIGNATURE"
      /\ entity.operator = rows[c].operator /\ entity.checker = rows[c].checker
      /\ entity.organisation = rows[c].organisation
  BY <1>1 DEF Operations!Row, Operations!Status, Operations!Live
<1>3. CaseBegun(r, Operations!Saving(c, entity, recs))
  BY DEF Operations!Approve, CaseBegun
<1>4. \A x \in recs : x.kind # "CONTRACT"
  BY DEF Operations!Of
<1> HIDE DEF entity, recs
<1>5. CaseBackedAlone(entity, records[c] \cup recs)
  BY <1>1, <1>2, <1>4 DEF CaseBackedAlone, CaseHas
<1>6. p \in Persons
  BY DesksAssumption DEF DeskNames
<1>7. /\ CaseFile(rows[c]) = [stage |-> "checked", content |-> rows[c].organisation,
                              maker |-> rows[c].operator, checker |-> rows[c].checker]
      /\ CaseFile(entity) = [stage |-> "approved", content |-> rows[c].organisation,
                             maker |-> rows[c].operator, checker |-> rows[c].checker]
  BY <1>1, <1>2 DEF CaseFile, Operations!Stage
<1> QED
  BY <1>1, <1>2, <1>3, <1>5, <1>6, <1>7, CaseSaveAlone DEF Promised

\* A case that waits for its signature has no contract yet.
LEMMA CaseSignAlone ==
    ASSUME CaseInv, CaseAlone, NEW r \in Requests, NEW g \in Organisations,
           NEW p \in Signatories, Operations!PortalSign(r, g, p)
    PROVE  CaseAlone' /\ CaseMoves
<1> DEFINE recs == Operations!Of("CONTRACT", p) \cup Operations!Of("SIGNATURE_CANCEL", p)
<1>1. PICK c \in IdsOf["operations"] :
        /\ rows[c].status = "PENDING_SIGNATURE"
        /\ CaseBegun(r, Operations!Saving(c, Operations!Signed(c, p), recs))
  BY DEF Operations!PortalSign, CaseBegun
<1> DEFINE entity == Operations!Signed(c, p)
<1>2. rows[c] \in Operations!Row /\ CaseBackedAlone(rows[c], records[c])
  BY CaseFound
<1>3. /\ entity \in Operations!Row /\ entity.status = "EXECUTED"
      /\ entity.operator = rows[c].operator /\ entity.checker = rows[c].checker
      /\ entity.organisation = rows[c].organisation
  BY <1>2 DEF Operations!Signed, Operations!Row, Operations!Status
<1>4. \A x \in recs : x.kind = "CONTRACT" => x = [kind |-> "CONTRACT", person |-> p]
  BY DEF Operations!Of
<1> HIDE DEF entity, recs
<1>5. CaseBackedAlone(entity, records[c] \cup recs)
  BY <1>1, <1>2, <1>3, <1>4 DEF CaseBackedAlone, CaseHas
<1>6. CaseFile(rows[c]) = CaseFile(entity)
  BY <1>1, <1>3 DEF CaseFile, Operations!Stage
<1>7. CaseBegun(r, Operations!Saving(c, entity, recs))
  BY <1>1 DEF entity
<1> QED
  BY <1>3, <1>5, <1>6, <1>7, CaseSaveAlone DEF Promised

LEMMA CaseStepAlone ==
    ASSUME CaseInv, CaseAlone, CaseInv', NEW r \in Requests, Operations!Step(r),
           \A q \in Requests \ {r} : pending[q] = Operations!Idle
    PROVE  CaseAlone' /\ CaseMoves
<1>1. CASE Operations!Compare(r, {})
  BY <1>1, CaseCompareAlone DEF CaseMoves, Operations!Compare
<1>2. CASE Operations!Commit(r)
  BY <1>2, CaseCommitAlone
<1>3. CASE Operations!Abort(r)
  BY <1>3, CaseAloneQuiet, CaseIdleProposes DEF CaseMoves, Operations!Abort
<1>4. ASSUME NEW g \in Organisations,
             \/ Operations!CreateCaseFromOnboarding(r, g)
             \/ \E p \in Signatories : Operations!PortalSign(r, g, p)
      PROVE  CaseAlone' /\ CaseMoves
  BY <1>4, CaseCreateAlone, CaseSignAlone
<1>5. ASSUME NEW c \in IdsOf["operations"],
             \/ Operations!ReturnToPreparation(r, c)
             \/ \E p \in PersonsOf["operations"] :
                  \/ Operations!Pickup(r, c, p) \/ Operations!Submit(r, c, p)
                  \/ Operations!Check(r, c, p) \/ Operations!Approve(r, c, p)
      PROVE  CaseAlone' /\ CaseMoves
  BY <1>5, CaseReturnAlone, CasePickupAlone, CaseSubmitAlone, CaseCheckAlone,
     CaseApproveAlone
<1> QED
  BY <1>1, <1>2, <1>3, <1>4, <1>5 DEF Operations!Step

LEMMA CaseAloneInit ==
    ASSUME Operations!Init
    PROVE  CaseAlone
<1>1. /\ rows = [c \in IdsOf["operations"] |-> Operations!AbsentRow]
      /\ records = [c \in IdsOf["operations"] |-> {}]
      /\ pending = [r \in Requests |-> Operations!Idle]
  BY DEF Operations!Init, Operations!DeskInit
<1>2. CaseBackedAlone(Operations!AbsentRow, {})
  BY DEF CaseBackedAlone, CaseHas, Operations!AbsentRow
<1> QED
  BY <1>1, <1>2, CaseIdleProposes DEF CaseAlone

LEMMA CaseCardinality == ASSUME NEW S PROVE Operations!Cardinality(S) = Cardinality(S)
BY DEF Operations!Cardinality, Cardinality

LEMMA CaseAloneOneContract ==
    ASSUME CaseAlone
    PROVE  Operations!OneContract
<1> SUFFICES ASSUME NEW c \in IdsOf["operations"]
             PROVE  Cardinality(Operations!Recorded(c, "CONTRACT")) <= 1
  BY CaseCardinality DEF Operations!OneContract
<1> DEFINE S == Operations!Recorded(c, "CONTRACT")
<1>1. \A x, y \in S : x = y
  BY DEF CaseAlone, CaseBackedAlone, Operations!Recorded
<1>2. S = {} \/ \E x : S = {x}
  BY <1>1
<1> HIDE DEF S
<1>3. CASE S = {}
  <2>1. Cardinality({}) = 0
    BY FS_EmptySet
  <2>2. Cardinality(S) = Cardinality({})
    BY <1>3, Zenon
  <2> QED
    BY <2>1, <2>2 DEF S
<1>4. CASE \E x : S = {x}
  <2>1. PICK x : S = {x}
    BY <1>4
  <2>2. Cardinality({x}) = 1
    BY FS_Singleton
  <2>3. Cardinality(S) = Cardinality({x})
    BY <2>1, Zenon
  <2> QED
    BY <2>2, <2>3 DEF S
<1> QED
  BY <1>2, <1>3, <1>4 DEF S
-----------------------------------------------------------------------------
(* Governance, one request at a time. *)

AddsUp(proposal) == Governance!Sums(Governance!Applied(proposal, weights)) = Total

ChangeProposes(p) ==
    /\ p.op = "insert" => /\ \A i \in IdsOf["governance"] : rows[i].status # "PENDING"
                          /\ AddsUp(p.entity.proposal)
    /\ p.op \in {"save", "write"} =>
         /\ rows[p.id].status = "PENDING"
         /\ Left(p, {}).status = p.entity.status
         /\ p.entity.status # "PENDING"

ChangeAlone ==
    /\ Governance!WeightsAddUp
    /\ \A i, j \in IdsOf["governance"] :
         rows[i].status = "PENDING" /\ rows[j].status = "PENDING" => i = j
    /\ \A i \in IdsOf["governance"] : rows[i].status = "PENDING" => AddsUp(rows[i].proposal)
    /\ \A r \in Requests : ChangeProposes(pending[r])

LEMMA ChangeFound ==
    ASSUME ChangeInv
    PROVE  /\ rows \in [IdsOf["governance"] -> Governance!Row]
           /\ pending \in [Requests -> ChangePending]
           /\ \A r \in Requests : ChangePendingOK(pending[r])
BY DEF ChangeInv, ChangeRowsInv

LEMMA ChangeIdleProposes == ChangeProposes(Governance!Idle)
BY DEF ChangeProposes, Governance!Idle

LEMMA ChangeAloneQuiet ==
    ASSUME ChangeInv, ChangeAlone, NEW r \in Requests, NEW q, ChangeProposes(q),
           pending' = [pending EXCEPT ![r] = q], rows' = rows, weights' = weights
    PROVE  ChangeAlone'
<1>1. ASSUME NEW x \in Requests
      PROVE  ChangeProposes(pending[x])'
  <2>1. ChangeProposes(pending'[x])
    BY ChangeFound DEF ChangeAlone
  <2> QED
    BY <2>1 DEF ChangeProposes, Left, AddsUp
<1> QED
  BY <1>1 DEF ChangeAlone, AddsUp, Governance!WeightsAddUp

LEMMA ChangeCompareAlone ==
    ASSUME ChangeInv, ChangeAlone, NEW r \in Requests, Governance!Compare(r, {}),
           weights' = weights
    PROVE  ChangeAlone'
<1> DEFINE p == pending[r]
           q == [op |-> "write", id |-> p.id, entity |-> p.entity,
                 changed |-> Governance!Changed(rows[p.id], p.entity, {}),
                 recs |-> p.recs]
<1>1. pending' = [pending EXCEPT ![r] = q] /\ rows' = rows /\ p.op = "save"
  BY DEF Governance!Compare
<1>2. Left(q, {}) = Left(p, {})
  BY <1>1 DEF Left, Governance!Changed, Changed
<1>3. q.op = "write" /\ q.id = p.id /\ q.entity = p.entity
  OBVIOUS
<1>4. ChangeProposes(p)
  BY DEF ChangeAlone
<1> HIDE DEF p, q
<1>5. ChangeProposes(q)
  BY <1>1, <1>2, <1>3, <1>4 DEF ChangeProposes
<1> QED
  BY <1>1, <1>5, ChangeAloneQuiet

LEMMA ChangeCreateAlone ==
    ASSUME ChangeInv, ChangeAlone, NEW r \in Requests, NEW p, NEW proposal,
           Governance!CreateChangeRequest(r, p, proposal)
    PROVE  ChangeAlone'
<1> DEFINE row == [status |-> "PENDING", requester |-> p, decider |-> NONE,
                   proposal |-> proposal]
           q   == Governance!Inserting(row, {})
<1>1. /\ weights' = weights /\ rows' = rows /\ pending' = [pending EXCEPT ![r] = q]
      /\ \A i \in IdsOf["governance"] : rows[i].status # "PENDING"
      /\ AddsUp(proposal)
  BY DEF Governance!CreateChangeRequest, Governance!Begin, AddsUp
<1>2. q.op = "insert" /\ q.entity.proposal = proposal
  BY DEF Governance!Inserting
<1> HIDE DEF q
<1>3. ChangeProposes(q)
  BY <1>1, <1>2 DEF ChangeProposes
<1> QED
  BY <1>1, <1>3, ChangeAloneQuiet

LEMMA ChangeDecideAlone ==
    ASSUME ChangeInv, ChangeAlone, NEW r \in Requests, NEW i \in IdsOf["governance"],
           NEW p, NEW status \in {"APPROVED", "REJECTED"}, NEW recs,
           rows[i].status = "PENDING", weights' = weights,
           Governance!Begin(r, Governance!Saving(i, Governance!Decided(i, status, p), recs))
    PROVE  ChangeAlone'
<1> DEFINE row == Governance!Decided(i, status, p)
           q   == Governance!Saving(i, row, recs)
<1>1. DOMAIN rows[i] = Governance!Columns /\ row.status = status
  BY ChangeFound DEF Governance!Row, Governance!Columns, Governance!Decided
<1>2. rows' = rows /\ pending' = [pending EXCEPT ![r] = q]
  BY DEF Governance!Begin
<1>3. q.op = "save" /\ q.id = i /\ q.entity = row
  BY DEF Governance!Saving
<1> HIDE DEF row, q
<1>4. row.status # UNDEFINED
  BY <1>1, StatusAssumption DEF Governance!Status
<1>5. Left(q, {})["status"] = row["status"]
  BY <1>1, <1>3, <1>4, SaveLeaves DEF Left, Governance!Columns
<1>6. ChangeProposes(q)
  BY <1>1, <1>3, <1>5 DEF ChangeProposes
<1> QED
  BY <1>2, <1>6, ChangeAloneQuiet

\* A commit opens the only request there is, or closes it with what it adds up to.
LEMMA ChangeCommitAlone ==
    ASSUME ChangeInv, ChangeAlone, NEW r \in Requests, Governance!Commit(r),
           \A q \in Requests \ {r} : pending[q] = Governance!Idle
    PROVE  ChangeAlone'
<1>1. PICK i \in IdsOf["governance"] : Governance!CommitRow(r, i)
  BY DEF Governance!Commit
<1> DEFINE p == pending[r]
<1>2. ChangeProposes(p) /\ ChangePendingOK(p)
  BY ChangeFound DEF ChangeAlone
<1>3. /\ pending' = [pending EXCEPT ![r] = Governance!Idle]
      /\ rows' = Governance!Written(r, i)
      /\ weights' = IF p.entity.status = "APPROVED"
                    THEN Governance!Applied(p.entity.proposal, weights) ELSE weights
  BY <1>1 DEF Governance!CommitRow, Governance!Commit
<1>4. ASSUME NEW x \in Requests PROVE ChangeProposes(pending[x])'
  <2>1. pending'[x] = Governance!Idle
    BY <1>3, ChangeFound
  <2> QED
    BY <2>1 DEF ChangeProposes, Governance!Idle
<1>5. CASE p.op = "insert"
  <2>1. /\ rows' = [rows EXCEPT ![i] = p.entity]
        /\ p.entity.status = "PENDING" /\ weights' = weights
        /\ \A x \in IdsOf["governance"] : rows[x].status # "PENDING"
        /\ AddsUp(p.entity.proposal)
    BY <1>2, <1>3, <1>5 DEF Governance!Written, ChangePendingOK, ChangeProposes
  <2>2. \A x \in IdsOf["governance"] :
          /\ rows'[x].status = "PENDING" => x = i
          /\ rows'[x].status = "PENDING" => rows'[x].proposal = p.entity.proposal
    BY <2>1, ChangeFound
  <2> QED
    BY <1>4, <2>1, <2>2 DEF ChangeAlone, AddsUp, Governance!WeightsAddUp
<1>6. CASE p.op = "write"
  <2>1. /\ i = p.id /\ rows[i].status = "PENDING"
        /\ p.entity.status # "PENDING" /\ Left(p, {}).status = p.entity.status
        /\ p.entity.proposal = rows[i].proposal
    BY <1>1, <1>2, <1>6 DEF Governance!CommitRow, ChangePendingOK, ChangeProposes
  <2>2. rows' = [rows EXCEPT ![i] = Left(p, {})]
    BY <1>3, <1>6, <2>1 DEF Governance!Written, Left, Governance!Merge, Merge
  <2>3. \A x \in IdsOf["governance"] : rows'[x].status # "PENDING"
    BY <2>1, <2>2, ChangeFound DEF ChangeAlone
  <2>4. AddsUp(p.entity.proposal) /\ Governance!WeightsAddUp
    BY <2>1 DEF ChangeAlone
  <2>5. Governance!WeightsAddUp'
    BY <1>3, <2>4 DEF AddsUp, Governance!WeightsAddUp
  <2> QED
    BY <1>4, <2>3, <2>5 DEF ChangeAlone
<1> QED
  BY <1>1, <1>5, <1>6 DEF Governance!CommitRow

LEMMA ChangeStepAlone ==
    ASSUME ChangeInv, ChangeAlone, NEW r \in Requests, Governance!Step(r),
           \A q \in Requests \ {r} : pending[q] = Governance!Idle
    PROVE  ChangeAlone'
<1>1. CASE Governance!Compare(r, {}) /\ UNCHANGED <<weights, edited>>
  BY <1>1, ChangeCompareAlone
<1>2. CASE Governance!Commit(r)
  BY <1>2, ChangeCommitAlone
<1>3. CASE Governance!Abort(r) /\ UNCHANGED <<weights, edited>>
  BY <1>3, ChangeAloneQuiet, ChangeIdleProposes DEF Governance!Abort
<1>4. CASE \E p \in PersonsOf["governance"], proposal \in Governance!Proposals :
             Governance!CreateChangeRequest(r, p, proposal)
  BY <1>4, ChangeCreateAlone
<1>5. ASSUME NEW i \in IdsOf["governance"], NEW p \in PersonsOf["governance"],
             Governance!Approve(r, i, p)
      PROVE  ChangeAlone'
  BY <1>5, ChangeDecideAlone DEF Governance!Approve
<1>6. ASSUME NEW i \in IdsOf["governance"], NEW p \in PersonsOf["governance"],
             Governance!Reject(r, i, p)
      PROVE  ChangeAlone'
  BY <1>6, ChangeDecideAlone DEF Governance!Reject
<1> QED
  BY <1>1, <1>2, <1>3, <1>4, <1>5, <1>6 DEF Governance!Step

LEMMA ChangeAloneInit ==
    ASSUME Governance!Init, Governance!Sums(Seed) = Total
    PROVE  ChangeAlone
<1>1. /\ rows = [i \in IdsOf["governance"] |-> Governance!AbsentRow]
      /\ pending = [r \in Requests |-> Governance!Idle] /\ weights = Seed
  BY DEF Governance!Init, Governance!DeskInit
<1>2. Governance!AbsentRow.status = "ABSENT"
  BY DEF Governance!AbsentRow
<1> QED
  BY <1>1, <1>2, ChangeIdleProposes DEF ChangeAlone, Governance!WeightsAddUp

-----------------------------------------------------------------------------
(* The pipeline, one request at a time. *)

DealFinal(row) == row.status = "PROMOTED" \/ row.closed

DealProposes(p) ==
    p.op \in {"save", "write"} =>
      LET row == Left(p, {}) IN
      /\ DealFinal(rows[p.id]) => row.status = rows[p.id].status
      /\ row.closed => row.kind = "deal"

DealAlone ==
    /\ \A i \in IdsOf["pipeline"] : rows[i].closed => rows[i].kind = "deal"
    /\ \A r \in Requests :
         /\ DealProposes(pending[r])
         /\ pending[r].op = "insert" => ~pending[r].entity.closed

LEMMA DealFound ==
    ASSUME DealInv
    PROVE  /\ rows \in [IdsOf["pipeline"] -> Pipeline!Row]
           /\ pending \in [Requests -> DealPending]
           /\ \A i \in IdsOf["pipeline"] : DealRowOK(rows[i], records[i])
BY DEF DealInv, Pipeline!TypeOK, DealPending

DealIdleOrNew(p) == p.op = "insert" => ~p.entity.closed

LEMMA DealAloneQuiet ==
    ASSUME DealInv, DealAlone, NEW r \in Requests, NEW q, DealProposes(q),
           DealIdleOrNew(q), pending' = [pending EXCEPT ![r] = q], rows' = rows
    PROVE  DealAlone' /\ Pipeline!FinalKept
<1>1. ASSUME NEW x \in Requests
      PROVE  DealProposes(pending[x])' /\ DealIdleOrNew(pending'[x])
  <2>1. DealProposes(pending'[x]) /\ DealIdleOrNew(pending'[x])
    BY DealFound DEF DealAlone, DealIdleOrNew
  <2> QED
    BY <2>1 DEF DealProposes, Left
<1> QED
  BY <1>1 DEF DealAlone, DealIdleOrNew, Pipeline!FinalKept

LEMMA DealIdleProposes == DealProposes(Pipeline!Idle) /\ DealIdleOrNew(Pipeline!Idle)
BY DEF DealProposes, DealIdleOrNew, Pipeline!Idle

LEMMA DealCompareAlone ==
    ASSUME DealInv, DealAlone, NEW r \in Requests, Pipeline!Compare(r, {})
    PROVE  DealAlone' /\ Pipeline!FinalKept
<1> DEFINE p == pending[r]
           q == [op |-> "write", id |-> p.id, entity |-> p.entity,
                 changed |-> Pipeline!Changed(rows[p.id], p.entity, {}),
                 recs |-> p.recs]
<1>1. pending' = [pending EXCEPT ![r] = q] /\ rows' = rows /\ p.op = "save"
  BY DEF Pipeline!Compare
<1>2. Left(q, {}) = Left(p, {})
  BY <1>1 DEF Left, Pipeline!Changed, Changed
<1>3. q.op = "write" /\ q.id = p.id
  OBVIOUS
<1>4. DealProposes(p)
  BY DEF DealAlone
<1> HIDE DEF p, q
<1>5. DealProposes(q) /\ DealIdleOrNew(q)
  BY <1>1, <1>2, <1>3, <1>4 DEF DealProposes, DealIdleOrNew
<1> QED
  BY <1>1, <1>5, DealAloneQuiet

LEMMA DealCommitAlone ==
    ASSUME DealInv, DealAlone, NEW r \in Requests, Pipeline!Commit(r),
           \A q \in Requests \ {r} : pending[q] = Pipeline!Idle
    PROVE  DealAlone' /\ Pipeline!FinalKept
<1>1. PICK i \in IdsOf["pipeline"] : Pipeline!CommitRow(r, i)
  BY DEF Pipeline!Commit
<1> DEFINE p == pending[r]
           row == Left(p, {})
<1>2. DealProposes(p) /\ DealIdleOrNew(p)
  BY DEF DealAlone, DealIdleOrNew
<1>3. pending' = [pending EXCEPT ![r] = Pipeline!Idle] /\ rows' = Pipeline!Written(r, i)
  BY <1>1 DEF Pipeline!CommitRow
<1>4. /\ rows' = [rows EXCEPT ![i] = row]
      /\ row.closed => row.kind = "deal"
      /\ DealFinal(rows[i]) => row.status = rows[i].status
  <2>1. CASE p.op = "insert"
    <3>1. rows[i].status = "ABSENT" /\ row = p.entity /\ ~row.closed
      BY <1>1, <1>2, <2>1 DEF Pipeline!CommitRow, Pipeline!NextId, Left, DealIdleOrNew
    <3>2. ~DealFinal(rows[i])
      BY <3>1, DealFound, DesksAssumption DEF DealAlone, DealFinal, DealRowOK
    <3> QED
      BY <1>3, <2>1, <3>1, <3>2 DEF Pipeline!Written
  <2>2. CASE p.op = "write"
    <3>1. i = p.id /\ rows' = [rows EXCEPT ![i] = row]
      BY <1>1, <1>3, <2>2 DEF Pipeline!CommitRow, Pipeline!Written, Left, Pipeline!Merge,
                              Merge
    <3> QED
      BY <1>2, <2>2, <3>1 DEF DealProposes
  <2> QED
    BY <1>1, <2>1, <2>2 DEF Pipeline!CommitRow
<1>5. ASSUME NEW x \in Requests
      PROVE  DealProposes(pending[x])' /\ DealIdleOrNew(pending'[x])
  <2>1. pending'[x] = Pipeline!Idle
    BY <1>3, DealFound
  <2> QED
    BY <2>1 DEF DealProposes, DealIdleOrNew, Pipeline!Idle
<1> HIDE DEF p, row
<1>6. \A x \in IdsOf["pipeline"] :
        /\ rows'[x].closed => rows'[x].kind = "deal"
        /\ DealFinal(rows[x]) => rows'[x].status = rows[x].status
  BY <1>4, DealFound DEF DealAlone
<1> QED
  BY <1>5, <1>6 DEF DealAlone, DealIdleOrNew, DealFinal, Pipeline!FinalKept,
                    Pipeline!Final

\* Saving an entity that keeps the kind, and the status of a final row.
LEMMA DealSaveAlone ==
    ASSUME DealInv, DealAlone, NEW r \in Requests, NEW i \in IdsOf["pipeline"],
           NEW entity \in Pipeline!Row, NEW recs,
           Pipeline!Begin(r, Pipeline!Saving(i, entity, recs)),
           entity.kind = rows[i].kind,
           entity.kind # "deal" => entity.closed = rows[i].closed,
           DealFinal(rows[i]) => entity.status = rows[i].status
    PROVE  DealAlone' /\ Pipeline!FinalKept
<1> DEFINE q == Pipeline!Saving(i, entity, recs)
<1>1. DOMAIN rows[i] = Pipeline!Columns
  BY DealFound DEF Pipeline!Row, Pipeline!Columns
<1>2. rows' = rows /\ pending' = [pending EXCEPT ![r] = q]
  BY DEF Pipeline!Begin
<1>3. q.op = "save" /\ q.id = i /\ q.entity = entity
  BY DEF Pipeline!Saving
<1> HIDE DEF q
<1>4. \A c \in Pipeline!Columns : Left(q, {})[c] =
        IF entity[c] = UNDEFINED THEN rows[i][c] ELSE entity[c]
  BY <1>1, <1>3, SaveLeaves DEF Left
<1>5. DealFinal(rows[i]) => Left(q, {})["status"] = rows[i].status
  BY <1>4 DEF Pipeline!Columns
<1>6. Left(q, {})["kind"] = rows[i].kind
  BY <1>4 DEF Pipeline!Columns
<1>7. rows[i].closed => rows[i].kind = "deal"
  BY DEF DealAlone
<1>8. CASE rows[i].kind = "deal"
  BY <1>2, <1>3, <1>5, <1>6, <1>8, DealAloneQuiet DEF DealProposes, DealIdleOrNew
<1>9. CASE rows[i].kind # "deal"
  <2>1. Left(q, {})["closed"] = rows[i].closed
    BY <1>4, <1>9 DEF Pipeline!Columns
  <2> QED
    BY <1>2, <1>3, <1>5, <1>6, <1>7, <2>1, DealAloneQuiet DEF DealProposes, DealIdleOrNew
<1> QED
  BY <1>8, <1>9

LEMMA DealInsertAlone ==
    ASSUME DealInv, DealAlone, NEW r \in Requests, NEW entity, NEW recs, ~entity.closed,
           Pipeline!Begin(r, Pipeline!Inserting(entity, recs))
    PROVE  DealAlone' /\ Pipeline!FinalKept
<1> DEFINE q == Pipeline!Inserting(entity, recs)
<1>1. rows' = rows /\ pending' = [pending EXCEPT ![r] = q]
  BY DEF Pipeline!Begin
<1>2. q.op = "insert" /\ q.entity = entity
  BY DEF Pipeline!Inserting
<1> HIDE DEF q
<1> QED
  BY <1>1, <1>2, DealAloneQuiet DEF DealProposes, DealIdleOrNew

\* A lead's handlers: what they read is open, or they leave the status alone.
LEMMA DealLeadAlone ==
    ASSUME DealInv, DealAlone, NEW r \in Requests, NEW i \in IdsOf["pipeline"],
           NEW p \in PersonsOf["pipeline"],
           \/ Pipeline!AssignLead(r, i, p) \/ Pipeline!PromoteLead(r, i, p)
           \/ \E status \in Pipeline!LeadStatus : Pipeline!UpdateLead(r, i, p, status)
    PROVE  DealAlone' /\ Pipeline!FinalKept
<1>1. rows[i] \in Pipeline!Row /\ (rows[i].closed => rows[i].kind = "deal")
  BY DealFound DEF DealAlone
<1>2. CASE Pipeline!AssignLead(r, i, p)
  <2> DEFINE entity == [rows[i] EXCEPT !.owner = p]
  <2>1. /\ entity \in Pipeline!Row /\ entity.kind = rows[i].kind
        /\ entity.closed = rows[i].closed /\ entity.status = rows[i].status
    BY <1>1 DEF Pipeline!Row
  <2>2. Pipeline!Begin(r, Pipeline!Saving(i, entity, {}))
    BY <1>2 DEF Pipeline!AssignLead
  <2> HIDE DEF entity
  <2> QED
    BY <2>1, <2>2, DealSaveAlone
<1>3. ASSUME NEW status \in Pipeline!LeadStatus, NEW recs,
             rows[i].kind = "lead", rows[i].status # "PROMOTED",
             Pipeline!Begin(r, Pipeline!Saving(i, [rows[i] EXCEPT !.status = status], recs))
      PROVE  DealAlone' /\ Pipeline!FinalKept
  <2> DEFINE entity == [rows[i] EXCEPT !.status = status]
  <2>1. /\ entity \in Pipeline!Row /\ entity.kind = rows[i].kind
        /\ entity.closed = rows[i].closed
    BY <1>1 DEF Pipeline!Row
  <2>2. ~DealFinal(rows[i])
    BY <1>1, <1>3 DEF DealFinal
  <2>3. Pipeline!Begin(r, Pipeline!Saving(i, entity, recs))
    BY <1>3
  <2> HIDE DEF entity
  <2> QED
    BY <2>1, <2>2, <2>3, DealSaveAlone
<1>4. CASE Pipeline!PromoteLead(r, i, p)
  BY <1>3, <1>4 DEF Pipeline!PromoteLead, Pipeline!LeadStatus
<1>5. CASE \E status \in Pipeline!LeadStatus : Pipeline!UpdateLead(r, i, p, status)
  BY <1>3, <1>5 DEF Pipeline!UpdateLead
<1> QED
  BY <1>2, <1>4, <1>5

LEMMA DealUpdateAlone ==
    ASSUME DealInv, DealAlone, NEW r \in Requests, NEW i \in IdsOf["pipeline"], NEW p,
           NEW stage \in Pipeline!DealStatus, Pipeline!UpdateDeal(r, i, p, stage)
    PROVE  DealAlone' /\ Pipeline!FinalKept
<1> DEFINE entity == [rows[i] EXCEPT !.status = stage,
                                     !.closed = @ \/ stage \in {"WON", "LOST"}]
           recs == IF stage = rows[i].status THEN {}
                   ELSE Pipeline!Moved(rows[i].status, stage)
<1>1. /\ rows[i] \in Pipeline!Row /\ rows[i].kind = "deal"
      /\ stage # rows[i].status => ~rows[i].closed
      /\ Pipeline!Begin(r, Pipeline!Saving(i, entity, recs))
  BY DealFound DEF Pipeline!UpdateDeal
<1>2. entity \in Pipeline!Row /\ entity.kind = "deal" /\ entity.status = stage
  BY <1>1 DEF Pipeline!Row
<1>3. rows[i].status # "PROMOTED"
  BY <1>1, DealFound, DesksAssumption DEF DealRowOK, Pipeline!DealStatus
<1> HIDE DEF entity, recs
<1> QED
  BY <1>1, <1>2, <1>3, DealSaveAlone DEF DealFinal

LEMMA DealStepAlone ==
    ASSUME DealInv, DealAlone, NEW r \in Requests, Pipeline!Step(r),
           \A q \in Requests \ {r} : pending[q] = Pipeline!Idle
    PROVE  DealAlone' /\ Pipeline!FinalKept
<1>1. CASE Pipeline!Compare(r, {})
  BY <1>1, DealCompareAlone
<1>2. CASE Pipeline!Commit(r)
  BY <1>2, DealCommitAlone
<1>3. CASE Pipeline!Abort(r)
  BY <1>3, DealAloneQuiet, DealIdleProposes DEF Pipeline!Abort
<1>4. ASSUME NEW p \in PersonsOf["pipeline"], Pipeline!CreateLead(r, p)
      PROVE  DealAlone' /\ Pipeline!FinalKept
  BY <1>4, DealInsertAlone DEF Pipeline!CreateLead
<1>5. ASSUME NEW i \in IdsOf["pipeline"], NEW p \in PersonsOf["pipeline"],
             Pipeline!CreateDeal(r, i, p)
      PROVE  DealAlone' /\ Pipeline!FinalKept
  BY <1>5, DealInsertAlone DEF Pipeline!CreateDeal
<1>6. ASSUME NEW i \in IdsOf["pipeline"], NEW p \in PersonsOf["pipeline"],
             \/ Pipeline!AssignLead(r, i, p) \/ Pipeline!PromoteLead(r, i, p)
             \/ \E status \in Pipeline!LeadStatus : Pipeline!UpdateLead(r, i, p, status)
             \/ \E stage \in Pipeline!DealStatus : Pipeline!UpdateDeal(r, i, p, stage)
      PROVE  DealAlone' /\ Pipeline!FinalKept
  BY <1>6, DealLeadAlone, DealUpdateAlone
<1> QED
  BY <1>1, <1>2, <1>3, <1>4, <1>5, <1>6 DEF Pipeline!Step

LEMMA DealAloneInit ==
    ASSUME Pipeline!Init
    PROVE  DealAlone
<1>1. /\ rows = [i \in IdsOf["pipeline"] |-> Pipeline!AbsentRow]
      /\ pending = [r \in Requests |-> Pipeline!Idle]
  BY DEF Pipeline!Init, Pipeline!DeskInit
<1>2. ~Pipeline!AbsentRow.closed
  BY DEF Pipeline!AbsentRow
<1> QED
  BY <1>1, <1>2, DealIdleProposes DEF DealAlone, DealIdleOrNew
-----------------------------------------------------------------------------
(* The desks together, one request at a time. *)

SeedAddsUp == Governance!Sums(Seed) = Total

AloneInv ==
    alone => /\ desk = "crc"        => CrcAlone
             /\ desk = "operations" => CaseAlone
             /\ desk = "governance" /\ SeedAddsUp => ChangeAlone
             /\ desk = "pipeline"   => DealAlone

AloneMoves ==
    alone => /\ desk = "crc"        => CrcMoves
             /\ desk = "operations" => CaseMoves
             /\ desk = "pipeline"   => Pipeline!FinalKept

LEMMA OthersIdle ==
    ASSUME alone, NEW r \in Requests, Turn(r)
    PROVE  /\ \A q \in Requests \ {r} : pending[q] = Crc!Idle
           /\ \A q \in Requests \ {r} : pending[q] = Operations!Idle
           /\ \A q \in Requests \ {r} : pending[q] = Governance!Idle
           /\ \A q \in Requests \ {r} : pending[q] = Pipeline!Idle
BY DEF Turn, Idle, Crc!Idle, Operations!Idle, Governance!Idle, Pipeline!Idle

LEMMA AloneInit ==
    ASSUME Init
    PROVE  AloneInv
<1>1. desk \in DeskNames
  BY DesksAssumption DEF Init
<1>2. CASE desk = "crc"
  BY <1>2, CrcAloneInit DEF Init, AloneInv
<1>3. CASE desk = "operations"
  BY <1>3, CaseAloneInit DEF Init, AloneInv
<1>4. CASE desk = "governance"
  BY <1>4, ChangeAloneInit DEF Init, AloneInv, SeedAddsUp
<1>5. CASE desk = "pipeline"
  BY <1>5, DealAloneInit DEF Init, AloneInv
<1> QED
  BY <1>1, <1>2, <1>3, <1>4, <1>5 DEF DeskNames

LEMMA AloneStay ==
    ASSUME AloneInv, UNCHANGED vars
    PROVE  AloneInv' /\ AloneMoves
<1>1. /\ desk' = desk /\ alone' = alone /\ rows' = rows /\ records' = records
      /\ pending' = pending /\ weights' = weights
  BY DEF vars, deskVars, profile
<1>2. CrcAlone => CrcAlone' /\ CrcMoves
  BY <1>1 DEF CrcAlone, CrcProposes, Left, CrcMoves
<1>3. CaseAlone => CaseAlone' /\ CaseMoves
  BY <1>1 DEF CaseAlone, CaseProposes, Left, CaseMoves
<1>4. ChangeAlone => ChangeAlone'
  BY <1>1 DEF ChangeAlone, ChangeProposes, Left, AddsUp, Governance!WeightsAddUp
<1>5. DealAlone => DealAlone' /\ Pipeline!FinalKept
  BY <1>1 DEF DealAlone, DealProposes, Left, Pipeline!FinalKept
<1> QED
  BY <1>1, <1>2, <1>3, <1>4, <1>5 DEF AloneInv, AloneMoves

LEMMA AloneStep ==
    ASSUME DesksInv, DesksInv', AloneInv, Next
    PROVE  AloneInv' /\ AloneMoves
<1>1. desk' = desk /\ alone' = alone /\ desk \in DeskNames
  BY DEF Next, DesksInv
<1> SUFFICES ASSUME alone PROVE AloneInv' /\ AloneMoves
  BY <1>1 DEF AloneInv, AloneMoves
<1>2. CASE desk = "crc"
  <2>1. PICK r \in Requests : Turn(r) /\ Crc!Step(r)
    BY <1>2 DEF Next, CrcStep
  <2>2. CrcAlone' /\ CrcMoves
    BY <1>1, <1>2, <2>1, OthersIdle, CrcStepAlone DEF DesksInv, AloneInv
  <2> QED
    BY <1>1, <1>2, <2>2 DEF AloneInv, AloneMoves
<1>3. CASE desk = "operations"
  <2>1. PICK r \in Requests : Turn(r) /\ Operations!Step(r)
    BY <1>3 DEF Next, OperationsStep
  <2>2. CaseAlone' /\ CaseMoves
    BY <1>1, <1>3, <2>1, OthersIdle, CaseStepAlone DEF DesksInv, AloneInv
  <2> QED
    BY <1>1, <1>3, <2>2 DEF AloneInv, AloneMoves
<1>4. CASE desk = "governance"
  <2>1. PICK r \in Requests : Turn(r) /\ Governance!Step(r)
    BY <1>4 DEF Next, GovernanceStep
  <2>2. SeedAddsUp => ChangeAlone'
    BY <1>1, <1>4, <2>1, OthersIdle, ChangeStepAlone DEF DesksInv, AloneInv
  <2> QED
    BY <1>1, <1>4, <2>2 DEF AloneInv, AloneMoves
<1>5. CASE desk = "pipeline"
  <2>1. PICK r \in Requests : Turn(r) /\ Pipeline!Step(r)
    BY <1>5 DEF Next, PipelineStep
  <2>2. DealAlone' /\ Pipeline!FinalKept
    BY <1>1, <1>5, <2>1, OthersIdle, DealStepAlone DEF DesksInv, AloneInv
  <2> QED
    BY <1>1, <1>5, <2>2 DEF AloneInv, AloneMoves
<1> QED
  BY <1>1, <1>2, <1>3, <1>4, <1>5 DEF DeskNames

LEMMA AloneInductive ==
    ASSUME DesksInv, AloneInv, [Next]_vars
    PROVE  DesksInv' /\ AloneInv' /\ AloneMoves
BY DesksStay, DesksStep, AloneStay, AloneStep

LEMMA AloneInvariant == Spec => [](DesksInv /\ AloneInv)
<1>1. Init => DesksInv /\ AloneInv
  BY DesksInit, AloneInit
<1>2. DesksInv /\ AloneInv /\ [Next]_vars => (DesksInv /\ AloneInv)'
  BY AloneInductive
<1> QED
  BY <1>1, <1>2, PTL DEF Spec

\* Where requests do not overlap, what a model publishes was checked by a third
\* person and assessments rest on what was published, a case has one contract,
\* and weights that added up when the profile was set up add up for good:
\* publishModel, conductAssessment, portalSign and createChangeRequest check
\* what their transaction will find.
THEOREM SerialDesks ==
    ASSUME SeedAddsUp
    PROVE  Spec => []OneAtATime
<1>1. DesksInv /\ AloneInv => OneAtATime
  BY CrcAloneSigned, CaseAloneOneContract
     DEF AloneInv, OneAtATime, ChangeAlone
<1> QED
  BY <1>1, AloneInvariant, PTL

\* Where requests do not overlap, a promoted lead stays promoted and a closed
\* deal keeps its stage: updateLead and updateDeal refuse the one and the other.
THEOREM FinalSerially == Spec => FinalStays
<1>1. DesksInv /\ AloneInv /\ [Next]_vars
        => (alone /\ desk = "pipeline" => Pipeline!FinalKept)
  BY AloneInductive DEF AloneMoves
<1> QED
  BY <1>1, AloneInvariant, PTL DEF Spec, FinalStays

-----------------------------------------------------------------------------
(* The maker-checker promise.  A step of a desk changes one row, and thereby *)
(* one file, in a way that MakerChecker has an action for.                   *)

allFiles == [i \in Ids |-> File(i)]

LEMMA PromiseKept ==
    ASSUME NEW d \in Ids, NEW g, Promised(File(d), g),
           allFiles' = [allFiles EXCEPT ![d] = g]
    PROVE  Chain!Next \/ UNCHANGED allFiles
<1> DEFINE f == File(d)
<1>1. allFiles[d] = f /\ allFiles = [allFiles EXCEPT ![d] = f]
  BY DEF allFiles
<1>2. CASE g = f
  BY <1>1, <1>2
<1>3. ASSUME NEW p \in Persons, NEW c \in Structures \cup Organisations,
             f = Chain!Unopened,
             g = [stage |-> "open", content |-> c, maker |-> p, checker |-> NONE]
      PROVE  Chain!Open(d, p, c)
  BY <1>1, <1>3 DEF Chain!Open, Chain!Becomes, allFiles
<1>4. ASSUME NEW c \in Structures \cup Organisations, f.stage = "open",
             g = [stage |-> "open", content |-> c, maker |-> f.maker, checker |-> NONE]
      PROVE  Chain!Edit(d, c)
  BY <1>1, <1>4 DEF Chain!Edit, Chain!Becomes, allFiles
<1>5. ASSUME f.stage = "open",
             g = [stage |-> "submitted", content |-> f.content, maker |-> f.maker,
                  checker |-> NONE]
      PROVE  Chain!Submit(d)
  BY <1>1, <1>5 DEF Chain!Submit, Chain!Becomes, allFiles
<1>6. ASSUME NEW p \in Persons \ {f.maker}, f.stage = "submitted",
             g = [stage |-> "checked", content |-> f.content, maker |-> f.maker,
                  checker |-> p]
      PROVE  Chain!Check(d, p)
  BY <1>1, <1>6 DEF Chain!Check, Chain!Becomes, allFiles
<1>7. ASSUME f.stage \in {"submitted", "checked"},
             g = [stage |-> "open", content |-> f.content, maker |-> f.maker,
                  checker |-> NONE]
      PROVE  Chain!Return(d)
  BY <1>1, <1>7 DEF Chain!Return, Chain!Becomes, allFiles
<1>8. ASSUME NEW p \in Persons \ {f.maker, f.checker}, f.stage = "checked",
             g = [stage |-> "approved", content |-> f.content, maker |-> f.maker,
                  checker |-> f.checker]
      PROVE  Chain!Approve(d, p)
  BY <1>1, <1>8 DEF Chain!Approve, Chain!Becomes, allFiles
<1>9. Promised(f, g)
  OBVIOUS
<1> HIDE DEF f
<1> QED
  BY <1>2, <1>3, <1>4, <1>5, <1>6, <1>7, <1>8, <1>9 DEF Promised, Chain!Next

LEMMA CrcKeepsPromise ==
    ASSUME alone, desk = "crc", UNCHANGED <<alone, desk>>, CrcInv, CrcMoves
    PROVE  Chain!Next \/ UNCHANGED allFiles
<1>1. IdsOf["crc"] \subseteq Ids /\ rows \in [IdsOf["crc"] -> Crc!Row]
  BY DesksAssumption DEF DeskNames, CrcInv, Crc!TypeOK
<1>2. \A i \in Ids : File(i) = IF i \in IdsOf["crc"] THEN CrcFile(rows[i])
                               ELSE Chain!Unopened
  BY DEF File, Crc!FileOf, CrcFile, Chain!Unopened
<1>3. \A i \in Ids : File(i)' = IF i \in IdsOf["crc"] THEN CrcFile(rows'[i])
                                ELSE Chain!Unopened
  BY DEF File, Crc!FileOf, CrcFile, Chain!Unopened
<1>4. CASE rows' = rows
  BY <1>2, <1>3, <1>4 DEF allFiles
<1>5. ASSUME NEW m \in IdsOf["crc"], NEW row, rows' = [rows EXCEPT ![m] = row],
             Promised(CrcFile(rows[m]), CrcFile(row))
      PROVE  Chain!Next \/ UNCHANGED allFiles
  <2>1. \A i \in Ids : File(i)' = IF i = m THEN CrcFile(row) ELSE File(i)
    BY <1>1, <1>2, <1>3, <1>5
  <2>2. allFiles' = [allFiles EXCEPT ![m] = CrcFile(row)]
    BY <2>1 DEF allFiles
  <2>3. Promised(File(m), CrcFile(row)) /\ m \in Ids
    BY <1>1, <1>2, <1>5
  <2> QED
    BY <2>2, <2>3, PromiseKept
<1> QED
  BY <1>4, <1>5 DEF CrcMoves

LEMMA CaseKeepsPromise ==
    ASSUME alone, desk = "operations", UNCHANGED <<alone, desk>>, CaseInv, CaseMoves
    PROVE  Chain!Next \/ UNCHANGED allFiles
<1>1. /\ IdsOf["operations"] \subseteq Ids
      /\ rows \in [IdsOf["operations"] -> Operations!Row]
  BY DesksAssumption DEF DeskNames, CaseInv, Operations!TypeOK
<1>2. \A i \in Ids : File(i) = IF i \in IdsOf["operations"] THEN CaseFile(rows[i])
                               ELSE Chain!Unopened
  BY DEF File, Operations!FileOf, CaseFile, Chain!Unopened
<1>3. \A i \in Ids : File(i)' = IF i \in IdsOf["operations"] THEN CaseFile(rows'[i])
                                ELSE Chain!Unopened
  BY DEF File, Operations!FileOf, CaseFile, Chain!Unopened
<1>4. CASE rows' = rows
  BY <1>2, <1>3, <1>4 DEF allFiles
<1>5. ASSUME NEW m \in IdsOf["operations"], NEW row, rows' = [rows EXCEPT ![m] = row],
             Promised(CaseFile(rows[m]), CaseFile(row))
      PROVE  Chain!Next \/ UNCHANGED allFiles
  <2>1. \A i \in Ids : File(i)' = IF i = m THEN CaseFile(row) ELSE File(i)
    BY <1>1, <1>2, <1>3, <1>5
  <2>2. allFiles' = [allFiles EXCEPT ![m] = CaseFile(row)]
    BY <2>1 DEF allFiles
  <2>3. Promised(File(m), CaseFile(row)) /\ m \in Ids
    BY <1>1, <1>2, <1>5
  <2> QED
    BY <2>2, <2>3, PromiseKept
<1> QED
  BY <1>4, <1>5 DEF CaseMoves

LEMMA PromiseInit ==
    ASSUME Init
    PROVE  Chain!Init
<1>1. ASSUME NEW i \in Ids
      PROVE  File(i) = Chain!Unopened
  <2>1. CASE desk = "crc" /\ i \in IdsOf["crc"]
    <3>1. rows[i] = Crc!AbsentRow
      BY <2>1 DEF Init, Crc!Init, Crc!DeskInit
    <3> QED
      BY <2>1, <3>1 DEF File, Crc!FileOf, Crc!Stage, Crc!AbsentRow, Chain!Unopened
  <2>2. CASE desk = "operations" /\ i \in IdsOf["operations"]
    <3>1. rows[i] = Operations!AbsentRow
      BY <2>2 DEF Init, Operations!Init, Operations!DeskInit
    <3> QED
      BY <2>2, <3>1 DEF File, Operations!FileOf, Operations!Stage, Operations!AbsentRow,
                        Chain!Unopened
  <2> QED
    BY <2>1, <2>2 DEF File, Chain!Unopened
<1> QED
  BY <1>1 DEF Chain!Init

LEMMA PromiseStep ==
    ASSUME DesksInv, AloneMoves, UNCHANGED <<alone, desk>>
    PROVE  Chain!Next \/ UNCHANGED allFiles
<1>1. CASE alone /\ desk = "crc"
  BY <1>1, CrcKeepsPromise DEF DesksInv, AloneMoves
<1>2. CASE alone /\ desk = "operations"
  BY <1>2, CaseKeepsPromise DEF DesksInv, AloneMoves
<1>3. CASE ~alone \/ desk \notin {"crc", "operations"}
  BY <1>3 DEF File, allFiles
<1> QED
  BY <1>1, <1>2, <1>3

\* Where requests do not overlap, the risk models and the operations cases keep
\* the maker-checker promise: three people sign, each what the one before has
\* signed, and what is approved stays as it is.
THEOREM PromiseSerially == Spec => KeepsPromise
<1>1. Init => Chain!Init
  BY PromiseInit
<1>2. [Next]_vars => UNCHANGED <<alone, desk>>
  BY DEF Next, vars
<1>3. DesksInv /\ AloneInv /\ [Next]_vars => [Chain!Next]_allFiles
  BY <1>2, AloneInductive, PromiseStep
<1> QED
  BY <1>1, <1>3, AloneInvariant, PTL DEF Spec, KeepsPromise, Chain!Spec, allFiles
==============================================================================
