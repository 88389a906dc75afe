------------------------ MODULE PortalApplicationProofs ------------------------
(***************************************************************************)
(* Proofs about PortalApplication, for any number of applications,         *)
(* applicants, workers and faults.                                         *)
(***************************************************************************)
EXTENDS PortalApplication, FiniteSetTheorems, WellFoundedInduction, TLAPS

USE DEF Status, Current

-----------------------------------------------------------------------------
(* The induction.  A save may put a status read long ago over whatever the  *)
(* row has become, so a status is not tied to the other columns.  It stays  *)
(* vouched for by the records: a transaction inserts what its status calls  *)
(* for, or read a status that was vouched for, and records are only added.  *)

\* The records R vouch for the status s.
Vouched(s, R) ==
    /\ s \in {"SCORED_PASS", "IN_CRC_REVIEW"} =>
         R \cap {"PASS", "OVERRIDDEN_TO_PASS"} # {}
    /\ s \in {"SCORED_FAIL", "CLOSED_ARCHIVED"} => {"FAIL", "SLA_START"} \subseteq R

\* The records R tell of the override, if there was one.
Audited(overridden, R) ==
    overridden => {"FAIL", "STATUS_OVERRIDDEN", "SLA_CANCEL"} \subseteq R

\* A failed application has a scoring row.
Scored(s, c) == s = "SCORED_FAIL" => c # "absent"

RowOK(row, R, c) ==
    /\ Vouched(row.status, R)
    /\ Audited(row.overridden, R)
    /\ Scored(row.status, c)

PendingOK(p) ==
    /\ p.op = "insert" => p.row.status = "DRAFT" /\ p.row.overridden = FALSE
    /\ p.op \in {"update", "write"} =>
         RowOK(p.row, records[p.app] \cup p.records, category[p.app])
    /\ p.op \in {"score", "reread"} => category[p.app] # "absent"

IInv ==
    /\ TypeOK
    /\ \A a \in AppIds : RowOK(apps[a], records[a], category[a])
    /\ \A w \in Workers : PendingOK(pending[w])

\* More records vouch for no less.
LEMMA RowOKGrows ==
    ASSUME NEW row, NEW R, NEW S, R \subseteq S, NEW c, NEW d,
           RowOK(row, R, c), c # "absent" => d # "absent"
    PROVE  RowOK(row, S, d)
BY DEF RowOK, Vouched, Audited, Scored

\* A change that adds records and scoring rows keeps what is pending in order.
LEMMA PendingOKGrows ==
    ASSUME IInv, NEW p \in Pending, PendingOK(p),
           records' \in [AppIds -> SUBSET Record],
           \A a \in AppIds : records[a] \subseteq records'[a],
           \A a \in AppIds : category[a] # "absent" => category'[a] # "absent"
    PROVE  PendingOK(p)'
<1>1. CASE p.op \in {"update", "write"}
  <2>1. p.app \in AppIds
    BY <1>1 DEF Pending, Idle
  <2>2. records[p.app] \cup p.records \subseteq records'[p.app] \cup p.records
    BY <2>1
  <2>3. RowOK(p.row, records'[p.app] \cup p.records, category'[p.app])
    BY <1>1, <2>1, <2>2, RowOKGrows DEF PendingOK
  <2> QED
    BY <1>1, <2>3 DEF PendingOK
<1>2. CASE p.op \in {"score", "reread"}
  <2>1. p.app \in AppIds
    BY <1>2 DEF Pending, Idle
  <2> QED
    BY <1>2, <2>1 DEF PendingOK
<1>3. CASE p.op \notin {"update", "write", "score", "reread"}
  BY <1>3 DEF PendingOK
<1> QED
  BY <1>1, <1>2, <1>3

-----------------------------------------------------------------------------
(* Handlers that read and decide. *)

LEMMA BeginKeeps ==
    ASSUME IInv, NEW w \in Workers, NEW p \in Pending, PendingOK(p), Begin(w, p)
    PROVE  IInv'
<1>1. TypeOK'
  BY DEF IInv, TypeOK, Begin, data
<1>2. \A x \in Workers : PendingOK(pending'[x])
  BY DEF IInv, TypeOK, Begin
<1> QED
  BY <1>1, <1>2 DEF IInv, Begin, PendingOK, data

\* A worker goes on to p, with no other change.
LEMMA GoKeeps ==
    ASSUME IInv, NEW w \in Workers, NEW p \in Pending, PendingOK(p), Go(w, p),
           UNCHANGED data
    PROVE  IInv'
<1>1. TypeOK'
  BY DEF IInv, TypeOK, Go, data
<1>2. \A x \in Workers : PendingOK(pending'[x])
  BY DEF IInv, TypeOK, Go
<1> QED
  BY <1>1, <1>2 DEF IInv, Go, PendingOK, data

LEMMA IdleOK == Idle \in Pending /\ PendingOK(Idle)
BY DEF Idle, Pending, PendingOK

\* An entity that its records vouch for is in order as an update.
LEMMA UpdateOK ==
    ASSUME NEW a \in AppIds, NEW row \in Row, NEW recs \in SUBSET Record,
           NEW then \in {"idle", "try"},
           RowOK(row, records[a] \cup recs, category[a])
    PROVE  /\ Update(a, row, recs, then) \in Pending
           /\ PendingOK(Update(a, row, recs, then))
BY DEF Update, Pending, PendingOK

LEMMA BeginUpdateKeeps ==
    ASSUME IInv, NEW w \in Workers, NEW a \in AppIds, NEW row \in Row,
           NEW recs \in SUBSET Record, NEW then \in {"idle", "try"},
           RowOK(row, records[a] \cup recs, category[a]),
           Begin(w, Update(a, row, recs, then))
    PROVE  IInv'
BY UpdateOK, BeginKeeps

\* Assigning fields of a row.
LEMMA RowFields ==
    ASSUME NEW row \in Row, NEW s \in Status
    PROVE  /\ [row EXCEPT !.status = s] \in Row
           /\ [row EXCEPT !.status = s].status = s
           /\ [row EXCEPT !.status = s].overridden = row.overridden
BY DEF Row

LEMMA RowPayload ==
    ASSUME NEW row \in Row, NEW p \in Payloads
    PROVE  /\ [row EXCEPT !.payload = p] \in Row
           /\ [row EXCEPT !.payload = p].status = row.status
           /\ [row EXCEPT !.payload = p].overridden = row.overridden
BY DEF Row

LEMMA RowOverride ==
    ASSUME NEW row \in Row
    PROVE  LET new == [row EXCEPT !.status = "SCORED_PASS", !.overridden = TRUE]
           IN  new \in Row /\ new.status = "SCORED_PASS" /\ new.overridden = TRUE
BY DEF Row

LEMMA CurrentOfApps == \A o : CurrentOf(o) \subseteq AppIds
BY DEF CurrentOf

\* Only the status is assigned, and nothing is recorded.
LEMMA StatusOnly ==
    ASSUME IInv, NEW w \in Workers, NEW a \in AppIds, NEW s \in Status,
           NEW then \in {"idle", "try"}, Vouched(s, records[a]), s # "SCORED_FAIL",
           Begin(w, Update(a, [apps[a] EXCEPT !.status = s], {}, then))
    PROVE  IInv'
<1>1. apps[a] \in Row /\ RowOK(apps[a], records[a], category[a])
  BY DEF IInv, TypeOK
<1> DEFINE new == [apps[a] EXCEPT !.status = s]
<1>2. new \in Row /\ new.status = s /\ new.overridden = apps[a].overridden
  BY <1>1, RowFields
<1>3. RowOK(new, records[a] \cup {}, category[a])
  <2> HIDE DEF new
  <2> QED
    BY <1>1, <1>2 DEF RowOK, Audited, Scored
<1> QED
  BY <1>2, <1>3, BeginUpdateKeeps

LEMMA DraftKeeps ==
    ASSUME IInv, NEW w \in Workers, NEW o \in Organisations, GetOrCreateDraft(w, o)
    PROVE  IInv'
<1> DEFINE p == [op |-> "insert", row |-> DraftRow(o)]
<1>1. DraftRow(o) \in Row
  BY DEF Row, DraftRow
<1>2. p \in Pending
  BY <1>1 DEF Pending
<1>3. PendingOK(p)
  BY DEF PendingOK, DraftRow
<1>4. Begin(w, p)
  BY DEF GetOrCreateDraft
<1> QED
  BY <1>2, <1>3, <1>4, BeginKeeps

LEMMA SaveDraftKeeps ==
    ASSUME IInv, NEW w \in Workers, NEW o \in Organisations, SaveDraft(w, o)
    PROVE  IInv'
<1>1. PICK a \in CurrentOf(o), p \in Payloads :
        Begin(w, Update(a, [apps[a] EXCEPT !.payload = p], {}, "idle"))
  BY DEF SaveDraft
<1>2. a \in AppIds
  BY CurrentOfApps
<1>3. apps[a] \in Row /\ RowOK(apps[a], records[a], category[a])
  BY <1>2 DEF IInv, TypeOK
<1> DEFINE new == [apps[a] EXCEPT !.payload = p]
<1>4. /\ new \in Row /\ new.status = apps[a].status
      /\ new.overridden = apps[a].overridden
  BY <1>3, RowPayload
<1>5. RowOK(new, records[a] \cup {}, category[a])
  <2> HIDE DEF new
  <2> QED
    BY <1>3, <1>4 DEF RowOK
<1> QED
  BY <1>1, <1>2, <1>4, <1>5, BeginUpdateKeeps

LEMMA SubmitKeeps ==
    ASSUME IInv, NEW w \in Workers, NEW o \in Organisations, Submit(w, o)
    PROVE  IInv'
<1>1. PICK a \in CurrentOf(o) :
        Begin(w, Update(a, [apps[a] EXCEPT !.status = "SUBMITTED"], {}, "try"))
  BY DEF Submit
<1>2. a \in AppIds
  BY CurrentOfApps
<1>3. Vouched("SUBMITTED", records[a])
  BY DEF Vouched
<1> QED
  BY <1>1, <1>2, <1>3, StatusOnly

LEMMA OverrideKeeps ==
    ASSUME IInv, NEW w \in Workers, NEW a \in AppIds, OverrideFailToPass(w, a)
    PROVE  IInv'
<1>1. apps[a] \in Row /\ RowOK(apps[a], records[a], category[a])
  BY DEF IInv, TypeOK
<1>2. apps[a].status = "SCORED_FAIL"
  BY DEF OverrideFailToPass
<1>3. category[a] # "absent" /\ "FAIL" \in records[a]
  BY <1>1, <1>2 DEF RowOK, Scored, Vouched
<1> DEFINE new  == [apps[a] EXCEPT !.status = "SCORED_PASS", !.overridden = TRUE]
           recs == {"STATUS_OVERRIDDEN", "SLA_CANCEL"}
                     \cup (IF category[a] = "absent" THEN {} ELSE {"OVERRIDDEN_TO_PASS"})
<1>4. new \in Row /\ new.status = "SCORED_PASS" /\ new.overridden = TRUE
  BY <1>1, RowOverride
<1>5. recs = {"STATUS_OVERRIDDEN", "SLA_CANCEL", "OVERRIDDEN_TO_PASS"}
  BY <1>3
<1>6. recs \in SUBSET Record
  BY <1>5 DEF Record
<1>7. RowOK(new, records[a] \cup recs, category[a])
  <2> HIDE DEF new, recs
  <2> QED
    BY <1>3, <1>4, <1>5 DEF RowOK, Vouched, Audited, Scored
<1>8. Begin(w, Update(a, new, recs, "idle"))
  BY DEF OverrideFailToPass
<1> QED
  BY <1>4, <1>6, <1>7, <1>8, BeginUpdateKeeps

LEMMA CloseKeeps ==
    ASSUME IInv, NEW w \in Workers, NEW a \in AppIds, CloseOnEngagementBreach(w, a)
    PROVE  IInv'
<1>1. RowOK(apps[a], records[a], category[a]) /\ apps[a].status = "SCORED_FAIL"
  BY DEF IInv, CloseOnEngagementBreach
<1>2. Vouched("CLOSED_ARCHIVED", records[a])
  BY <1>1 DEF RowOK, Vouched
<1> QED
  BY <1>2, StatusOnly DEF CloseOnEngagementBreach

LEMMA ReviewKeeps ==
    ASSUME IInv, NEW w \in Workers, NEW a \in AppIds, IntoReview(w, a)
    PROVE  IInv'
<1>1. /\ RowOK(apps[a], records[a], category[a])
      /\ apps[a].status \in {"SCORED_PASS", "IN_CRC_REVIEW"}
  BY DEF IInv, IntoReview
<1>2. Vouched("IN_CRC_REVIEW", records[a])
  BY <1>1 DEF RowOK, Vouched
<1> QED
  BY <1>2, StatusOnly DEF IntoReview

-----------------------------------------------------------------------------
(* Scoring. *)

LEMMA CronListKeeps ==
    ASSUME IInv, NEW w \in Workers, CronList(w)
    PROVE  IInv'
<1>1. PICK S \in SUBSET Submitted : queue' = [queue EXCEPT ![w] = S]
  BY DEF CronList
<1>2. S \in SUBSET AppIds
  BY DEF Submitted
<1>3. queue' \in [Workers -> SUBSET AppIds]
  BY <1>1, <1>2 DEF IInv, TypeOK
<1>4. TypeOK'
  BY <1>3 DEF IInv, TypeOK, CronList, data
<1> QED
  BY <1>4 DEF IInv, CronList, PendingOK, data

LEMMA CronNextKeeps ==
    ASSUME IInv, NEW w \in Workers, CronNext(w)
    PROVE  IInv'
<1>1. PICK a \in queue[w] :
        /\ queue' = [queue EXCEPT ![w] = @ \ {a}]
        /\ pending' = [pending EXCEPT ![w] = [op |-> "try", app |-> a]]
  BY DEF CronNext
<1>2. a \in AppIds
  BY DEF IInv, TypeOK
<1>3. [op |-> "try", app |-> a] \in Pending
  BY <1>2 DEF Pending
<1>4. TypeOK'
  BY <1>1, <1>3 DEF IInv, TypeOK, CronNext, data
<1>5. \A x \in Workers : PendingOK(pending'[x])
  BY <1>1 DEF IInv, TypeOK, PendingOK
<1> QED
  BY <1>4, <1>5 DEF IInv, CronNext, PendingOK, data

\* A step that goes on to p, adds records and scoring rows, and leaves every
\* row in order.
LEMMA StepKeeps ==
    ASSUME IInv, NEW w \in Workers, NEW p \in Pending, PendingOK(p)', Go(w, p),
           apps' \in [AppIds -> Row],
           category' \in [AppIds -> Band \cup {"absent", NONE}],
           records' \in [AppIds -> SUBSET Record],
           scorings' \in [AppIds -> 0..2],
           \A a \in AppIds : records[a] \subseteq records'[a],
           \A a \in AppIds : category[a] # "absent" => category'[a] # "absent",
           \A a \in AppIds : RowOK(apps'[a], records'[a], category'[a])
    PROVE  IInv'
<1>1. TypeOK'
  BY DEF IInv, TypeOK, Go
<1>2. ASSUME NEW x \in Workers
      PROVE  PendingOK(pending[x])'
  <2>1. PICK q, r :
          /\ pending[x] = q /\ pending'[x] = r
          /\ q \in Pending /\ PendingOK(q)
          /\ r = IF x = w THEN p ELSE q
    BY DEF IInv, TypeOK, Go
  <2>2. PendingOK(q)'
    BY <2>1, PendingOKGrows
  <2>3. PendingOK(r)'
    BY <2>1, <2>2
  <2> QED
    BY <2>1, <2>3 DEF PendingOK
<1> QED
  BY <1>1, <1>2 DEF IInv

\* A scoring row is inserted or given its category.
LEMMA CategoryKeeps ==
    ASSUME IInv, NEW w \in Workers, NEW a \in AppIds, NEW c \in Band \cup {NONE},
           NEW op \in {"score", "reread"},
           category' = [category EXCEPT ![a] = c],
           Go(w, [op |-> op, app |-> a]), UNCHANGED <<apps, records, scorings>>
    PROVE  IInv'
<1> DEFINE p == [op |-> op, app |-> a]
<1>1. c # "absent"
  BY ConstantsAssumption DEF Band
<1>2. /\ category' \in [AppIds -> Band \cup {"absent", NONE}]
      /\ category'[a] # "absent"
      /\ \A b \in AppIds : category[b] # "absent" => category'[b] # "absent"
  BY <1>1 DEF IInv, TypeOK
<1>3. \A b \in AppIds : RowOK(apps'[b], records'[b], category'[b])
  <2> TAKE b \in AppIds
  <2>1. RowOK(apps[b], records[b], category[b])
    BY DEF IInv
  <2> QED
    BY <1>2, <2>1, RowOKGrows
<1>4. p \in Pending
  BY DEF Pending
<1>5. PendingOK(p)'
  BY <1>2 DEF PendingOK
<1>6. /\ apps' \in [AppIds -> Row] /\ records' \in [AppIds -> SUBSET Record]
      /\ scorings' \in [AppIds -> 0..2]
      /\ \A b \in AppIds : records[b] \subseteq records'[b]
  BY DEF IInv, TypeOK
<1> HIDE DEF p
<1>7. Go(w, p)
  BY DEF p
<1> QED
  BY <1>2, <1>3, <1>4, <1>5, <1>6, <1>7, StepKeeps

LEMMA TryScoreKeeps ==
    ASSUME IInv, NEW w \in Workers, TryScore(w)
    PROVE  IInv'
<1> DEFINE a == pending[w].app
<1>1. a \in AppIds
  BY DEF IInv, TypeOK, TryScore, Pending, Idle
<1>2. CASE apps[a].status # "SUBMITTED"
  BY <1>2, IdleOK, GoKeeps DEF TryScore
<1>3. CASE apps[a].status = "SUBMITTED"
  <2>1. /\ category' = [category EXCEPT ![a] = IF @ = "absent" THEN NONE ELSE @]
        /\ Go(w, [op |-> "score", app |-> a])
        /\ UNCHANGED <<apps, records, scorings>>
    BY <1>3 DEF TryScore
  <2>2. PICK c \in Band \cup {NONE} : category' = [category EXCEPT ![a] = c]
    <3>1. (IF category[a] = "absent" THEN NONE ELSE category[a]) \in Band \cup {NONE}
      BY <1>1 DEF IInv, TypeOK
    <3> QED
      BY <2>1, <3>1
  <2> HIDE DEF a
  <2> QED
    BY <1>1, <2>1, <2>2, CategoryKeeps
<1> QED
  BY <1>2, <1>3

LEMMA ScoreKeeps ==
    ASSUME IInv, NEW w \in Workers, Score(w)
    PROVE  IInv'
<1> DEFINE a == pending[w].app
<1>1. a \in AppIds
  BY DEF IInv, TypeOK, Score, Pending, Idle
<1>2. CASE a \notin scorable
  BY <1>2, IdleOK, GoKeeps DEF Score
<1>3. CASE a \in scorable
  <2>1. PICK band \in Band : category' = [category EXCEPT ![a] = band]
    BY <1>3 DEF Score
  <2>2. /\ Go(w, [op |-> "reread", app |-> a])
        /\ UNCHANGED <<apps, records, scorings>>
    BY <1>3 DEF Score
  <2> HIDE DEF a
  <2> QED
    BY <1>1, <2>1, <2>2, CategoryKeeps
<1> QED
  BY <1>2, <1>3

\* A verdict brings the records that vouch for it.
LEMMA RereadKeeps ==
    ASSUME IInv, NEW w \in Workers, Reread(w)
    PROVE  IInv'
<1> DEFINE a    == pending[w].app
           s    == IF Passed(a) THEN "SCORED_PASS" ELSE "SCORED_FAIL"
           new  == [apps[a] EXCEPT !.status = s]
           recs == IF Passed(a) THEN {"PASS"} ELSE {"FAIL", "SLA_START"}
<1>1. a \in AppIds /\ pending[w].op = "reread"
  BY DEF IInv, TypeOK, Reread, Pending, Idle
<1>2. category[a] # "absent"
  BY <1>1 DEF IInv, PendingOK
<1>3. apps[a] \in Row /\ RowOK(apps[a], records[a], category[a])
  BY <1>1 DEF IInv, TypeOK
<1>4. new \in Row /\ new.status = s /\ new.overridden = apps[a].overridden
  <2>1. s \in Status
    OBVIOUS
  <2> HIDE DEF s
  <2> QED
    BY <1>3, <2>1, RowFields
<1>5. recs \in SUBSET Record
  BY DEF Record
<1>6. RowOK(new, records[a] \cup recs, category[a])
  <2> HIDE DEF new
  <2> QED
    BY <1>2, <1>3, <1>4 DEF RowOK, Vouched, Audited, Scored
<1>7. Go(w, Update(a, new, recs, "idle")) /\ UNCHANGED data
  BY DEF Reread, Verdict
<1> HIDE DEF a, new, recs
<1> QED
  BY <1>1, <1>4, <1>5, <1>6, <1>7, UpdateOK, GoKeeps

-----------------------------------------------------------------------------
(* Saves and transactions. *)

LEMMA CompareKeeps ==
    ASSUME IInv, NEW w \in Workers, Compare(w)
    PROVE  IInv'
<1>1. PICK p \in Pending : pending[w] = p /\ p.op = "update" /\ PendingOK(p)
  BY DEF IInv, TypeOK, Compare
<1>2. /\ p.app \in AppIds /\ p.row \in Row /\ p.records \in SUBSET Record
      /\ p.then \in {"idle", "try"}
  BY <1>1 DEF Pending, Idle
<1> DEFINE changed == Changed(apps[p.app], p.row)
           q == [op |-> "write", app |-> p.app, row |-> p.row, changed |-> changed,
                 records |-> p.records, then |-> p.then]
<1>3. changed \in SUBSET Columns
  BY DEF Changed
<1>4. Go(w, q) /\ UNCHANGED data
  BY <1>1 DEF Compare
<1> HIDE DEF changed
<1>5. q \in Pending
  BY <1>2, <1>3 DEF Pending
<1>6. PendingOK(q)
  BY <1>1 DEF PendingOK
<1> QED
  BY <1>4, <1>5, <1>6, GoKeeps

LEMMA InsertKeeps ==
    ASSUME IInv, NEW w \in Workers, Insert(w)
    PROVE  IInv'
<1>1. PICK p \in Pending : pending[w] = p /\ p.op = "insert" /\ PendingOK(p)
  BY DEF IInv, TypeOK, Insert
<1>2. p.row \in Row /\ p.row.status = "DRAFT" /\ p.row.overridden = FALSE
  BY <1>1 DEF Pending, Idle, PendingOK
<1>3. PICK a \in AppIds : apps' = [apps EXCEPT ![a] = p.row]
  BY <1>1 DEF Insert
<1>4. apps' \in [AppIds -> Row]
  BY <1>2, <1>3 DEF IInv, TypeOK
<1>5. \A b \in AppIds : RowOK(apps'[b], records'[b], category'[b])
  <2> TAKE b \in AppIds
  <2>1. CASE b = a
    BY <1>2, <1>3, <2>1 DEF IInv, TypeOK, RowOK, Vouched, Audited, Scored
  <2>2. CASE b # a
    BY <1>3, <2>2 DEF IInv, TypeOK, Insert
  <2> QED
    BY <2>1, <2>2
<1>6. PendingOK(Idle)'
  BY DEF PendingOK, Idle
<1>7. /\ Go(w, Idle) /\ records' \in [AppIds -> SUBSET Record]
      /\ category' \in [AppIds -> Band \cup {"absent", NONE}]
      /\ scorings' \in [AppIds -> 0..2]
      /\ \A b \in AppIds : records[b] \subseteq records'[b]
      /\ \A b \in AppIds : category[b] # "absent" => category'[b] # "absent"
  BY DEF Insert, IInv, TypeOK
<1> QED
  BY <1>4, <1>5, <1>6, <1>7, IdleOK, StepKeeps

\* Whichever columns an update carries, the row it makes is in order when both
\* the row it finds and the entity it was made from are.
LEMMA MergeOK ==
    ASSUME NEW old \in Row, NEW new \in Row, NEW changed, NEW R, NEW S, NEW c,
           RowOK(old, R, c), RowOK(new, R \cup S, c)
    PROVE  Merge(old, new, changed) \in Row /\ RowOK(Merge(old, new, changed), R \cup S, c)
<1>1. RowOK(old, R \cup S, c)
  BY RowOKGrows
<1>2. Merge(old, new, changed) \in Row
  BY DEF Merge, Row
<1>3. /\ Merge(old, new, changed).status \in {old.status, new.status}
      /\ Merge(old, new, changed).overridden \in {old.overridden, new.overridden}
  BY DEF Merge
<1> QED
  BY <1>1, <1>2, <1>3 DEF RowOK

LEMMA CommitKeeps ==
    ASSUME IInv, NEW w \in Workers, Commit(w)
    PROVE  IInv'
<1>1. PICK p \in Pending : pending[w] = p /\ p.op = "write" /\ PendingOK(p)
  BY DEF IInv, TypeOK, Commit
<1>2. /\ p.app \in AppIds /\ p.row \in Row /\ p.records \in SUBSET Record
      /\ p.then \in {"idle", "try"}
  BY <1>1 DEF Pending, Idle
<1>3. /\ apps' = [apps EXCEPT ![p.app] = Merge(apps[p.app], p.row, p.changed)]
      /\ records' = [records EXCEPT ![p.app] = records[p.app] \cup p.records]
      /\ scorings' = IF p.records \cap {"PASS", "FAIL"} = {} THEN scorings
                     ELSE [scorings EXCEPT ![p.app] = AtMostTwo(scorings[p.app] + 1)]
      /\ Go(w, IF p.then = "try" THEN [op |-> "try", app |-> p.app] ELSE Idle)
      /\ UNCHANGED category
  BY <1>1 DEF Commit
<1>4. /\ Merge(apps[p.app], p.row, p.changed) \in Row
      /\ RowOK(Merge(apps[p.app], p.row, p.changed), records[p.app] \cup p.records,
               category[p.app])
  <2>1. apps[p.app] \in Row /\ RowOK(apps[p.app], records[p.app], category[p.app])
    BY <1>2 DEF IInv, TypeOK
  <2>2. RowOK(p.row, records[p.app] \cup p.records, category[p.app])
    BY <1>1 DEF PendingOK
  <2> QED
    BY <1>2, <2>1, <2>2, MergeOK
<1>5. /\ apps' \in [AppIds -> Row]
      /\ records' \in [AppIds -> SUBSET Record]
      /\ \A b \in AppIds : records[b] \subseteq records'[b]
  BY <1>2, <1>3, <1>4 DEF IInv, TypeOK
<1>6. scorings' \in [AppIds -> 0..2]
  <2>1. AtMostTwo(scorings[p.app] + 1) \in 0..2
    BY <1>2 DEF IInv, TypeOK, AtMostTwo
  <2> QED
    BY <1>3, <2>1 DEF IInv, TypeOK
<1>7. \A b \in AppIds : RowOK(apps'[b], records'[b], category'[b])
  <2> TAKE b \in AppIds
  <2>1. CASE b = p.app
    BY <1>3, <1>4, <2>1 DEF IInv, TypeOK
  <2>2. CASE b # p.app
    BY <1>3, <2>2 DEF IInv, TypeOK
  <2> QED
    BY <2>1, <2>2
<1>8. /\ category' \in [AppIds -> Band \cup {"absent", NONE}]
      /\ \A b \in AppIds : category[b] # "absent" => category'[b] # "absent"
  BY <1>3 DEF IInv, TypeOK
<1>9. PICK q \in Pending : Go(w, q) /\ q.op \in {"try", "idle"}
  <2>1. CASE p.then = "try"
    BY <1>2, <1>3, <2>1 DEF Pending
  <2>2. CASE p.then # "try"
    BY <1>3, <2>2 DEF Pending, Idle
  <2> QED
    BY <2>1, <2>2
<1>10. PendingOK(q)'
  BY <1>9 DEF PendingOK
<1> QED
  BY <1>5, <1>6, <1>7, <1>8, <1>9, <1>10, StepKeeps

LEMMA AbortKeeps ==
    ASSUME IInv, NEW w \in Workers, Abort(w)
    PROVE  IInv'
<1>1. TypeOK'
  BY IdleOK DEF IInv, TypeOK, Abort, data
<1>2. \A x \in Workers : PendingOK(pending'[x])
  BY IdleOK DEF IInv, TypeOK, Abort
<1> QED
  BY <1>1, <1>2 DEF IInv, Abort, PendingOK, data

-----------------------------------------------------------------------------
LEMMA InitOK == Init => IInv
<1> SUFFICES ASSUME Init PROVE IInv
  OBVIOUS
<1>1. AbsentRow \in Row
  BY DEF AbsentRow, Row
<1>2. TypeOK
  BY <1>1, IdleOK DEF Init, TypeOK
<1>3. \A a \in AppIds : RowOK(apps[a], records[a], category[a])
  BY DEF Init, AbsentRow, RowOK, Vouched, Audited, Scored
<1>4. \A w \in Workers : PendingOK(pending[w])
  BY DEF Init, PendingOK, Idle
<1> QED
  BY <1>2, <1>3, <1>4 DEF IInv

LEMMA NextKeeps == IInv /\ [Next]_vars => IInv'
<1> SUFFICES ASSUME IInv, [Next]_vars PROVE IInv'
  OBVIOUS
<1>1. CASE UNCHANGED vars
  BY <1>1 DEF vars, data, IInv, TypeOK, PendingOK
<1>2. ASSUME NEW w \in Workers, Step(w) PROVE IInv'
  <2>1. CASE Proceed(w)
    BY <2>1, CronNextKeeps, TryScoreKeeps, ScoreKeeps, RereadKeeps, CompareKeeps,
       InsertKeeps, CommitKeeps DEF Proceed
  <2>2. CASE CronList(w) \/ Abort(w)
    BY <2>2, CronListKeeps, AbortKeeps
  <2>3. CASE \E o \in Organisations :
               GetOrCreateDraft(w, o) \/ SaveDraft(w, o) \/ Submit(w, o)
    BY <2>3, DraftKeeps, SaveDraftKeeps, SubmitKeeps
  <2>4. CASE \E a \in AppIds :
               \/ OverrideFailToPass(w, a) \/ CloseOnEngagementBreach(w, a)
               \/ IntoReview(w, a)
    BY <2>4, OverrideKeeps, CloseKeeps, ReviewKeeps
  <2> QED
    BY <1>2, <2>1, <2>2, <2>3, <2>4 DEF Step
<1> QED
  BY <1>1, <1>2 DEF Next

\* The induction for all behaviours of the intake.
THEOREM Inductive == Spec => []IInv
BY InitOK, NextKeeps, PTL DEF Spec

\* Every variable of the intake keeps its type.
THEOREM TypeCorrect == Spec => []TypeOK
<1>1. IInv => TypeOK
  BY DEF IInv
<1> QED
  BY <1>1, Inductive, PTL

\* An application that passed has told the services that follow, however
\* scoring runs, overrides and reviews overlap or fail (tryScore,
\* overrideFailToPass).
THEOREM PassAnnounced == Spec => []PassIsAnnounced
<1>1. IInv => PassIsAnnounced
  BY DEF IInv, PassIsAnnounced, RowOK, Vouched
<1> QED
  BY <1>1, Inductive, PTL

\* A failed application has its engagement clock, and only one that failed is
\* closed (tryScore, closeOnEngagementBreach).
THEOREM FailClock == Spec => []FailStartsClock
<1>1. IInv => FailStartsClock
  BY DEF IInv, FailStartsClock, RowOK, Vouched
<1> QED
  BY <1>1, Inductive, PTL

\* An override is in the audit log and overrides a verdict that was told
\* (overrideFailToPass).
THEOREM OverrideAudited == Spec => []OverrideIsAudited
<1>1. IInv => OverrideIsAudited
  BY DEF IInv, OverrideIsAudited, RowOK, Audited
<1> QED
  BY <1>1, Inductive, PTL

\* The records agree with the row, however handlers overlap or fail.
THEOREM Agreement == Spec => []RecordsAgree
<1>1. PassIsAnnounced /\ FailStartsClock /\ OverrideIsAudited => RecordsAgree
  BY DEF RecordsAgree
<1> QED
  BY <1>1, PassAnnounced, FailClock, OverrideAudited, PTL
-----------------------------------------------------------------------------
(* Work that does not overlap.  With one worker the row a save finds is the *)
(* row its handler read, so the save puts the entity in its place: the row  *)
(* takes one edge of the lifecycle, and what the comments say of it holds.  *)

Follows(old, new) == old = new \/ <<old, new>> \in LifecycleEdges

\* An override is of a verdict, and stands.
Honest(row) == row.overridden => row.status \in {"SCORED_PASS", "IN_CRC_REVIEW"}

\* A row scored n times.
RowStands(row, n) ==
    /\ Honest(row)
    /\ n <= 1
    /\ n > 0 => row.status \notin {"ABSENT", "DRAFT", "SUBMITTED"}

\* The entity row is what application a comes to next.
NextRow(a, row, recs) ==
    /\ apps[a].status # "ABSENT"
    /\ row.organisation = apps[a].organisation
    /\ Follows(apps[a].status, row.status)
    /\ apps[a].status # "DRAFT" => row.payload = apps[a].payload
    /\ Honest(row)
    /\ recs \cap {"PASS", "FAIL"} # {} =>
         apps[a].status = "SUBMITTED" /\ row.status # "SUBMITTED"

NothingCurrent(o) ==
    \A a \in AppIds : apps[a].organisation = o => apps[a].status \notin Current

Proposes(p) ==
    /\ p.op = "insert" => NothingCurrent(p.row.organisation)
    /\ p.op \in {"update", "write"} => NextRow(p.app, p.row, p.records)
    /\ p.op = "write" => Merge(apps[p.app], p.row, p.changed) = p.row
    /\ p.op \in {"score", "reread"} => apps[p.app].status = "SUBMITTED"

SerialInv ==
    /\ IInv
    /\ \A a \in AppIds : RowStands(apps[a], scorings[a])
    /\ OneCurrentPerOrganisation
    /\ \A w \in Workers : Proposes(pending[w])
\* The newest of an organisation's applications under way is the one found.
LEMMA NoneFoundNoneCurrent ==
    ASSUME NEW o, CurrentOf(o) = {}
    PROVE  NothingCurrent(o)
<1> DEFINE T == {a \in AppIds : apps[a].organisation = o /\ apps[a].status \in Current}
           Above(a) == {b \in T : b > a}
<1>1. T \subseteq AppIds /\ AppIds \subseteq Nat /\ IsFiniteSet(AppIds)
  BY ConstantsAssumption
<1>2. \A a \in T : \E b \in T : b > a
  BY DEF CurrentOf
<1> HIDE DEF T
<1>3. IsFiniteSet(T)
  BY <1>1, FS_Subset
<1>4. \A a \in T : /\ IsFiniteSet(Above(a)) /\ Cardinality(Above(a)) \in Nat
                   /\ Above(a) \subseteq T
  BY <1>3, FS_Subset, FS_CardinalityType
<1>5. SUFFICES ASSUME T # {} PROVE FALSE
  BY DEF T, NothingCurrent
<1> DEFINE Sizes == {Cardinality(Above(a)) : a \in T}
           R == OpToRel(<, Nat)
<1>6. Sizes \subseteq Nat /\ Sizes # {}
  BY <1>4, <1>5
<1>7. IsWellFoundedOn(R, Nat)
  BY NatLessThanWellFounded
<1>8. PICK n \in Sizes : \A m \in Sizes : <<m, n>> \notin R
  <2> HIDE DEF Sizes, R
  <2> QED
    BY <1>6, <1>7, WFMin
<1>9. \A m \in Sizes : ~(m < n)
  BY <1>6, <1>8 DEF OpToRel
<1>10. PICK a \in T : n = Cardinality(Above(a))
  BY <1>8
<1>11. PICK b \in T : b > a
  BY <1>2
<1>12. /\ Above(b) \in SUBSET Above(a) /\ Above(b) # Above(a)
  <2>1. a \in Nat /\ b \in Nat /\ T \subseteq Nat
    BY <1>1
  <2>2. Above(b) \subseteq Above(a)
    <3>1. \A c \in T : c > b => c > a
      BY <1>11, <2>1
    <3> QED
      BY <3>1
  <2>3. b \in Above(a) /\ b \notin Above(b)
    BY <1>11, <2>1
  <2> QED
    BY <2>2, <2>3
<1>13. Cardinality(Above(b)) < Cardinality(Above(a))
  <2>1. /\ Cardinality(Above(b)) <= Cardinality(Above(a))
        /\ Cardinality(Above(b)) # Cardinality(Above(a))
    BY <1>4, <1>12, FS_Subset
  <2> HIDE DEF Above
  <2> QED
    BY <1>4, <2>1
<1> QED
  BY <1>9, <1>10, <1>13

\* Merging into the row that was compared gives the entity.
LEMMA MergeChanged ==
    ASSUME NEW old \in Row, NEW new \in Row, new.organisation = old.organisation
    PROVE  Merge(old, new, Changed(old, new)) = new
<1>1. /\ Merge(old, new, Changed(old, new)).status = new.status
      /\ Merge(old, new, Changed(old, new)).organisation = new.organisation
      /\ Merge(old, new, Changed(old, new)).payload = new.payload
      /\ Merge(old, new, Changed(old, new)).overridden = new.overridden
  BY DEF Merge, Changed, Columns
<1>2. Merge(old, new, Changed(old, new)) \in Row
  BY DEF Merge, Row
<1> QED
  BY <1>1, <1>2 DEF Row

\* The one worker turns to p, and no row changes.
Turns(w, p) ==
    pending' = [pending EXCEPT ![w] = p] /\ UNCHANGED <<apps, scorings>>

WithStatus(a, s) == [apps[a] EXCEPT !.status = s]

LEMMA TurnsTo ==
    ASSUME SerialInv, IInv', NEW w, Workers = {w}, NEW p,
           Turns(w, p), Proposes(p)
    PROVE  SerialInv'
<1>1. pending'[w] = p
  BY DEF SerialInv, IInv, TypeOK, Turns
<1>2. Proposes(pending[w])'
  BY <1>1 DEF Proposes, NextRow, NothingCurrent, Turns
<1> QED
  BY <1>2 DEF Turns, SerialInv, OneCurrentPerOrganisation

LEMMA IdleProposes == Proposes(Idle)
BY DEF Proposes, Idle

LEMMA UpdateProposes ==
    ASSUME SerialInv, IInv', NEW w, Workers = {w}, NEW a, NEW row, NEW recs, NEW then,
           Turns(w, Update(a, row, recs, then)), NextRow(a, row, recs)
    PROVE  SerialInv'
<1>1. Proposes(Update(a, row, recs, then))
  BY DEF Proposes, Update
<1> QED
  BY <1>1, TurnsTo

\* Only the status is assigned, along an edge, of a row that is no override.
LEMMA StatusProposes ==
    ASSUME SerialInv, IInv', NEW w, Workers = {w}, NEW a \in AppIds, NEW s \in Status,
           NEW recs, NEW then,
           Turns(w, Update(a, WithStatus(a, s), recs, then)),
           apps[a].status # "ABSENT", Follows(apps[a].status, s),
           s = "IN_CRC_REVIEW" \/ apps[a].status \in {"DRAFT", "SUBMITTED", "SCORED_FAIL"},
           recs \cap {"PASS", "FAIL"} # {} =>
             apps[a].status = "SUBMITTED" /\ s # "SUBMITTED"
    PROVE  SerialInv'
<1> DEFINE new == WithStatus(a, s)
<1>1. apps[a] \in Row /\ Honest(apps[a])
  BY DEF SerialInv, IInv, TypeOK, RowStands
<1>2. /\ new.status = s /\ new.organisation = apps[a].organisation
      /\ new.payload = apps[a].payload /\ new.overridden = apps[a].overridden
  BY <1>1 DEF Row, WithStatus
<1>3. Turns(w, Update(a, new, recs, then))
  OBVIOUS
<1> HIDE DEF new
<1>4. NextRow(a, new, recs)
  BY <1>1, <1>2 DEF NextRow, Honest
<1> QED
  BY <1>3, <1>4, UpdateProposes

LEMMA ApplicantProposes ==
    ASSUME SerialInv, IInv', NEW w, Workers = {w}, NEW o \in Organisations,
           GetOrCreateDraft(w, o) \/ SaveDraft(w, o) \/ Submit(w, o)
    PROVE  SerialInv'
<1>1. CASE GetOrCreateDraft(w, o)
  <2> DEFINE p == [op |-> "insert", row |-> DraftRow(o)]
  <2>1. Turns(w, p)
    BY <1>1 DEF Turns, GetOrCreateDraft, Begin, data
  <2>2. NothingCurrent(o)
    BY <1>1, NoneFoundNoneCurrent DEF GetOrCreateDraft
  <2>3. Proposes(p)
    BY <2>2 DEF Proposes, DraftRow
  <2> HIDE DEF p
  <2> QED
    BY <2>1, <2>3, TurnsTo
<1>2. CASE SaveDraft(w, o)
  <2>1. PICK a \in CurrentOf(o), p \in Payloads :
          /\ apps[a].status = "DRAFT"
          /\ Begin(w, Update(a, [apps[a] EXCEPT !.payload = p], {}, "idle"))
    BY <1>2 DEF SaveDraft
  <2> DEFINE new == [apps[a] EXCEPT !.payload = p]
  <2>2. a \in AppIds /\ apps[a] \in Row /\ Honest(apps[a])
    BY CurrentOfApps DEF SerialInv, IInv, TypeOK, RowStands
  <2>3. /\ new.status = apps[a].status /\ new.organisation = apps[a].organisation
        /\ new.overridden = apps[a].overridden
    BY <2>2 DEF Row
  <2>4. Turns(w, Update(a, new, {}, "idle"))
    BY <2>1 DEF Turns, Begin, data
  <2> HIDE DEF new
  <2>5. NextRow(a, new, {})
    BY <2>1, <2>2, <2>3 DEF NextRow, Follows, Honest
  <2> QED
    BY <2>4, <2>5, UpdateProposes
<1>3. CASE Submit(w, o)
  <2>1. PICK a \in CurrentOf(o) :
          /\ apps[a].status = "DRAFT"
          /\ Begin(w, Update(a, [apps[a] EXCEPT !.status = "SUBMITTED"], {}, "try"))
    BY <1>3 DEF Submit
  <2>2. a \in AppIds /\ Follows("DRAFT", "SUBMITTED")
    BY CurrentOfApps DEF Follows, LifecycleEdges
  <2>3. Turns(w, Update(a, WithStatus(a, "SUBMITTED"), {}, "try"))
    BY <2>1 DEF Turns, WithStatus, Begin, data
  <2> QED
    BY <2>1, <2>2, <2>3, StatusProposes
<1> QED
  BY <1>1, <1>2, <1>3

LEMMA FunderProposes ==
    ASSUME SerialInv, IInv', NEW w, Workers = {w}, NEW a \in AppIds,
           \/ OverrideFailToPass(w, a) \/ CloseOnEngagementBreach(w, a)
           \/ IntoReview(w, a)
    PROVE  SerialInv'
<1>1. CASE OverrideFailToPass(w, a)
  <2> DEFINE new  == [apps[a] EXCEPT !.status = "SCORED_PASS", !.overridden = TRUE]
             recs == {"STATUS_OVERRIDDEN", "SLA_CANCEL"}
                       \cup (IF category[a] = "absent" THEN {} ELSE {"OVERRIDDEN_TO_PASS"})
  <2>1. apps[a] \in Row /\ apps[a].status = "SCORED_FAIL"
    BY <1>1 DEF SerialInv, IInv, TypeOK, OverrideFailToPass
  <2>2. /\ new.status = "SCORED_PASS" /\ new.organisation = apps[a].organisation
        /\ new.payload = apps[a].payload
    BY <2>1 DEF Row
  <2>3. recs \cap {"PASS", "FAIL"} = {}
    OBVIOUS
  <2>4. Turns(w, Update(a, new, recs, "idle"))
    BY <1>1 DEF Turns, OverrideFailToPass, Begin, data
  <2> HIDE DEF new, recs
  <2>5. NextRow(a, new, recs)
    BY <2>1, <2>2, <2>3 DEF NextRow, Follows, LifecycleEdges, Honest
  <2> QED
    BY <2>4, <2>5, UpdateProposes
<1>2. CASE CloseOnEngagementBreach(w, a)
  <2>1. /\ apps[a].status = "SCORED_FAIL"
        /\ Follows("SCORED_FAIL", "CLOSED_ARCHIVED")
    BY <1>2 DEF CloseOnEngagementBreach, Follows, LifecycleEdges
  <2>2. Turns(w, Update(a, WithStatus(a, "CLOSED_ARCHIVED"), {}, "idle"))
    BY <1>2 DEF Turns, WithStatus, CloseOnEngagementBreach, Begin, data
  <2> QED
    BY <2>1, <2>2, StatusProposes
<1>3. CASE IntoReview(w, a)
  <2>1. apps[a].status # "ABSENT" /\ Follows(apps[a].status, "IN_CRC_REVIEW")
    BY <1>3 DEF IntoReview, Follows, LifecycleEdges
  <2>2. Turns(w, Update(a, WithStatus(a, "IN_CRC_REVIEW"), {}, "idle"))
    BY <1>3 DEF Turns, WithStatus, IntoReview, Begin, data
  <2> QED
    BY <2>1, <2>2, StatusProposes
<1> QED
  BY <1>1, <1>2, <1>3

\* A run that goes on from the guard of tryScore has a submitted application.
LEMMA ScoringProposes ==
    ASSUME SerialInv, IInv', NEW w, Workers = {w},
           CronNext(w) \/ TryScore(w) \/ Score(w) \/ Reread(w)
    PROVE  SerialInv'
<1> DEFINE a == pending[w].app
<1>1. CASE CronNext(w)
  <2>1. PICK b : Turns(w, [op |-> "try", app |-> b])
    BY <1>1 DEF CronNext, Turns, data
  <2>2. Proposes([op |-> "try", app |-> b])
    BY DEF Proposes
  <2> QED
    BY <2>1, <2>2, TurnsTo
<1>2. CASE TryScore(w)
  <2>1. CASE apps[a].status # "SUBMITTED"
    BY <1>2, <2>1, IdleProposes, TurnsTo DEF Turns, TryScore, Go, data
  <2>2. CASE apps[a].status = "SUBMITTED"
    <3>1. Proposes([op |-> "score", app |-> a])
      BY <2>2 DEF Proposes
    <3> QED
      BY <1>2, <2>2, <3>1, TurnsTo DEF Turns, TryScore, Go
  <2> QED
    BY <2>1, <2>2
<1>3. CASE Score(w)
  <2>1. CASE a \notin scorable
    BY <1>3, <2>1, IdleProposes, TurnsTo DEF Turns, Score, Go, data
  <2>2. CASE a \in scorable
    <3>1. Proposes(pending[w])
      BY DEF SerialInv
    <3>2. Proposes([op |-> "reread", app |-> a])
      BY <1>3, <3>1 DEF Proposes, Score
    <3> QED
      BY <1>3, <2>2, <3>2, TurnsTo DEF Turns, Score, Go
  <2> QED
    BY <2>1, <2>2
<1>4. CASE Reread(w)
  <2> DEFINE s    == IF Passed(a) THEN "SCORED_PASS" ELSE "SCORED_FAIL"
             recs == IF Passed(a) THEN {"PASS"} ELSE {"FAIL", "SLA_START"}
  <2>1. a \in AppIds /\ pending[w].op = "reread"
    BY <1>4 DEF SerialInv, IInv, TypeOK, Reread, Pending, Idle
  <2>2. apps[a].status = "SUBMITTED"
    BY <2>1 DEF SerialInv, Proposes
  <2>3. s \in Status /\ Follows("SUBMITTED", s) /\ s # "SUBMITTED"
    BY DEF Follows, LifecycleEdges
  <2>4. Turns(w, Update(a, WithStatus(a, s), recs, "idle"))
    BY <1>4 DEF Turns, WithStatus, Reread, Go, Verdict, data
  <2> HIDE DEF a, s, recs
  <2> QED
    BY <2>1, <2>2, <2>3, <2>4, StatusProposes
<1> QED
  BY <1>1, <1>2, <1>3, <1>4

\* What one step may do to a row.
RowMoves(a) ==
    /\ Follows(apps[a].status, apps'[a].status)
    /\ apps[a].status \notin {"ABSENT", "DRAFT"} => apps'[a].payload = apps[a].payload

LEMMA InsertInOrder ==
    ASSUME SerialInv, IInv', NEW w, Workers = {w}, Insert(w)
    PROVE  SerialInv' /\ \A a \in AppIds : RowMoves(a)
<1> DEFINE p == pending[w]
<1>1. /\ p \in Pending /\ PendingOK(p) /\ Proposes(p) /\ p.op = "insert"
      /\ apps \in [AppIds -> Row]
  BY DEF SerialInv, IInv, TypeOK, Insert
<1>2. p.row.status = "DRAFT" /\ p.row.overridden = FALSE /\ NothingCurrent(p.row.organisation)
  BY <1>1 DEF PendingOK, Proposes
<1>3. PICK a \in AppIds : NextId(a) /\ apps' = [apps EXCEPT ![a] = p.row]
  BY DEF Insert
<1>4. /\ apps'[a] = p.row /\ apps[a].status = "ABSENT"
      /\ \A b \in AppIds : b # a => apps'[b] = apps[b]
      /\ scorings' = scorings
  BY <1>1, <1>3 DEF NextId, Insert
<1>5. pending'[w] = Idle
  BY DEF SerialInv, IInv, TypeOK, Insert, Go
<1> HIDE DEF p
<1>6. ASSUME NEW b \in AppIds PROVE RowMoves(b) /\ RowStands(apps'[b], scorings'[b])
  <2>1. RowStands(apps[b], scorings[b]) /\ scorings[b] \in 0..2
    BY DEF SerialInv, IInv, TypeOK
  <2>2. CASE b = a
    BY <1>2, <1>4, <2>1, <2>2 DEF RowMoves, RowStands, Honest, Follows, LifecycleEdges
  <2>3. CASE b # a
    BY <1>4, <2>1, <2>3 DEF RowMoves, RowStands, Follows
  <2> QED
    BY <2>2, <2>3
<1>7. OneCurrentPerOrganisation'
  BY <1>2, <1>4 DEF SerialInv, OneCurrentPerOrganisation, NothingCurrent
<1>8. Proposes(pending[w])'
  BY <1>5 DEF Proposes, Idle
<1> QED
  BY <1>6, <1>7, <1>8 DEF SerialInv

LEMMA CommitInOrder ==
    ASSUME SerialInv, IInv', NEW w, Workers = {w}, Commit(w)
    PROVE  SerialInv' /\ \A a \in AppIds : RowMoves(a)
<1> DEFINE p == pending[w]
<1>1. /\ p \in Pending /\ Proposes(p) /\ p.op = "write" /\ apps \in [AppIds -> Row]
      /\ scorings \in [AppIds -> 0..2]
  BY DEF SerialInv, IInv, TypeOK, Commit
<1>2. p.app \in AppIds
  BY <1>1 DEF Pending, Idle
<1>3. /\ NextRow(p.app, p.row, p.records)
      /\ apps' = [apps EXCEPT ![p.app] = p.row]
  BY <1>1 DEF Proposes, Commit
<1>4. scorings' = IF p.records \cap {"PASS", "FAIL"} = {} THEN scorings
                  ELSE [scorings EXCEPT ![p.app] = AtMostTwo(scorings[p.app] + 1)]
  BY DEF Commit
<1>5. pending'[w].op \in {"try", "idle"}
  BY DEF SerialInv, IInv, TypeOK, Commit, Go, Idle
<1> HIDE DEF p
<1>6. apps'[p.app] = p.row /\ \A b \in AppIds : b # p.app => apps'[b] = apps[b]
  BY <1>1, <1>2, <1>3
<1>7. RowStands(apps[p.app], scorings[p.app]) /\ scorings[p.app] \in 0..2
  BY <1>1, <1>2 DEF SerialInv
<1>8. RowStands(p.row, scorings'[p.app])
  <2>1. CASE p.records \cap {"PASS", "FAIL"} = {}
    <3>1. p.row.status \in {"ABSENT", "DRAFT", "SUBMITTED"} =>
            apps[p.app].status \in {"ABSENT", "DRAFT", "SUBMITTED"}
      BY <1>3 DEF NextRow, Follows, LifecycleEdges
    <3> QED
      BY <1>3, <1>4, <1>7, <2>1, <3>1 DEF RowStands, NextRow
  <2>2. CASE p.records \cap {"PASS", "FAIL"} # {}
    <3>1. apps[p.app].status = "SUBMITTED" /\ p.row.status # "SUBMITTED"
          /\ Follows("SUBMITTED", p.row.status) /\ Honest(p.row)
      BY <1>3, <2>2 DEF NextRow
    <3>2. scorings[p.app] = 0
      BY <1>7, <3>1 DEF RowStands
    <3>3. scorings'[p.app] = 1
      BY <1>1, <1>2, <1>4, <2>2, <3>2 DEF AtMostTwo
    <3> QED
      BY <3>1, <3>3 DEF RowStands, Follows, LifecycleEdges
  <2> QED
    BY <2>1, <2>2
<1>9. ASSUME NEW b \in AppIds PROVE RowMoves(b) /\ RowStands(apps'[b], scorings'[b])
  <2>1. CASE b = p.app
    <3>1. apps[b].status \notin {"ABSENT", "DRAFT"} => apps'[b].payload = apps[b].payload
      BY <1>3, <1>6, <2>1 DEF NextRow
    <3> QED
      BY <1>3, <1>6, <1>8, <2>1, <3>1 DEF RowMoves, NextRow
  <2>2. CASE b # p.app
    <3>1. RowStands(apps[b], scorings[b]) /\ scorings'[b] = scorings[b]
      BY <1>1, <1>4, <2>2 DEF SerialInv
    <3> QED
      BY <1>6, <2>2, <3>1 DEF RowMoves, Follows
  <2> QED
    BY <2>1, <2>2
<1>10. OneCurrentPerOrganisation'
  <2>1. /\ p.row.organisation = apps[p.app].organisation
        /\ p.row.status \in Current => apps[p.app].status \in Current
    BY <1>3 DEF NextRow, Follows, LifecycleEdges
  <2>2. \A b \in AppIds : /\ apps'[b].organisation = apps[b].organisation
                          /\ apps'[b].status \in Current => apps[b].status \in Current
    BY <1>6, <2>1
  <2> HIDE DEF Current
  <2> QED
    BY <2>2 DEF SerialInv, OneCurrentPerOrganisation
<1>11. Proposes(pending[w])'
  BY <1>5 DEF Proposes
<1> QED
  BY <1>9, <1>10, <1>11 DEF SerialInv

LEMMA CompareProposes ==
    ASSUME SerialInv, IInv', NEW w, Workers = {w}, Compare(w)
    PROVE  SerialInv'
<1> DEFINE p == pending[w]
           q == [op |-> "write", app |-> p.app, row |-> p.row,
                 changed |-> Changed(apps[p.app], p.row),
                 records |-> p.records, then |-> p.then]
<1>1. /\ p \in Pending /\ Proposes(p) /\ p.op = "update" /\ apps \in [AppIds -> Row]
  BY DEF SerialInv, IInv, TypeOK, Compare
<1>2. p.app \in AppIds /\ p.row \in Row
  BY <1>1 DEF Pending, Idle
<1>3. NextRow(p.app, p.row, p.records)
  BY <1>1 DEF Proposes
<1>4. Merge(apps[p.app], p.row, Changed(apps[p.app], p.row)) = p.row
  BY <1>1, <1>2, <1>3, MergeChanged DEF NextRow
<1>5. Turns(w, q)
  BY DEF Turns, Compare, Go, data
<1>6. Proposes(q)
  <2> HIDE DEF p
  <2> QED
    BY <1>3, <1>4 DEF Proposes
<1> HIDE DEF q
<1> QED
  BY <1>5, <1>6, TurnsTo

LEMMA SerialStep ==
    ASSUME SerialInv, IInv', NEW w, Workers = {w}, [Next]_vars
    PROVE  SerialInv' /\ \A a \in AppIds : RowMoves(a)
<1>1. apps' = apps => \A a \in AppIds : RowMoves(a)
  BY DEF RowMoves, Follows
<1>2. CASE Insert(w) \/ Commit(w)
  BY <1>2, InsertInOrder, CommitInOrder
<1>3. CASE CronNext(w) \/ TryScore(w) \/ Score(w) \/ Reread(w)
  <2>1. SerialInv'
    BY <1>3, ScoringProposes
  <2>2. apps' = apps
    BY <1>3 DEF CronNext, TryScore, Score, Reread, data
  <2> QED
    BY <1>1, <2>1, <2>2
<1>4. CASE Compare(w)
  BY <1>1, <1>4, CompareProposes DEF Compare, data
<1>5. CASE Abort(w)
  BY <1>1, <1>5, IdleProposes, TurnsTo DEF Turns, Abort, data
<1>6. CASE CronList(w) \/ UNCHANGED vars
  <2>1. UNCHANGED <<apps, scorings, pending>>
    BY <1>6 DEF CronList, vars, data
  <2>2. SerialInv'
    BY <2>1 DEF SerialInv, OneCurrentPerOrganisation, Proposes, NextRow, NothingCurrent
  <2> QED
    BY <1>1, <2>1, <2>2
<1>7. ASSUME NEW o \in Organisations,
             GetOrCreateDraft(w, o) \/ SaveDraft(w, o) \/ Submit(w, o)
      PROVE  SerialInv' /\ apps' = apps
  <2>1. SerialInv'
    BY <1>7, ApplicantProposes
  <2> QED
    BY <1>7, <2>1 DEF GetOrCreateDraft, SaveDraft, Submit, Begin, data
<1>8. ASSUME NEW a \in AppIds,
             \/ OverrideFailToPass(w, a) \/ CloseOnEngagementBreach(w, a)
             \/ IntoReview(w, a)
      PROVE  SerialInv' /\ apps' = apps
  <2>1. SerialInv'
    BY <1>8, FunderProposes
  <2> QED
    BY <1>8, <2>1 DEF OverrideFailToPass, CloseOnEngagementBreach, IntoReview, Begin, data
<1>9. CASE Step(w)
  BY <1>1, <1>2, <1>3, <1>4, <1>5, <1>6, <1>7, <1>8, <1>9 DEF Step, Proceed
<1> QED
  BY <1>6, <1>9 DEF Next

LEMMA SerialInductive ==
    ASSUME NEW w, Workers = {w}
    PROVE  Spec => []SerialInv
<1>1. Init /\ IInv => SerialInv
  BY DEF Init, SerialInv, AbsentRow, RowStands, Honest, OneCurrentPerOrganisation,
     Proposes, Idle
<1>2. SerialInv /\ IInv' /\ [Next]_vars => SerialInv'
  BY SerialStep
<1> QED
  BY <1>1, <1>2, Inductive, PTL DEF Spec

\* Work that does not overlap scores an application once, and an override
\* stands (tryScore's guard, overrideFailToPass).
THEOREM VerdictStandsSerially ==
    ASSUME NEW w, Workers = {w}
    PROVE  Spec => []VerdictStands
<1>1. SerialInv => VerdictStands
  BY DEF SerialInv, RowStands, Honest, VerdictStands, OverrideStands, ScoredOnce
<1> QED
  BY <1>1, SerialInductive, PTL

\* ... leaves an organisation with one application under way (findCurrent).
THEOREM OneCurrentSerially ==
    ASSUME NEW w, Workers = {w}
    PROVE  Spec => []OneCurrentPerOrganisation
<1>1. SerialInv => OneCurrentPerOrganisation
  BY DEF SerialInv
<1> QED
  BY <1>1, SerialInductive, PTL

\* ... moves every application along the lifecycle of its enum.
THEOREM LifecycleSerially ==
    ASSUME NEW w, Workers = {w}
    PROVE  Spec => LifecycleIsFollowed
<1>1. SerialInv /\ IInv' /\ [Next]_vars =>
        [\A a \in AppIds : \/ apps'[a].status = apps[a].status
                           \/ <<apps[a].status, apps'[a].status>> \in LifecycleEdges]_vars
  BY SerialStep DEF RowMoves, Follows
<1> QED
  BY <1>1, SerialInductive, Inductive, PTL DEF Spec, LifecycleIsFollowed

\* ... and keeps the payload that was submitted (saveDraft's guard).
THEOREM FrozenSerially ==
    ASSUME NEW w, Workers = {w}
    PROVE  Spec => SubmittedIsFrozen
<1>1. SerialInv /\ IInv' /\ [Next]_vars =>
        [\A a \in AppIds : apps[a].status \notin {"ABSENT", "DRAFT"} =>
                              apps'[a].payload = apps[a].payload]_vars
  BY SerialStep DEF RowMoves
<1> QED
  BY <1>1, SerialInductive, Inductive, PTL DEF Spec, SubmittedIsFrozen
=============================================================================
