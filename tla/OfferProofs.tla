----------------------------- MODULE OfferProofs -----------------------------
(***************************************************************************)
(* Proofs about Offer, for any number of offers, people and terms: first   *)
(* what holds of any number of requests in flight, then what one request   *)
(* at a time keeps.                                                        *)
(***************************************************************************)
EXTENDS Offer, FiniteSetTheorems, TLAPS

USE DEF Status, PostApproval, Kinds

-----------------------------------------------------------------------------
(* The induction.  A save merges columns of an entity read long ago into   *)
(* whatever the row has become, so no two columns of a row can be relied   *)
(* on together.  What survives any overlap is what each column says alone: *)
(* a status is vouched for by records, records are only ever added, and a  *)
(* signature is compared with the maker, who never changes.                *)

Holds(R, kind) == \E x \in R : x.kind = kind

\* The records R vouch for the status s.
Vouched(s, R) ==
    /\ s \in PostApproval => /\ Holds(R, "OFFER_APPROVED_SENT")
                             /\ Holds(R, "CRA_CANCEL")
                             /\ Holds(R, "ACCEPTANCE_START")
    /\ s \in {"ACCEPTED", "DECLINED"} => Holds(R, "ACCEPTANCE_CANCEL")
    /\ s = "ACCEPTED" => Holds(R, "ACCEPTED") \/ Holds(R, "RM_RESOLVED")

Onboarded(R) ==
    Holds(R, "CLIENT_ONBOARDED") =>
        /\ Holds(R, "OFFER_APPROVED_SENT")
        /\ Holds(R, "ACCEPTED") \/ Holds(R, "RM_RESOLVED")

Existing(row) ==
    /\ row.status # "ABSENT"
    /\ row.maker \in Persons /\ row.terms \in Terms
    /\ row.maker \notin {row.checker, row.approver}

RowOK(row, R) ==
    /\ row.status # "ABSENT" => Existing(row)
    /\ row.status = "ABSENT" => row.maker = NONE
    /\ Vouched(row.status, R)
    /\ Onboarded(R)

\* An entity that is to be merged into the row of offer o.
EntityOK(o, row, recs) ==
    /\ Existing(offers[o]) /\ Existing(row)
    /\ row.maker = offers[o].maker
    /\ Vouched(row.status, records[o] \cup recs)
    /\ Onboarded(records[o] \cup recs)

PendingOK(p) ==
    /\ p.op \in {"update", "write"} => EntityOK(p.offer, p.row, p.records)
    /\ p.op = "insert" => /\ Existing(p.row) /\ p.row.status = "DRAFT"
                          /\ p.row.application \in Applications
                          /\ \A x \in p.records : x.kind = "CRA_START"

IInv ==
    /\ TypeOK
    /\ \A o \in Offers : RowOK(offers[o], records[o])
    /\ \A r \in Requests : PendingOK(pending[r])

\* More records vouch for no less, and an onboarding among them is still backed.
LEMMA VouchedGrows ==
    ASSUME NEW s, NEW R, NEW S, R \subseteq S, Vouched(s, R)
    PROVE  Vouched(s, S)
BY DEF Vouched, Holds

LEMMA OnboardedGrows ==
    ASSUME NEW R, NEW S, Onboarded(R), Onboarded(S)
    PROVE  Onboarded(R \cup S)
BY DEF Onboarded, Holds

\* The records of a transaction that onboards nobody.
LEMMA OnboardsNobody ==
    ASSUME NEW R, NEW S, Onboarded(R), \A x \in S : x.kind # "CLIENT_ONBOARDED"
    PROVE  Onboarded(R \cup S)
BY DEF Onboarded, Holds

LEMMA RecordTypes ==
    ASSUME NEW kind \in Kinds, NEW p \in Persons, NEW t \in Terms
    PROVE  By(kind, p, t) \in SUBSET Record
BY DEF By, Record

LEMMA OfTypes ==
    ASSUME NEW kind \in Kinds, NEW t \in Terms
    PROVE  Of(kind, t) \in SUBSET Record
BY DEF By, Of, Record

\* What By and Of hold, and nothing else.
LEMMA RecordKinds ==
    ASSUME NEW kind, NEW p, NEW t
    PROVE  /\ Holds(By(kind, p, t), kind) /\ Holds(Of(kind, t), kind)
           /\ \A x \in By(kind, p, t) \cup Of(kind, t) : x.kind = kind
BY DEF Holds, By, Of

\* Assigning fields of a row gives a row, with the other fields as they were.
LEMMA RowStatus ==
    ASSUME NEW row \in Row, NEW s \in Status
    PROVE  /\ [row EXCEPT !.status = s] \in Row
           /\ [row EXCEPT !.status = s].status = s
           /\ [row EXCEPT !.status = s].maker = row.maker
           /\ [row EXCEPT !.status = s].checker = row.checker
           /\ [row EXCEPT !.status = s].approver = row.approver
           /\ [row EXCEPT !.status = s].terms = row.terms
BY DEF Row

LEMMA RowFee ==
    ASSUME NEW row \in Row, NEW p \in Persons
    PROVE  /\ [row EXCEPT !.feeConfirmedBy = p] \in Row
           /\ [row EXCEPT !.feeConfirmedBy = p].status = row.status
           /\ [row EXCEPT !.feeConfirmedBy = p].maker = row.maker
           /\ [row EXCEPT !.feeConfirmedBy = p].checker = row.checker
           /\ [row EXCEPT !.feeConfirmedBy = p].approver = row.approver
           /\ [row EXCEPT !.feeConfirmedBy = p].terms = row.terms
BY DEF Row

LEMMA RowTerms ==
    ASSUME NEW row \in Row, NEW t \in Terms
    PROVE  /\ [row EXCEPT !.terms = t] \in Row
           /\ [row EXCEPT !.terms = t].status = row.status
           /\ [row EXCEPT !.terms = t].maker = row.maker
           /\ [row EXCEPT !.terms = t].checker = row.checker
           /\ [row EXCEPT !.terms = t].approver = row.approver
           /\ [row EXCEPT !.terms = t].terms = t
BY DEF Row

-----------------------------------------------------------------------------
(* Lookups: what a handler is about to write is in order. *)

LEMMA BeginKeeps ==
    ASSUME IInv, NEW r \in Requests, NEW p \in Pending, PendingOK(p), Begin(r, p)
    PROVE  IInv'
<1>1. TypeOK'
  BY DEF IInv, TypeOK, Begin
<1>2. \A x \in Requests : PendingOK(pending'[x])
  BY DEF IInv, TypeOK, Begin
<1> QED
  BY <1>1, <1>2 DEF IInv, Begin, PendingOK, EntityOK

LEMMA UpdateKeeps ==
    ASSUME IInv, NEW r \in Requests, NEW o \in Offers, NEW row \in Row,
           NEW recs \in SUBSET Record, EntityOK(o, row, recs),
           Begin(r, Update(o, row, recs))
    PROVE  IInv'
<1>1. Update(o, row, recs) \in Pending
  BY DEF Update, Pending
<1>2. PendingOK(Update(o, row, recs))
  BY DEF Update, PendingOK
<1> QED
  BY <1>1, <1>2, BeginKeeps

LEMMA CreateKeeps ==
    ASSUME ConstantsAssumption, IInv, NEW r \in Requests, NEW p \in Persons,
           NEW a \in Applications, Create(r, p, a)
    PROVE  IInv'
<1>1. PICK t \in Terms : Begin(r, [op |-> "insert", row |-> DraftRow(p, a, t),
                                   records |-> Of("CRA_START", t)])
  BY DEF Create
<1> DEFINE row  == DraftRow(p, a, t)
           recs == Of("CRA_START", t)
<1>2. row \in Row
  BY DEF Row, DraftRow
<1>3. recs \in SUBSET Record
  BY OfTypes
<1>4. Existing(row) /\ row.status = "DRAFT" /\ row.application \in Applications
  BY DEF Existing, DraftRow, ConstantsAssumption
<1>5. \A x \in recs : x.kind = "CRA_START"
  BY RecordKinds
<1>6. [op |-> "insert", row |-> row, records |-> recs] \in Pending
  <2> HIDE DEF row, recs
  <2> QED
    BY <1>2, <1>3 DEF Pending
<1>7. PendingOK([op |-> "insert", row |-> row, records |-> recs])
  <2> HIDE DEF row, recs
  <2> QED
    BY <1>4, <1>5 DEF PendingOK
<1> QED
  BY <1>1, <1>6, <1>7, BeginKeeps

\* The status moves on, with the records the new one needs.
LEMMA StatusKeeps ==
    ASSUME IInv, NEW r \in Requests, NEW o \in Offers, NEW s \in Status \ {"ABSENT"},
           NEW recs \in SUBSET Record, offers[o].status # "ABSENT",
           Vouched(s, records[o] \cup recs),
           \A x \in recs : x.kind # "CLIENT_ONBOARDED",
           Begin(r, Update(o, [offers[o] EXCEPT !.status = s], recs))
    PROVE  IInv'
<1> DEFINE new == [offers[o] EXCEPT !.status = s]
<1>1. offers[o] \in Row /\ RowOK(offers[o], records[o])
  BY DEF IInv, TypeOK
<1>2. /\ new \in Row /\ new.status = s /\ new.maker = offers[o].maker
      /\ new.checker = offers[o].checker /\ new.approver = offers[o].approver
      /\ new.terms = offers[o].terms
  BY <1>1, RowStatus
<1>3. Onboarded(records[o] \cup recs)
  BY <1>1, OnboardsNobody DEF RowOK
<1> HIDE DEF new
<1>4. EntityOK(o, new, recs)
  BY <1>1, <1>2, <1>3 DEF RowOK, Existing, EntityOK
<1> QED
  BY <1>2, <1>4, UpdateKeeps DEF new

\* The chain up to the check needs no records.
LEMMA DraftingKeeps ==
    ASSUME ConstantsAssumption, IInv, NEW r \in Requests, NEW o \in Offers,
           \/ Save(r, o) \/ Submit(r, o) \/ ReturnToDraft(r, o) \/ Reject(r, o)
           \/ \E p \in Persons : Check(r, o, p)
    PROVE  IInv'
<1> DEFINE row == offers[o]
<1>1. row \in Row /\ RowOK(row, records[o]) /\ records[o] \cup {} = records[o]
  BY DEF IInv, TypeOK
<1>2. ASSUME NEW new \in Row, NEW recs \in SUBSET Record, row.status # "ABSENT",
             Begin(r, Update(o, new, recs)), new.maker = row.maker,
             new.status \in {"DRAFT", "PENDING_CHECK", "CHECKED"},
             new.approver = row.approver, new.terms \in Terms,
             new.checker # row.maker,
             \A x \in recs : x.kind # "CLIENT_ONBOARDED"
      PROVE  IInv'
  <2>1. Onboarded(records[o] \cup recs)
    BY <1>1, <1>2, OnboardsNobody DEF RowOK
  <2>2. EntityOK(o, new, recs)
    BY <1>1, <1>2, <2>1 DEF RowOK, Existing, EntityOK, Vouched
  <2> QED
    BY <1>2, <2>2, UpdateKeeps
<1>3. row.status # "ABSENT" => row.checker # row.maker /\ row.terms \in Terms
  BY <1>1 DEF RowOK, Existing
<1>4. CASE Save(r, o)
  <2>1. PICK t \in Terms : Begin(r, Update(o, [row EXCEPT !.terms = t], {}))
    BY <1>4 DEF Save
  <2> DEFINE new == [row EXCEPT !.terms = t]
  <2>2. new \in Row /\ new.status = row.status /\ new.maker = row.maker
        /\ new.checker = row.checker /\ new.approver = row.approver /\ new.terms = t
    BY <1>1, RowTerms
  <2>3. row.status = "DRAFT"
    BY <1>4 DEF Save
  <2>4. Begin(r, Update(o, new, {}))
    BY <2>1
  <2> HIDE DEF new, row
  <2> QED
    BY <1>2, <1>3, <2>2, <2>3, <2>4
<1>5. CASE Submit(r, o)
  <2> DEFINE new == [row EXCEPT !.status = "PENDING_CHECK"]
  <2>1. new \in Row /\ new.status = "PENDING_CHECK" /\ new.maker = row.maker
        /\ new.checker = row.checker /\ new.approver = row.approver
        /\ new.terms = row.terms
    BY <1>1, RowStatus
  <2>2. row.status = "DRAFT" /\ Begin(r, Update(o, new, {}))
    BY <1>5 DEF Submit
  <2> HIDE DEF new, row
  <2> QED
    BY <1>2, <1>3, <2>1, <2>2
<1>6. CASE ReturnToDraft(r, o) \/ Reject(r, o)
  <2> DEFINE new == [row EXCEPT !.status = "DRAFT", !.checker = NONE]
  <2>1. new \in Row /\ new.status = "DRAFT" /\ new.maker = row.maker
        /\ new.checker = NONE /\ new.approver = row.approver
        /\ new.terms = row.terms
    BY <1>1 DEF Row
  <2>2. row.status \in {"PENDING_CHECK", "CHECKED"} /\ Begin(r, Update(o, new, {}))
    BY <1>6 DEF ReturnToDraft, Reject, BackToDraft
  <2>3. NONE # row.maker
    BY <1>1, <2>2 DEF RowOK, Existing, ConstantsAssumption
  <2> HIDE DEF new, row
  <2> QED
    BY <1>2, <1>3, <2>1, <2>2, <2>3
<1>7. ASSUME NEW p \in Persons, Check(r, o, p)
      PROVE  IInv'
  <2> DEFINE new  == [row EXCEPT !.status = "CHECKED", !.checker = p]
             recs == By("OFFER_CHECKED", p, row.terms)
  <2>1. new \in Row /\ new.status = "CHECKED" /\ new.maker = row.maker
        /\ new.checker = p /\ new.approver = row.approver /\ new.terms = row.terms
    BY <1>1 DEF Row
  <2>2. /\ row.status = "PENDING_CHECK" /\ row.maker # p
        /\ Begin(r, Update(o, new, recs))
    BY <1>7 DEF Check, CheckedRow
  <2>3. recs \in SUBSET Record
    BY <1>3, <2>2, RecordTypes
  <2>4. \A x \in recs : x.kind # "CLIENT_ONBOARDED"
    BY RecordKinds
  <2> HIDE DEF new, row, recs
  <2> QED
    BY <1>2, <1>3, <2>1, <2>2, <2>3, <2>4
<1> QED
  BY <1>4, <1>5, <1>6, <1>7

LEMMA ApproveKeeps ==
    ASSUME IInv, NEW r \in Requests, NEW o \in Offers, NEW p \in Persons,
           Approve(r, o, p)
    PROVE  IInv'
<1> DEFINE row  == offers[o]
           t    == offers[o].terms
           new  == [row EXCEPT !.status = "SENT", !.approver = p]
           recs == By("OFFER_APPROVED_SENT", p, t)
                     \cup Of("CRA_CANCEL", t) \cup Of("ACCEPTANCE_START", t)
<1>1. row \in Row /\ RowOK(row, records[o])
  BY DEF IInv, TypeOK
<1>2. /\ row.status = "CHECKED" /\ p \notin {row.maker, row.checker}
      /\ Begin(r, Update(o, new, recs))
  BY DEF Approve
<1>3. new \in Row /\ new.status = "SENT" /\ new.maker = row.maker
      /\ new.checker = row.checker /\ new.approver = p /\ new.terms = t
  BY <1>1 DEF Row
<1>4. Existing(row)
  BY <1>1, <1>2 DEF RowOK
<1>5. recs \in SUBSET Record
  <2>1. By("OFFER_APPROVED_SENT", p, t) \in SUBSET Record
    BY <1>4, RecordTypes DEF Existing
  <2>2. Of("CRA_CANCEL", t) \in SUBSET Record /\ Of("ACCEPTANCE_START", t) \in SUBSET Record
    BY <1>4, OfTypes DEF Existing
  <2> QED
    BY <2>1, <2>2
<1>6. /\ \A x \in recs : x.kind # "CLIENT_ONBOARDED"
      /\ Holds(recs, "OFFER_APPROVED_SENT") /\ Holds(recs, "CRA_CANCEL")
      /\ Holds(recs, "ACCEPTANCE_START")
  BY DEF By, Of, Holds
<1> HIDE DEF new, recs
<1>7. Onboarded(records[o] \cup recs)
  BY <1>1, <1>6, OnboardsNobody DEF RowOK
<1>8. Vouched("SENT", records[o] \cup recs)
  BY <1>6 DEF Vouched, Holds
<1>9. EntityOK(o, new, recs)
  BY <1>2, <1>3, <1>4, <1>7, <1>8 DEF EntityOK, Existing
<1> QED
  BY <1>2, <1>3, <1>5, <1>9, UpdateKeeps

LEMMA QuietKeeps ==
    ASSUME IInv, NEW r \in Requests, NEW o \in Offers,
           Close(r, o) \/ OnAcceptanceBreach(r, o)
    PROVE  IInv'
<1>1. PICK s \in {"CLOSED_ARCHIVED", "LAPSED"} :
        Begin(r, Update(o, [offers[o] EXCEPT !.status = s], {}))
  BY DEF Close, OnAcceptanceBreach
<1>2. offers[o].status \in PostApproval
  BY DEF Close, OnAcceptanceBreach
<1>3. Vouched(offers[o].status, records[o])
  BY DEF IInv, RowOK
<1>4. Vouched(s, records[o] \cup {})
  BY <1>2, <1>3 DEF Vouched
<1>5. \A x \in {} : x.kind # "CLIENT_ONBOARDED"
  OBVIOUS
<1> QED
  BY <1>1, <1>2, <1>4, <1>5, StatusKeeps

LEMMA RefreshKeeps ==
    ASSUME IInv, NEW r \in Requests, NEW o \in Offers, Refresh(r, o)
    PROVE  IInv'
<1> DEFINE recs == Of("ACCEPTANCE_START", offers[o].terms)
<1>1. offers[o].status = "LAPSED" /\ RowOK(offers[o], records[o])
      /\ Begin(r, Update(o, [offers[o] EXCEPT !.status = "SENT"], recs))
  BY DEF Refresh, IInv
<1>2. recs \in SUBSET Record
  BY <1>1, OfTypes DEF RowOK, Existing
<1>3. \A x \in recs : x.kind # "CLIENT_ONBOARDED"
  BY RecordKinds
<1> HIDE DEF recs
<1>4. Vouched("SENT", records[o])
  BY <1>1 DEF RowOK, Vouched
<1>5. Vouched("SENT", records[o] \cup recs)
  BY <1>4, VouchedGrows
<1> QED
  BY <1>1, <1>2, <1>3, <1>5, StatusKeeps

LEMMA AnswerKeeps ==
    ASSUME IInv, NEW r \in Requests, NEW o \in Offers,
           NEW decision \in {"ACCEPTED", "DECLINED"},
           NEW kind \in {"RM_RESOLVED", decision}, offers[o].status = "SENT",
           Begin(r, Update(o, [offers[o] EXCEPT !.status = decision],
                           Of(kind, offers[o].terms)
                             \cup Of("ACCEPTANCE_CANCEL", offers[o].terms)))
    PROVE  IInv'
<1> DEFINE t    == offers[o].terms
           recs == Of(kind, t) \cup Of("ACCEPTANCE_CANCEL", t)
<1>1. RowOK(offers[o], records[o])
  BY DEF IInv
<1>2. recs \in SUBSET Record
  <2>1. kind \in Kinds /\ t \in Terms
    BY <1>1 DEF RowOK, Existing
  <2>2. Of(kind, t) \in SUBSET Record /\ Of("ACCEPTANCE_CANCEL", t) \in SUBSET Record
    BY <2>1, OfTypes
  <2> QED
    BY <2>2
<1>3. /\ \A x \in recs : x.kind # "CLIENT_ONBOARDED"
      /\ Holds(recs, "ACCEPTANCE_CANCEL") /\ Holds(recs, kind)
  BY DEF By, Of, Holds
<1>4. Begin(r, Update(o, [offers[o] EXCEPT !.status = decision], recs))
  OBVIOUS
<1> HIDE DEF recs
<1>5. Vouched("SENT", records[o])
  BY <1>1 DEF RowOK
<1>6. Vouched(decision, records[o] \cup recs)
  BY <1>3, <1>5 DEF Vouched, Holds
<1>7. decision \in Status \ {"ABSENT"}
  OBVIOUS
<1> QED
  BY <1>2, <1>3, <1>4, <1>6, <1>7, StatusKeeps

LEMMA RespondKeeps ==
    ASSUME IInv, NEW r \in Requests, NEW a \in Applications,
           NEW decision \in {"ACCEPTED", "DECLINED"}, Respond(r, a, decision)
    PROVE  IInv'
<1>1. PICK o \in Offers :
        /\ offers[o].status = "SENT"
        /\ Begin(r, Update(o, [offers[o] EXCEPT !.status = decision],
                           Of(decision, offers[o].terms)
                             \cup Of("ACCEPTANCE_CANCEL", offers[o].terms)))
  BY DEF Respond, OwnOffer
<1> QED
  BY <1>1, AnswerKeeps

LEMMA ResolveKeeps ==
    ASSUME IInv, NEW r \in Requests, NEW o \in Offers,
           NEW decision \in {"ACCEPTED", "DECLINED"}, Resolve(r, o, decision)
    PROVE  IInv'
BY AnswerKeeps DEF Resolve

LEMMA ConfirmKeeps ==
    ASSUME IInv, NEW r \in Requests, NEW o \in Offers, NEW p \in Persons,
           ConfirmRegistrationFee(r, o, p)
    PROVE  IInv'
<1> DEFINE row  == offers[o]
           recs == By("CLIENT_ONBOARDED", p, row.terms)
           new  == [row EXCEPT !.feeConfirmedBy = p]
<1>1. row \in Row /\ RowOK(row, records[o])
  BY DEF IInv, TypeOK
<1>2. row.status = "ACCEPTED" /\ Begin(r, Update(o, new, recs))
  BY DEF ConfirmRegistrationFee
<1>3. new \in Row /\ new.status = row.status /\ new.maker = row.maker
      /\ new.checker = row.checker /\ new.approver = row.approver
      /\ new.terms = row.terms
  BY <1>1, RowFee
<1>4. recs \in SUBSET Record
  BY <1>1, <1>2, RecordTypes DEF RowOK, Existing
<1> HIDE DEF new, recs
<1>5. Vouched("ACCEPTED", records[o] \cup recs)
  BY <1>1, <1>2, VouchedGrows DEF RowOK
<1>6. Onboarded(records[o] \cup recs)
  BY <1>5 DEF Onboarded, Vouched
<1>7. EntityOK(o, new, recs)
  BY <1>1, <1>2, <1>3, <1>5, <1>6 DEF EntityOK, RowOK, Existing
<1> QED
  BY <1>2, <1>3, <1>4, <1>7, UpdateKeeps

-----------------------------------------------------------------------------
(* Transactions. *)

LEMMA MergeFields ==
    ASSUME NEW old \in Row, NEW new \in Row, NEW changed
    PROVE  /\ Merge(old, new, changed) \in Row
           /\ Merge(old, new, changed).maker = old.maker
           /\ Merge(old, new, changed).status \in {old.status, new.status}
           /\ Merge(old, new, changed).checker \in {old.checker, new.checker}
           /\ Merge(old, new, changed).approver \in {old.approver, new.approver}
           /\ Merge(old, new, changed).terms \in {old.terms, new.terms}
BY DEF Merge, Row

\* Another request's entity stays in order when a row is written.
LEMMA OthersKeep ==
    ASSUME NEW o \in Offers, NEW row, NEW recs, NEW x \in Offers, NEW entity, NEW es,
           offers' = [offers EXCEPT ![o] = row],
           records' = [records EXCEPT ![o] = records[o] \cup recs],
           o \in DOMAIN offers, o \in DOMAIN records,
           Existing(offers[o]) => Existing(row) /\ row.maker = offers[o].maker,
           Onboarded(records[o] \cup recs), EntityOK(x, entity, es)
    PROVE  EntityOK(x, entity, es)'
<1>1. CASE x # o
  <2>1. offers'[x] = offers[x] /\ records'[x] = records[x]
    BY <1>1
  <2> QED
    BY <2>1 DEF EntityOK, Existing, Vouched, Onboarded, Holds
<1>2. CASE x = o
  <2>1. offers'[x] = row /\ records'[x] = records[x] \cup recs
    BY <1>2
  <2>2. Vouched(entity.status, (records[x] \cup es) \cup recs)
    BY VouchedGrows DEF EntityOK
  <2>3. Onboarded((records[x] \cup es) \cup (records[x] \cup recs))
    BY <1>2, OnboardedGrows DEF EntityOK
  <2>4. /\ (records[x] \cup es) \cup recs = (records[x] \cup recs) \cup es
        /\ (records[x] \cup es) \cup (records[x] \cup recs) = (records[x] \cup recs) \cup es
    OBVIOUS
  <2>5. /\ Vouched(entity.status, (records[x] \cup recs) \cup es)
        /\ Onboarded((records[x] \cup recs) \cup es)
    BY <2>2, <2>3, <2>4
  <2>6. Existing(row) /\ Existing(entity) /\ entity.maker = row.maker
    BY <1>2 DEF EntityOK
  <2> QED
    BY <2>1, <2>5, <2>6 DEF EntityOK, Existing
<1> QED
  BY <1>1, <1>2

LEMMA WriteKeeps ==
    ASSUME IInv, NEW r \in Requests, NEW o \in Offers, NEW row \in Row,
           NEW recs \in SUBSET Record, Write(o, row, recs),
           RowOK(row, records[o] \cup recs),
           Existing(offers[o]) => Existing(row) /\ row.maker = offers[o].maker,
           appStatus' \in [Applications -> {"SCORED_PASS", "IN_CRC_REVIEW"}],
           commits' \in Nat, pending' = [pending EXCEPT ![r] = Idle]
    PROVE  IInv'
<1>1. /\ offers' = [offers EXCEPT ![o] = row]
      /\ records' = [records EXCEPT ![o] = records[o] \cup recs]
      /\ offers \in [Offers -> Row] /\ records \in [Offers -> SUBSET Record]
      /\ pending \in [Requests -> Pending]
  BY DEF Write, IInv, TypeOK
<1>2. TypeOK'
  <2>1. Idle \in Pending
    BY DEF Pending
  <2> QED
    BY <1>1, <2>1 DEF TypeOK
<1>3. ASSUME NEW x \in Offers
      PROVE  RowOK(offers'[x], records'[x])
  <2>1. CASE x = o
    BY <1>1, <2>1
  <2>2. CASE x # o
    BY <1>1, <2>2 DEF IInv
  <2> QED
    BY <2>1, <2>2
<1>4. ASSUME NEW q \in Requests
      PROVE  PendingOK(pending[q])'
  <2>1. CASE q = r
    BY <1>1, <2>1 DEF PendingOK, Idle
  <2>2. CASE q # r
    <3>1. pending'[q] = pending[q] /\ pending[q] \in Pending /\ PendingOK(pending[q])
      BY <1>1, <2>2 DEF IInv
    <3>2. ASSUME pending[q].op \in {"update", "write"}
          PROVE  EntityOK(pending[q].offer, pending[q].row, pending[q].records)'
      <4>1. pending[q].offer \in Offers
        BY <3>1, <3>2 DEF Pending, Idle
      <4>2. PICK x, entity, es :
              /\ pending[q].offer = x /\ pending[q].row = entity
              /\ pending[q].records = es
        OBVIOUS
      <4>3. x \in Offers
        BY <4>1, <4>2
      <4>4. EntityOK(x, entity, es)
        BY <3>1, <3>2, <4>2 DEF PendingOK
      <4>5. EntityOK(x, entity, es)'
        BY <1>1, <4>4, <4>3, OthersKeep DEF RowOK
      <4> QED
        BY <3>1, <4>2, <4>5 DEF EntityOK
    <3> QED
      BY <3>1, <3>2 DEF PendingOK
  <2> QED
    BY <2>1, <2>2
<1> QED
  BY <1>2, <1>3, <1>4 DEF IInv

LEMMA CommitKeeps ==
    ASSUME IInv, NEW r \in Requests, Commit(r)
    PROVE  IInv'
<1> DEFINE p == pending[r]
<1>1. /\ p \in Pending /\ PendingOK(p) /\ commits' \in Nat
      /\ pending' = [pending EXCEPT ![r] = Idle]
      /\ appStatus \in [Applications -> {"SCORED_PASS", "IN_CRC_REVIEW"}]
      /\ \A o \in Offers : offers[o] \in Row /\ RowOK(offers[o], records[o])
  BY DEF IInv, TypeOK, Commit
<1>2. CASE p.op = "insert"
  <2>1. PICK o \in Offers : NextId(o) /\ Write(o, p.row, p.records)
    BY <1>2 DEF Commit
  <2>2. p.row \in Row /\ p.records \in SUBSET Record
    BY <1>1, <1>2 DEF Pending, Idle
  <2>3. /\ Existing(p.row) /\ p.row.status = "DRAFT"
        /\ \A x \in p.records : x.kind = "CRA_START"
    BY <1>1, <1>2 DEF PendingOK
  <2>4. Onboarded(records[o] \cup p.records)
    BY <1>1, <2>3, OnboardsNobody DEF RowOK
  <2>5. RowOK(p.row, records[o] \cup p.records)
    BY <2>3, <2>4 DEF RowOK, Vouched
  <2>6. ~Existing(offers[o])
    BY <2>1 DEF NextId, Existing
  <2>7. appStatus' \in [Applications -> {"SCORED_PASS", "IN_CRC_REVIEW"}]
    BY <1>1, <1>2 DEF Commit
  <2> HIDE DEF p
  <2> QED
    BY <1>1, <2>1, <2>2, <2>5, <2>6, <2>7, WriteKeeps
<1>3. CASE p.op = "write"
  <2> DEFINE o   == p.offer
             row == Merge(offers[o], p.row, p.changed)
  <2>1. Write(o, row, p.records)
    BY <1>3 DEF Commit
  <2>2. o \in Offers /\ p.row \in Row /\ p.records \in SUBSET Record
    BY <1>1, <1>3 DEF Pending, Idle
  <2>3. EntityOK(o, p.row, p.records)
    BY <1>1, <1>3 DEF PendingOK
  <2>4. /\ row \in Row /\ row.maker = offers[o].maker
        /\ row.status \in {offers[o].status, p.row.status}
        /\ row.checker \in {offers[o].checker, p.row.checker}
        /\ row.approver \in {offers[o].approver, p.row.approver}
        /\ row.terms \in {offers[o].terms, p.row.terms}
    BY <1>1, <2>2, MergeFields
  <2> HIDE DEF row
  <2>5. Existing(row)
    BY <2>3, <2>4 DEF EntityOK, Existing
  <2>6. Vouched(row.status, records[o] \cup p.records)
    <3>1. Vouched(offers[o].status, records[o] \cup p.records)
      BY <1>1, <2>2, VouchedGrows DEF RowOK
    <3>2. Vouched(p.row.status, records[o] \cup p.records)
      BY <2>3 DEF EntityOK
    <3> QED
      BY <2>4, <3>1, <3>2
  <2>7. RowOK(row, records[o] \cup p.records)
    BY <2>3, <2>5, <2>6 DEF RowOK, EntityOK, Existing
  <2>8. appStatus' \in [Applications -> {"SCORED_PASS", "IN_CRC_REVIEW"}]
    BY <1>1, <1>3 DEF Commit
  <2> HIDE DEF o, p
  <2> QED
    BY <1>1, <2>1, <2>2, <2>4, <2>5, <2>7, <2>8, WriteKeeps DEF p, o
<1> QED
  BY <1>2, <1>3 DEF Commit

\* The save's select and an abort leave rows and records alone.
LEMMA CompareKeeps ==
    ASSUME IInv, NEW r \in Requests, Compare(r) \/ Abort(r)
    PROVE  IInv'
<1> DEFINE p   == pending[r]
           new == [op |-> "write", offer |-> p.offer, row |-> p.row,
                   changed |-> Changed(offers[p.offer], p.row), records |-> p.records]
<1>1. /\ pending \in [Requests -> Pending] /\ PendingOK(p)
      /\ UNCHANGED <<offers, appStatus, records, commits>>
  BY DEF IInv, TypeOK, Compare, Abort
<1>2. CASE Abort(r)
  <2>1. pending' = [pending EXCEPT ![r] = Idle] /\ Idle \in Pending /\ PendingOK(Idle)
    BY <1>2 DEF Abort, Pending, PendingOK, Idle
  <2>2. TypeOK'
    BY <1>1, <2>1 DEF IInv, TypeOK
  <2>3. \A q \in Requests : PendingOK(pending'[q])
    BY <1>1, <2>1 DEF IInv
  <2> QED
    BY <1>1, <2>2, <2>3 DEF IInv, PendingOK, EntityOK
<1>3. CASE Compare(r)
  <2>1. pending' = [pending EXCEPT ![r] = new] /\ p.op = "update"
    BY <1>3 DEF Compare
  <2>2. p.offer \in Offers /\ p.row \in Row /\ p.records \in SUBSET Record
    BY <1>1, <2>1 DEF Pending, Idle
  <2>3. Changed(offers[p.offer], p.row) \in SUBSET Columns
    BY DEF Changed
  <2>4. new \in Pending
    BY <2>2, <2>3 DEF Pending
  <2>5. PendingOK(new)
    BY <1>1, <2>1 DEF PendingOK
  <2> HIDE DEF new
  <2>6. TypeOK'
    BY <1>1, <2>1, <2>4 DEF IInv, TypeOK
  <2>7. \A q \in Requests : PendingOK(pending'[q])
    BY <1>1, <2>1, <2>5 DEF IInv
  <2> QED
    BY <1>1, <2>6, <2>7 DEF IInv, PendingOK, EntityOK
<1> QED
  BY <1>2, <1>3

-----------------------------------------------------------------------------
LEMMA InvInit == ConstantsAssumption /\ Init => IInv
<1> SUFFICES ASSUME ConstantsAssumption, Init PROVE IInv
  OBVIOUS
<1>1. AbsentRow \in Row
  BY DEF AbsentRow, Row
<1>2. TypeOK
  BY <1>1 DEF Init, TypeOK, Pending
<1>3. RowOK(AbsentRow, {})
  BY DEF RowOK, AbsentRow, Vouched, Onboarded, Holds
<1>4. PendingOK(Idle)
  BY DEF PendingOK, Idle
<1> QED
  BY <1>2, <1>3, <1>4 DEF IInv, Init

LEMMA InvStep == ConstantsAssumption /\ IInv /\ [Next]_vars => IInv'
<1> SUFFICES ASSUME ConstantsAssumption, IInv, [Next]_vars PROVE IInv'
  OBVIOUS
<1>1. ASSUME NEW r \in Requests, Step(r) PROVE IInv'
  <2>1. CASE Compare(r) \/ Commit(r) \/ Abort(r)
    BY <2>1, CompareKeeps, CommitKeeps
  <2>2. CASE \E p \in Persons, a \in Applications : Create(r, p, a)
    BY <2>2, CreateKeeps
  <2>3. ASSUME NEW o \in Offers,
               \/ Save(r, o) \/ Submit(r, o) \/ ReturnToDraft(r, o) \/ Reject(r, o)
               \/ \E p \in Persons : Check(r, o, p)
        PROVE  IInv'
    BY <2>3, DraftingKeeps
  <2>4. ASSUME NEW o \in Offers,
               \/ Refresh(r, o) \/ Close(r, o) \/ OnAcceptanceBreach(r, o)
               \/ \E d \in {"ACCEPTED", "DECLINED"} : Resolve(r, o, d)
               \/ \E p \in Persons : Approve(r, o, p) \/ ConfirmRegistrationFee(r, o, p)
        PROVE  IInv'
    BY <2>4, RefreshKeeps, QuietKeeps, ResolveKeeps, ApproveKeeps, ConfirmKeeps
  <2>5. CASE \E a \in Applications, d \in {"ACCEPTED", "DECLINED"} : Respond(r, a, d)
    BY <2>5, RespondKeeps
  <2> QED
    BY <1>1, <2>1, <2>2, <2>3, <2>4, <2>5 DEF Step
<1>2. CASE UNCHANGED vars
  BY <1>2 DEF vars, IInv, TypeOK, PendingOK, EntityOK
<1> QED
  BY <1>1, <1>2 DEF Next

LEMMA Invariant == Spec => []IInv
BY InvInit, InvStep, ConstantsAssumption, PTL DEF Spec

\* What is recorded for an offer carries terms.
LEMMA HoldsRecorded ==
    ASSUME TypeOK, NEW o \in Offers, NEW kind
    PROVE  Holds(records[o], kind) <=> EverRecorded(o, kind)
BY DEF TypeOK, Holds, Record, Recorded, EverRecorded

\* The variables of an offer's life keep their types.
THEOREM TypeCorrect == Spec => []TypeOK
<1>1. IInv => TypeOK
  BY DEF IInv
<1> QED
  BY <1>1, Invariant, PTL

\* However many requests overlap, no maker checks or approves the own offer.
THEOREM MakersStayApart == Spec => []MakerNeverSigns
<1>1. IInv => MakerNeverSigns
  <2> SUFFICES ASSUME IInv, NEW o \in Offers, offers[o].maker \in Persons
               PROVE  offers[o].maker \notin {offers[o].checker, offers[o].approver}
    BY DEF MakerNeverSigns
  <2>1. RowOK(offers[o], records[o])
    BY DEF IInv
  <2>2. offers[o].maker # NONE
    BY ConstantsAssumption DEF ConstantsAssumption
  <2> QED
    BY <2>1, <2>2 DEF RowOK, Existing
<1> QED
  BY <1>1, Invariant, PTL

\* A client is onboarded on an offer that was approved and accepted.
THEOREM OnboardingIsBacked == Spec => []OnboardedAfterApproval
<1>1. IInv => OnboardedAfterApproval
  <2> SUFFICES ASSUME IInv, NEW o \in Offers
               PROVE  EverRecorded(o, "CLIENT_ONBOARDED") =>
                        /\ EverRecorded(o, "OFFER_APPROVED_SENT")
                        /\ EverRecorded(o, "ACCEPTED") \/ EverRecorded(o, "RM_RESOLVED")
    BY DEF OnboardedAfterApproval
  <2>1. TypeOK /\ Onboarded(records[o])
    BY DEF IInv, RowOK
  <2>2. \A kind : Holds(records[o], kind) <=> EverRecorded(o, kind)
    BY <2>1, HoldsRecorded
  <2> QED
    BY <2>1, <2>2 DEF Onboarded
<1> QED
  BY <1>1, Invariant, PTL

\* The clocks' starts and cancellations are requested with the status changes
\* they belong to.
THEOREM ClockFollows == Spec => []ClockFollowsOffer
<1>1. IInv => ClockFollowsOffer
  <2> SUFFICES ASSUME IInv, NEW o \in Offers
               PROVE  /\ offers[o].status \in PostApproval =>
                            /\ EverRecorded(o, "CRA_CANCEL")
                            /\ EverRecorded(o, "ACCEPTANCE_START")
                      /\ offers[o].status \in {"ACCEPTED", "DECLINED"} =>
                            EverRecorded(o, "ACCEPTANCE_CANCEL")
    BY DEF ClockFollowsOffer
  <2>1. TypeOK /\ Vouched(offers[o].status, records[o])
    BY DEF IInv, RowOK
  <2>2. \A kind : Holds(records[o], kind) <=> EverRecorded(o, kind)
    BY <2>1, HoldsRecorded
  <2> QED
    BY <2>1, <2>2 DEF Vouched
<1> QED
  BY <1>1, Invariant, PTL

\* What an offer has come to is backed, however requests overlap.
THEOREM BackedThroughout == Spec => []OfferIsBacked
<1>1. MakerNeverSigns /\ OnboardedAfterApproval /\ ClockFollowsOffer => OfferIsBacked
  BY DEF OfferIsBacked
<1> QED
  BY <1>1, MakersStayApart, OnboardingIsBacked, ClockFollows, PTL

-----------------------------------------------------------------------------
(* Requests that do not overlap.  With one request in flight the row has   *)
(* not changed since the lookup, the save merges into the very row the     *)
(* guards saw, and the whole chain is what the design says.                *)

Has(R, kind, t) == \E x \in R : x.kind = kind /\ x.terms = t

\* The records R vouch for a row, its terms and signatures included.
Backed(row, R) ==
    /\ row.status \notin {"ABSENT", "DRAFT"} => row.terms \in Complete
    /\ row.status \in {"CHECKED"} \cup PostApproval =>
         /\ row.checker \in Persons \ {row.maker}
         /\ \E x \in R : /\ x.kind = "OFFER_CHECKED"
                         /\ x.person = row.checker /\ x.terms = row.terms
    /\ row.status \in PostApproval =>
         /\ row.approver \in Persons \ {row.maker, row.checker}
         /\ Has(R, "OFFER_APPROVED_SENT", row.terms)
    /\ row.status = "ACCEPTED" => \/ Has(R, "ACCEPTED", row.terms)
                                  \/ Has(R, "RM_RESOLVED", row.terms)

\* The onboardings among the records R are on agreed terms.
Agreed(R) ==
    \A t \in Terms : Has(R, "CLIENT_ONBOARDED", t) =>
        /\ Has(R, "OFFER_APPROVED_SENT", t)
        /\ Has(R, "ACCEPTED", t) \/ Has(R, "RM_RESOLVED", t)

Follows(old, new) == old = new \/ <<old, new>> \in ChainEdges

\* The entity row is one edge of the chain away from the row it will replace.
NextRow(o, row, recs) ==
    /\ row.application = offers[o].application
    /\ Follows(offers[o].status, row.status)
    /\ Backed(row, records[o] \cup recs)
    /\ Agreed(records[o] \cup recs)

Proposes(p) ==
    /\ p.op \in {"update", "write"} => NextRow(p.offer, p.row, p.records)
    /\ p.op = "write" => Merge(offers[p.offer], p.row, p.changed) = p.row

SInv ==
    /\ IInv
    /\ \A o \in Offers : Backed(offers[o], records[o]) /\ Agreed(records[o])
    /\ \A r \in Requests : Proposes(pending[r])

-----------------------------------------------------------------------------
LEMMA BackedGrows ==
    ASSUME NEW row, NEW R, NEW S, R \subseteq S, Backed(row, R)
    PROVE  Backed(row, S)
BY DEF Backed, Has

LEMMA AgreesWith ==
    ASSUME NEW R, NEW S, Agreed(R), \A x \in S : x.kind # "CLIENT_ONBOARDED"
    PROVE  Agreed(R \cup S)
BY DEF Agreed, Has

\* Merging into the row that was compared gives the entity.
LEMMA MergeChanged ==
    ASSUME NEW old \in Row, NEW new \in Row, new.maker = old.maker,
           new.application = old.application
    PROVE  Merge(old, new, Changed(old, new)) = new
<1>1. /\ Merge(old, new, Changed(old, new)).status = new.status
      /\ Merge(old, new, Changed(old, new)).checker = new.checker
      /\ Merge(old, new, Changed(old, new)).approver = new.approver
      /\ Merge(old, new, Changed(old, new)).terms = new.terms
      /\ Merge(old, new, Changed(old, new)).feeConfirmedBy = new.feeConfirmedBy
      /\ Merge(old, new, Changed(old, new)).maker = new.maker
      /\ Merge(old, new, Changed(old, new)).application = new.application
  BY DEF Merge, Changed, Columns
<1>2. Merge(old, new, Changed(old, new)) \in Row
  BY MergeFields
<1> QED
  BY <1>1, <1>2 DEF Row

LEMMA LookupProposes ==
    ASSUME SInv, IInv', NEW r, Requests = {r}, NEW o \in Offers, NEW row, NEW recs,
           Begin(r, Update(o, row, recs)), NextRow(o, row, recs)
    PROVE  SInv'
<1>1. /\ pending' = [pending EXCEPT ![r] = Update(o, row, recs)]
      /\ UNCHANGED <<offers, records>> /\ pending \in [Requests -> Pending]
  BY DEF Begin, SInv, IInv, TypeOK
<1>2. Proposes(Update(o, row, recs))
  BY DEF Proposes, Update
<1>3. \A q \in Requests : Proposes(pending'[q])
  BY <1>1, <1>2
<1> QED
  BY <1>1, <1>3 DEF SInv, Proposes, NextRow

\* A row of the chain whose status moves on.
LEMMA StatusProposes ==
    ASSUME SInv, IInv', NEW r, Requests = {r}, NEW o \in Offers,
           NEW s \in PostApproval, NEW recs \in SUBSET Record,
           offers[o].status \in PostApproval, <<offers[o].status, s>> \in ChainEdges,
           s = "ACCEPTED" => \/ Has(recs, "ACCEPTED", offers[o].terms)
                             \/ Has(recs, "RM_RESOLVED", offers[o].terms),
           \A x \in recs : x.kind # "CLIENT_ONBOARDED",
           Begin(r, Update(o, [offers[o] EXCEPT !.status = s], recs))
    PROVE  SInv'
<1> DEFINE new == [offers[o] EXCEPT !.status = s]
<1>1. offers[o] \in Row /\ Backed(offers[o], records[o]) /\ Agreed(records[o])
  BY DEF SInv, IInv, TypeOK
<1>2. /\ new.status = s /\ new.maker = offers[o].maker
      /\ new.application = offers[o].application
      /\ new.checker = offers[o].checker /\ new.approver = offers[o].approver
      /\ new.terms = offers[o].terms
  BY <1>1 DEF Row
<1>3. Agreed(records[o] \cup recs)
  BY <1>1, AgreesWith
<1>4. Backed(offers[o], records[o] \cup recs)
  BY <1>1, BackedGrows
<1>5. Begin(r, Update(o, new, recs))
  OBVIOUS
<1> HIDE DEF new
<1>6. \A kind : Has(recs, kind, offers[o].terms) =>
                  Has(records[o] \cup recs, kind, offers[o].terms)
  BY DEF Has
<1>7. Backed(new, records[o] \cup recs)
  BY <1>2, <1>4, <1>6 DEF Backed
<1>8. NextRow(o, new, recs)
  BY <1>2, <1>3, <1>7 DEF NextRow, Follows
<1> QED
  BY <1>5, <1>8, LookupProposes

LEMMA CreateProposes ==
    ASSUME SInv, IInv', NEW r, Requests = {r}, NEW p, NEW a, Create(r, p, a)
    PROVE  SInv'
<1>1. PICK t : Begin(r, [op |-> "insert", row |-> DraftRow(p, a, t),
                         records |-> Of("CRA_START", t)])
  BY DEF Create
<1>2. /\ pending' = [pending EXCEPT ![r] = [op |-> "insert", row |-> DraftRow(p, a, t),
                                            records |-> Of("CRA_START", t)]]
      /\ UNCHANGED <<offers, records>> /\ pending \in [Requests -> Pending]
  BY <1>1 DEF Begin, SInv, IInv, TypeOK
<1>3. pending'[r].op = "insert"
  BY <1>2
<1> QED
  BY <1>2, <1>3 DEF SInv, Proposes

LEMMA DraftingProposes ==
    ASSUME SInv, IInv', NEW r, Requests = {r}, NEW o \in Offers,
           \/ Save(r, o) \/ Submit(r, o) \/ ReturnToDraft(r, o) \/ Reject(r, o)
    PROVE  SInv'
<1> DEFINE row == offers[o]
           R   == records[o]
<1>1. /\ row \in Row /\ Backed(row, R) /\ Agreed(R) /\ R \cup {} = R
  BY DEF SInv, IInv, TypeOK
<1>2. CASE Save(r, o)
  <2>1. PICK t : Begin(r, Update(o, [row EXCEPT !.terms = t], {}))
    BY <1>2 DEF Save
  <2> DEFINE new == [row EXCEPT !.terms = t]
  <2>2. row.status = "DRAFT" /\ new.status = row.status
        /\ new.application = row.application
    BY <1>1, <1>2 DEF Save, Row
  <2> HIDE DEF new
  <2>3. NextRow(o, new, {})
    BY <1>1, <2>2 DEF NextRow, Follows, Backed
  <2> QED
    BY <2>1, <2>3, LookupProposes DEF new
<1>3. CASE Submit(r, o)
  <2> DEFINE new == [row EXCEPT !.status = "PENDING_CHECK"]
  <2>1. /\ row.status = "DRAFT" /\ row.terms \in Complete
        /\ Begin(r, Update(o, new, {}))
    BY <1>3 DEF Submit
  <2>2. new.status = "PENDING_CHECK" /\ new.terms = row.terms
        /\ new.application = row.application
    BY <1>1 DEF Row
  <2> HIDE DEF new
  <2>3. NextRow(o, new, {})
    BY <1>1, <2>1, <2>2 DEF NextRow, Follows, ChainEdges, Backed
  <2> QED
    BY <2>1, <2>3, LookupProposes
<1>4. CASE ReturnToDraft(r, o) \/ Reject(r, o)
  <2> DEFINE new == [row EXCEPT !.status = "DRAFT", !.checker = NONE]
  <2>1. /\ row.status \in {"PENDING_CHECK", "CHECKED"}
        /\ Begin(r, Update(o, new, {}))
    BY <1>4 DEF ReturnToDraft, Reject, BackToDraft
  <2>2. new.status = "DRAFT" /\ new.application = row.application
    BY <1>1 DEF Row
  <2> HIDE DEF new
  <2>3. NextRow(o, new, {})
    BY <1>1, <2>1, <2>2 DEF NextRow, Follows, ChainEdges, Backed
  <2> QED
    BY <2>1, <2>3, LookupProposes
<1> QED
  BY <1>2, <1>3, <1>4

LEMMA CheckProposes ==
    ASSUME SInv, IInv', NEW r, Requests = {r}, NEW o \in Offers, NEW p \in Persons,
           Check(r, o, p)
    PROVE  SInv'
<1> DEFINE row  == offers[o]
           new  == [row EXCEPT !.status = "CHECKED", !.checker = p]
           recs == By("OFFER_CHECKED", p, row.terms)
<1>1. row \in Row /\ Backed(row, records[o]) /\ Agreed(records[o])
  BY DEF SInv, IInv, TypeOK
<1>2. /\ row.status = "PENDING_CHECK" /\ row.maker # p
      /\ Begin(r, Update(o, new, recs))
  BY DEF Check, CheckedRow
<1>3. /\ new.status = "CHECKED" /\ new.checker = p /\ new.maker = row.maker
      /\ new.terms = row.terms /\ new.application = row.application
  BY <1>1 DEF Row
<1>4. /\ \A x \in recs : x.kind # "CLIENT_ONBOARDED"
      /\ \E x \in recs : x.kind = "OFFER_CHECKED" /\ x.person = p /\ x.terms = row.terms
  BY DEF By
<1> HIDE DEF new, recs
<1>5. Backed(new, records[o] \cup recs)
  BY <1>1, <1>2, <1>3, <1>4 DEF Backed
<1>6. Agreed(records[o] \cup recs)
  BY <1>1, <1>4, AgreesWith
<1>7. NextRow(o, new, recs)
  BY <1>2, <1>3, <1>5, <1>6 DEF NextRow, Follows, ChainEdges
<1> QED
  BY <1>2, <1>7, LookupProposes

LEMMA ApproveProposes ==
    ASSUME SInv, IInv', NEW r, Requests = {r}, NEW o \in Offers, NEW p \in Persons,
           Approve(r, o, p)
    PROVE  SInv'
<1> DEFINE row  == offers[o]
           t    == offers[o].terms
           new  == [row EXCEPT !.status = "SENT", !.approver = p]
           recs == By("OFFER_APPROVED_SENT", p, t)
                     \cup Of("CRA_CANCEL", t) \cup Of("ACCEPTANCE_START", t)
<1>1. row \in Row /\ Backed(row, records[o]) /\ Agreed(records[o])
  BY DEF SInv, IInv, TypeOK
<1>2. /\ row.status = "CHECKED" /\ p \notin {row.maker, row.checker}
      /\ Begin(r, Update(o, new, recs))
  BY DEF Approve
<1>3. /\ new.status = "SENT" /\ new.checker = row.checker /\ new.maker = row.maker
      /\ new.approver = p /\ new.terms = t /\ new.application = row.application
  BY <1>1 DEF Row
<1>4. /\ \A x \in recs : x.kind # "CLIENT_ONBOARDED"
      /\ Has(recs, "OFFER_APPROVED_SENT", t)
  BY DEF By, Of, Has
<1> HIDE DEF new, recs
<1>5. Backed(row, records[o] \cup recs)
  BY <1>1, BackedGrows
<1>6. Has(records[o] \cup recs, "OFFER_APPROVED_SENT", t)
  BY <1>4 DEF Has
<1>7. Backed(new, records[o] \cup recs)
  BY <1>2, <1>3, <1>5, <1>6 DEF Backed
<1>8. Agreed(records[o] \cup recs)
  BY <1>1, <1>4, AgreesWith
<1>9. NextRow(o, new, recs)
  BY <1>2, <1>3, <1>7, <1>8 DEF NextRow, Follows, ChainEdges
<1> QED
  BY <1>2, <1>9, LookupProposes

LEMMA ConfirmProposes ==
    ASSUME SInv, IInv', NEW r, Requests = {r}, NEW o \in Offers, NEW p \in Persons,
           ConfirmRegistrationFee(r, o, p)
    PROVE  SInv'
<1> DEFINE row  == offers[o]
           t    == offers[o].terms
           new  == [row EXCEPT !.feeConfirmedBy = p]
           recs == By("CLIENT_ONBOARDED", p, t)
<1>1. row \in Row /\ Backed(row, records[o]) /\ Agreed(records[o])
  BY DEF SInv, IInv, TypeOK
<1>2. row.status = "ACCEPTED" /\ Begin(r, Update(o, new, recs))
  BY DEF ConfirmRegistrationFee
<1>3. /\ new.status = row.status /\ new.maker = row.maker
      /\ new.checker = row.checker /\ new.approver = row.approver
      /\ new.terms = t /\ new.application = row.application
  BY <1>1 DEF Row
<1>4. \A x \in recs : x.terms = t
  BY DEF By
<1> HIDE DEF new, recs
<1>5. Backed(row, records[o] \cup recs)
  BY <1>1, BackedGrows
<1>6. Backed(new, records[o] \cup recs)
  BY <1>3, <1>5 DEF Backed
<1>7. Agreed(records[o] \cup recs)
  <2>1. /\ Has(records[o], "OFFER_APPROVED_SENT", t)
        /\ Has(records[o], "ACCEPTED", t) \/ Has(records[o], "RM_RESOLVED", t)
    BY <1>1, <1>2 DEF Backed
  <2> HIDE DEF t
  <2> QED
    BY <1>1, <1>4, <2>1 DEF Agreed, Has
<1>8. NextRow(o, new, recs)
  BY <1>3, <1>6, <1>7 DEF NextRow, Follows
<1> QED
  BY <1>2, <1>8, LookupProposes

LEMMA SentTerms ==
    ASSUME SInv, NEW o \in Offers, offers[o].status # "ABSENT"
    PROVE  offers[o].terms \in Terms
BY DEF SInv, IInv, RowOK, Existing

LEMMA AnswerProposes ==
    ASSUME SInv, IInv', NEW r, Requests = {r}, NEW o \in Offers,
           NEW decision \in {"ACCEPTED", "DECLINED"},
           NEW kind \in {"RM_RESOLVED", decision}, offers[o].status = "SENT",
           Begin(r, Update(o, [offers[o] EXCEPT !.status = decision],
                           Of(kind, offers[o].terms)
                             \cup Of("ACCEPTANCE_CANCEL", offers[o].terms)))
    PROVE  SInv'
<1> DEFINE t    == offers[o].terms
           recs == Of(kind, t) \cup Of("ACCEPTANCE_CANCEL", t)
<1>1. /\ \A x \in recs : x.kind # "CLIENT_ONBOARDED"
      /\ Has(recs, kind, t)
  BY DEF By, Of, Has
<1>2. Begin(r, Update(o, [offers[o] EXCEPT !.status = decision], recs))
  OBVIOUS
<1>3. /\ decision \in PostApproval /\ offers[o].status \in PostApproval
      /\ <<offers[o].status, decision>> \in ChainEdges
  BY DEF ChainEdges
<1>5. recs \in SUBSET Record
  <2>1. kind \in Kinds /\ t \in Terms
    BY SentTerms
  <2>2. Of(kind, t) \in SUBSET Record /\ Of("ACCEPTANCE_CANCEL", t) \in SUBSET Record
    BY <2>1, OfTypes
  <2> QED
    BY <2>2
<1> HIDE DEF recs
<1>4. decision = "ACCEPTED" => Has(recs, "ACCEPTED", t) \/ Has(recs, "RM_RESOLVED", t)
  BY <1>1
<1> QED
  BY <1>1, <1>2, <1>3, <1>4, <1>5, StatusProposes

\* The steps after approval that record nothing the chain depends on.
LEMMA QuietProposes ==
    ASSUME SInv, IInv', NEW r, Requests = {r}, NEW o \in Offers,
           Refresh(r, o) \/ Close(r, o) \/ OnAcceptanceBreach(r, o)
    PROVE  SInv'
<1>1. CASE Refresh(r, o)
  <2> DEFINE recs == Of("ACCEPTANCE_START", offers[o].terms)
  <2>1. \A x \in recs : x.kind # "CLIENT_ONBOARDED"
    BY DEF By, Of
  <2>2. offers[o].status = "LAPSED"
        /\ Begin(r, Update(o, [offers[o] EXCEPT !.status = "SENT"], recs))
    BY <1>1 DEF Refresh
  <2>3. /\ <<offers[o].status, "SENT">> \in ChainEdges
        /\ "SENT" \in PostApproval /\ offers[o].status \in PostApproval
        /\ "SENT" # "ACCEPTED"
    BY <2>2 DEF ChainEdges
  <2>4. recs \in SUBSET Record
    BY <2>2, SentTerms, OfTypes
  <2> HIDE DEF recs
  <2> QED
    BY <2>1, <2>2, <2>3, <2>4, StatusProposes
<1>2. CASE Close(r, o) \/ OnAcceptanceBreach(r, o)
  <2>1. PICK s \in {"CLOSED_ARCHIVED", "LAPSED"} :
          /\ Begin(r, Update(o, [offers[o] EXCEPT !.status = s], {}))
          /\ <<offers[o].status, s>> \in ChainEdges
    BY <1>2 DEF Close, OnAcceptanceBreach, ChainEdges
  <2>2. offers[o].status \in PostApproval
    BY <1>2 DEF Close, OnAcceptanceBreach
  <2>3. s # "ACCEPTED" /\ s \in PostApproval /\ {} \in SUBSET Record
        /\ \A x \in {} : x.kind # "CLIENT_ONBOARDED"
    OBVIOUS
  <2> QED
    BY <2>1, <2>2, <2>3, StatusProposes
<1> QED
  BY <1>1, <1>2

-----------------------------------------------------------------------------
LEMMA CommitInChain ==
    ASSUME SInv, IInv', NEW r, Requests = {r}, Commit(r)
    PROVE  SInv' /\ \A o \in Offers : Follows(offers[o].status, offers'[o].status)
<1> DEFINE p == pending[r]
<1>1. /\ offers \in [Offers -> Row] /\ records \in [Offers -> SUBSET Record]
      /\ p \in Pending /\ PendingOK(p) /\ Proposes(p)
      /\ pending' = [pending EXCEPT ![r] = Idle] /\ pending \in [Requests -> Pending]
  BY DEF SInv, IInv, TypeOK, Commit
<1>2. pending'[r] = Idle
  BY <1>1
<1>3. ASSUME NEW o \in Offers, NEW row, Write(o, row, p.records),
             Backed(row, records[o] \cup p.records), Agreed(records[o] \cup p.records),
             Follows(offers[o].status, row.status)
      PROVE  SInv' /\ \A x \in Offers : Follows(offers[x].status, offers'[x].status)
  <2>1. /\ offers' = [offers EXCEPT ![o] = row]
        /\ records' = [records EXCEPT ![o] = records[o] \cup p.records]
    BY <1>3 DEF Write
  <2>2. ASSUME NEW x \in Offers
        PROVE  /\ Backed(offers'[x], records'[x]) /\ Agreed(records'[x])
               /\ Follows(offers[x].status, offers'[x].status)
    <3>1. CASE x = o
      BY <1>1, <1>3, <2>1, <3>1
    <3>2. CASE x # o
      BY <1>1, <2>1, <3>2 DEF SInv, Follows
    <3> QED
      BY <3>1, <3>2
  <2>3. Proposes(pending[r])'
    BY <1>2 DEF Proposes, Idle
  <2> QED
    BY <2>2, <2>3 DEF SInv
<1>4. CASE p.op = "insert"
  <2>1. PICK o \in Offers : NextId(o) /\ Write(o, p.row, p.records)
    BY <1>4 DEF Commit
  <2>2. p.row.status = "DRAFT" /\ \A x \in p.records : x.kind = "CRA_START"
    BY <1>1, <1>4 DEF PendingOK
  <2>3. Backed(p.row, records[o] \cup p.records)
    BY <2>2 DEF Backed
  <2>4. Agreed(records[o] \cup p.records)
    BY <2>2, AgreesWith DEF SInv
  <2>5. Follows(offers[o].status, p.row.status)
    BY <2>1, <2>2 DEF NextId, Follows, ChainEdges
  <2> HIDE DEF p
  <2> QED
    BY <1>3, <2>1, <2>3, <2>4, <2>5
<1>5. CASE p.op = "write"
  <2>1. /\ p.offer \in Offers
        /\ Write(p.offer, Merge(offers[p.offer], p.row, p.changed), p.records)
    BY <1>1, <1>5 DEF Commit, Pending, Idle
  <2>2. /\ NextRow(p.offer, p.row, p.records)
        /\ Merge(offers[p.offer], p.row, p.changed) = p.row
    BY <1>1, <1>5 DEF Proposes
  <2> HIDE DEF p
  <2> QED
    BY <1>3, <2>1, <2>2 DEF NextRow
<1> QED
  BY <1>4, <1>5 DEF Commit

LEMMA CompareInChain ==
    ASSUME SInv, IInv', NEW r, Requests = {r}, Compare(r) \/ Abort(r)
    PROVE  SInv'
<1> DEFINE p == pending[r]
<1>1. /\ offers \in [Offers -> Row] /\ p \in Pending /\ PendingOK(p) /\ Proposes(p)
      /\ pending \in [Requests -> Pending] /\ UNCHANGED <<offers, records>>
  BY DEF SInv, IInv, TypeOK, Compare, Abort
<1>2. Proposes(pending'[r])
  <2>1. CASE Abort(r)
    <3>1. pending'[r] = Idle
      BY <1>1, <2>1 DEF Abort
    <3> QED
      BY <3>1 DEF Proposes, Idle
  <2>2. CASE Compare(r)
    <3>1. /\ pending'[r] = [op |-> "write", offer |-> p.offer, row |-> p.row,
                            changed |-> Changed(offers[p.offer], p.row),
                            records |-> p.records]
          /\ p.op = "update"
      BY <1>1, <2>2 DEF Compare
    <3>2. p.offer \in Offers /\ p.row \in Row
      BY <1>1, <3>1 DEF Pending, Idle
    <3>3. /\ NextRow(p.offer, p.row, p.records)
          /\ p.row.maker = offers[p.offer].maker
          /\ p.row.application = offers[p.offer].application
      BY <1>1, <3>1 DEF PendingOK, EntityOK, Proposes, NextRow
    <3>4. Merge(offers[p.offer], p.row, Changed(offers[p.offer], p.row)) = p.row
      BY <1>1, <3>2, <3>3, MergeChanged
    <3> HIDE DEF p
    <3> QED
      BY <3>1, <3>3, <3>4 DEF Proposes
  <2> QED
    BY <2>1, <2>2
<1> QED
  BY <1>1, <1>2 DEF SInv, Proposes, NextRow

\* A lookup changes no row.
LEMMA LookupInChain ==
    ASSUME SInv, IInv', NEW r, Requests = {r}, Step(r),
           ~Compare(r), ~Commit(r), ~Abort(r)
    PROVE  SInv' /\ offers' = offers
<1>1. \A p : Begin(r, p) => offers' = offers
  BY DEF Begin
<1>2. CASE \E p \in Persons, a \in Applications : Create(r, p, a)
  <2>1. SInv'
    BY <1>2, CreateProposes
  <2> QED
    BY <1>1, <1>2, <2>1 DEF Create
<1>3. ASSUME NEW o \in Offers,
             Save(r, o) \/ Submit(r, o) \/ ReturnToDraft(r, o) \/ Reject(r, o)
      PROVE  SInv' /\ offers' = offers
  <2>1. SInv'
    BY <1>3, DraftingProposes
  <2> QED
    BY <1>1, <1>3, <2>1 DEF Save, Submit, ReturnToDraft, Reject
<1>4. ASSUME NEW o \in Offers, Refresh(r, o) \/ Close(r, o) \/ OnAcceptanceBreach(r, o)
      PROVE  SInv' /\ offers' = offers
  <2>1. SInv'
    BY <1>4, QuietProposes
  <2> QED
    BY <1>1, <1>4, <2>1 DEF Refresh, Close, OnAcceptanceBreach
<1>5. ASSUME NEW o \in Offers, NEW d \in {"ACCEPTED", "DECLINED"}, Resolve(r, o, d)
      PROVE  SInv' /\ offers' = offers
  <2>1. SInv'
    BY <1>5, AnswerProposes DEF Resolve
  <2> QED
    BY <1>1, <1>5, <2>1 DEF Resolve
<1>6. ASSUME NEW o \in Offers, NEW p \in Persons,
             Check(r, o, p) \/ Approve(r, o, p) \/ ConfirmRegistrationFee(r, o, p)
      PROVE  SInv' /\ offers' = offers
  <2>1. SInv'
    BY <1>6, CheckProposes, ApproveProposes, ConfirmProposes
  <2> QED
    BY <1>1, <1>6, <2>1 DEF Check, Approve, ConfirmRegistrationFee
<1>7. ASSUME NEW a \in Applications, NEW d \in {"ACCEPTED", "DECLINED"}, Respond(r, a, d)
      PROVE  SInv' /\ offers' = offers
  <2>1. PICK o \in Offers :
          /\ offers[o].status = "SENT"
          /\ Begin(r, Update(o, [offers[o] EXCEPT !.status = d],
                             Of(d, offers[o].terms)
                               \cup Of("ACCEPTANCE_CANCEL", offers[o].terms)))
    BY <1>7 DEF Respond, OwnOffer
  <2> QED
    BY <1>1, <2>1, AnswerProposes
<1> QED
  BY <1>2, <1>3, <1>4, <1>5, <1>6, <1>7 DEF Step

LEMMA SerialInit == Init /\ IInv => SInv
<1> SUFFICES ASSUME Init, IInv PROVE SInv
  OBVIOUS
<1>1. Backed(AbsentRow, {}) /\ Agreed({})
  BY DEF Backed, AbsentRow, Agreed, Has
<1>2. Proposes(Idle)
  BY DEF Proposes, Idle
<1> QED
  BY <1>1, <1>2 DEF SInv, Init

LEMMA SerialStep ==
    ASSUME SInv, IInv', NEW r, Requests = {r}, [Next]_vars
    PROVE  SInv' /\ \A o \in Offers : Follows(offers[o].status, offers'[o].status)
<1>1. CASE Step(r) /\ Commit(r)
  BY <1>1, CommitInChain
<1>2. CASE Step(r) /\ (Compare(r) \/ Abort(r))
  <2>1. SInv'
    BY <1>2, CompareInChain
  <2>2. offers' = offers
    BY <1>2 DEF Compare, Abort
  <2> QED
    BY <2>1, <2>2 DEF Follows
<1>3. CASE Step(r) /\ ~Compare(r) /\ ~Commit(r) /\ ~Abort(r)
  BY <1>3, LookupInChain DEF Follows
<1>4. CASE UNCHANGED vars
  BY <1>4 DEF vars, SInv, Proposes, NextRow, Follows
<1> QED
  BY <1>1, <1>2, <1>3, <1>4 DEF Next

LEMMA SerialInvariant ==
    ASSUME NEW r, Requests = {r}
    PROVE  Spec => []SInv
<1>1. SInv /\ IInv' /\ [Next]_vars => SInv'
  BY SerialStep
<1> QED
  BY <1>1, SerialInit, Invariant, PTL DEF Spec

\* Requests that do not overlap give every sent offer three signatories and
\* terms that the second of them verified.
THEOREM FourEyesSerially ==
    ASSUME NEW r, Requests = {r}
    PROVE  Spec => []FourEyes
<1>1. SInv => FourEyes
  <2> SUFFICES ASSUME SInv, NEW o \in Offers, offers[o].status \in PostApproval
               PROVE  /\ offers[o].checker \in Persons \ {offers[o].maker}
                      /\ offers[o].approver \in
                           Persons \ {offers[o].maker, offers[o].checker}
                      /\ offers[o].terms \in Complete
                      /\ \E x \in records[o] : /\ x.kind = "OFFER_CHECKED"
                                               /\ x.person = offers[o].checker
                                               /\ x.terms = offers[o].terms
    BY DEF FourEyes
  <2>1. Backed(offers[o], records[o])
    BY DEF SInv
  <2> QED
    BY <2>1 DEF Backed
<1> QED
  BY <1>1, SerialInvariant, PTL

\* ... and onboard a client only on the terms that were approved and accepted.
THEOREM AgreedTermsSerially ==
    ASSUME NEW r, Requests = {r}
    PROVE  Spec => []OnboardedOnAgreedTerms
<1>1. SInv => OnboardedOnAgreedTerms
  BY DEF SInv, Agreed, Has, Recorded, OnboardedOnAgreedTerms
<1> QED
  BY <1>1, SerialInvariant, PTL

\* ... and move every offer along the chain of the header comment.
THEOREM ChainSerially ==
    ASSUME NEW r, Requests = {r}
    PROVE  Spec => ChainIsFollowed
<1>1. SInv /\ IInv' /\ [Next]_vars =>
        [\A o \in Offers : \/ offers'[o].status = offers[o].status
                           \/ <<offers[o].status, offers'[o].status>> \in ChainEdges]_vars
  BY SerialStep DEF Follows
<1> QED
  BY <1>1, SerialInvariant, Invariant, PTL DEF Spec, ChainIsFollowed
-----------------------------------------------------------------------------
(* Settled once.  The guards of an answer and of a confirmation read the   *)
(* status and the fee column; what makes them enough is that with one      *)
(* request in flight the row still says what the records say.              *)

\* The row tells every answer and every confirmation there is a record of.
Settled(row, R) ==
    /\ Holds(R, "ACCEPTED") => row.status = "ACCEPTED"
    /\ Holds(R, "DECLINED") => row.status \in {"DECLINED", "CLOSED_ARCHIVED"}
    /\ Holds(R, "CLIENT_ONBOARDED") =>
         row.status = "ACCEPTED" /\ row.feeConfirmedBy # NONE
    /\ \A x, y \in R : x.kind = "CLIENT_ONBOARDED" /\ y.kind = "CLIENT_ONBOARDED" => x = y

Settles(p) ==
    p.op \in {"update", "write"} => Settled(p.row, records[p.offer] \cup p.records)

SettledInv ==
    /\ \A o \in Offers : Settled(offers[o], records[o])
    /\ \A r \in Requests : Settles(pending[r])

LEMMA LookupSettles ==
    ASSUME SInv, SettledInv, NEW r, Requests = {r}, NEW o \in Offers, NEW row, NEW recs,
           Begin(r, Update(o, row, recs)), Settled(row, records[o] \cup recs)
    PROVE  SettledInv'
<1>1. /\ pending' = [pending EXCEPT ![r] = Update(o, row, recs)]
      /\ UNCHANGED <<offers, records>> /\ pending \in [Requests -> Pending]
  BY DEF Begin, SInv, IInv, TypeOK
<1>2. Settles(Update(o, row, recs))
  BY DEF Settles, Update
<1>3. pending'[r] = Update(o, row, recs)
  BY <1>1
<1> QED
  BY <1>1, <1>2, <1>3 DEF SettledInv, Settles

\* A row that is not accepted has nothing to lose but a declined answer.
LEMMA QuietSettles ==
    ASSUME SInv, SettledInv, NEW r, Requests = {r}, NEW o \in Offers, NEW row, NEW recs,
           Begin(r, Update(o, row, recs)), offers[o].status # "ACCEPTED",
           offers[o].status \in {"DECLINED", "CLOSED_ARCHIVED"} =>
             row.status \in {"DECLINED", "CLOSED_ARCHIVED"},
           \A x \in recs : x.kind \notin {"ACCEPTED", "DECLINED", "CLIENT_ONBOARDED"}
    PROVE  SettledInv'
<1>1. Settled(offers[o], records[o])
  BY DEF SettledInv
<1>2. /\ ~Holds(records[o] \cup recs, "ACCEPTED")
      /\ ~Holds(records[o] \cup recs, "CLIENT_ONBOARDED")
  BY <1>1 DEF Settled, Holds
<1>3. Settled(row, records[o] \cup recs)
  BY <1>1, <1>2 DEF Settled, Holds
<1> QED
  BY <1>3, LookupSettles

\* The chain up to the sending, and what follows it but for the answers.
LEMMA ChainSettles ==
    ASSUME SInv, SettledInv, NEW r, Requests = {r}, NEW o \in Offers, NEW p,
           \/ Save(r, o) \/ Submit(r, o) \/ ReturnToDraft(r, o) \/ Reject(r, o)
           \/ Check(r, o, p) \/ Approve(r, o, p)
           \/ Refresh(r, o) \/ Close(r, o) \/ OnAcceptanceBreach(r, o)
    PROVE  SettledInv'
<1> DEFINE row == offers[o]
           t   == offers[o].terms
<1>1. row \in Row
  BY DEF SInv, IInv, TypeOK
<1>2. \A kind \in {"OFFER_CHECKED", "OFFER_APPROVED_SENT", "CRA_CANCEL", "ACCEPTANCE_START"} :
        \A q : \A x \in By(kind, q, t) : x.kind \notin {"ACCEPTED", "DECLINED", "CLIENT_ONBOARDED"}
  BY DEF By
<1>3. CASE Save(r, o)
  <2>1. PICK new : Begin(r, Update(o, new, {}))
    BY <1>3 DEF Save
  <2>2. row.status = "DRAFT"
    BY <1>3 DEF Save
  <2> QED
    BY <2>1, <2>2, QuietSettles
<1>4. CASE Submit(r, o) \/ ReturnToDraft(r, o) \/ Reject(r, o)
  <2>1. PICK new : Begin(r, Update(o, new, {}))
    BY <1>4 DEF Submit, ReturnToDraft, Reject
  <2>2. row.status \in {"DRAFT", "PENDING_CHECK", "CHECKED"}
    BY <1>4 DEF Submit, ReturnToDraft, Reject
  <2> QED
    BY <2>1, <2>2, QuietSettles
<1>5. CASE Check(r, o, p)
  <2>1. PICK new : Begin(r, Update(o, new, By("OFFER_CHECKED", p, t)))
    BY <1>5 DEF Check
  <2>2. row.status = "PENDING_CHECK"
    BY <1>5 DEF Check
  <2> QED
    BY <1>2, <2>1, <2>2, QuietSettles
<1>6. CASE Approve(r, o, p)
  <2> DEFINE recs == By("OFFER_APPROVED_SENT", p, t)
                       \cup Of("CRA_CANCEL", t) \cup Of("ACCEPTANCE_START", t)
  <2>1. PICK new : Begin(r, Update(o, new, recs))
    BY <1>6 DEF Approve
  <2>2. row.status = "CHECKED"
    BY <1>6 DEF Approve
  <2>3. \A x \in recs : x.kind \notin {"ACCEPTED", "DECLINED", "CLIENT_ONBOARDED"}
    BY <1>2 DEF Of
  <2> HIDE DEF recs
  <2> QED
    BY <2>1, <2>2, <2>3, QuietSettles
<1>7. CASE Refresh(r, o)
  <2>1. PICK new : Begin(r, Update(o, new, Of("ACCEPTANCE_START", t)))
    BY <1>7 DEF Refresh
  <2>2. row.status = "LAPSED"
    BY <1>7 DEF Refresh
  <2> QED
    BY <1>2, <2>1, <2>2, QuietSettles DEF Of
<1>8. CASE Close(r, o)
  <2> DEFINE new == [row EXCEPT !.status = "CLOSED_ARCHIVED"]
  <2>1. Begin(r, Update(o, new, {}))
    BY <1>8 DEF Close
  <2>2. row.status # "ACCEPTED" /\ new.status = "CLOSED_ARCHIVED"
    BY <1>1, <1>8 DEF Close, Row
  <2> HIDE DEF new
  <2> QED
    BY <2>1, <2>2, QuietSettles
<1>9. CASE OnAcceptanceBreach(r, o)
  <2>1. PICK new : Begin(r, Update(o, new, {}))
    BY <1>9 DEF OnAcceptanceBreach
  <2>2. row.status = "SENT"
    BY <1>9 DEF OnAcceptanceBreach
  <2> QED
    BY <2>1, <2>2, QuietSettles
<1> QED
  BY <1>3, <1>4, <1>5, <1>6, <1>7, <1>8, <1>9

\* An answer meets a sent offer, which nobody has answered.
LEMMA AnswerSettles ==
    ASSUME SInv, SettledInv, NEW r, Requests = {r}, NEW o \in Offers,
           NEW decision \in {"ACCEPTED", "DECLINED"},
           NEW kind \in {"RM_RESOLVED", decision}, offers[o].status = "SENT",
           Begin(r, Update(o, [offers[o] EXCEPT !.status = decision],
                           Of(kind, offers[o].terms)
                             \cup Of("ACCEPTANCE_CANCEL", offers[o].terms)))
    PROVE  SettledInv'
<1> DEFINE t    == offers[o].terms
           recs == Of(kind, t) \cup Of("ACCEPTANCE_CANCEL", t)
           new  == [offers[o] EXCEPT !.status = decision]
<1>1. offers[o] \in Row /\ Settled(offers[o], records[o])
  BY DEF SInv, IInv, TypeOK, SettledInv
<1>2. new.status = decision
  BY <1>1 DEF Row
<1>3. \A x \in recs : x.kind \in {kind, "ACCEPTANCE_CANCEL"}
  BY DEF By, Of
<1>4. /\ ~Holds(records[o], "ACCEPTED") /\ ~Holds(records[o], "DECLINED")
      /\ ~Holds(records[o], "CLIENT_ONBOARDED")
  BY <1>1 DEF Settled
<1>5. Begin(r, Update(o, new, recs))
  OBVIOUS
<1> HIDE DEF recs, new
<1>6. Settled(new, records[o] \cup recs)
  BY <1>2, <1>3, <1>4 DEF Settled, Holds
<1> QED
  BY <1>5, <1>6, LookupSettles

\* A confirmation meets an accepted offer without a fee column.
LEMMA ConfirmSettles ==
    ASSUME ConstantsAssumption, SInv, SettledInv, NEW r, Requests = {r},
           NEW o \in Offers, NEW p \in Persons, ConfirmRegistrationFee(r, o, p)
    PROVE  SettledInv'
<1> DEFINE new  == [offers[o] EXCEPT !.feeConfirmedBy = p]
           recs == By("CLIENT_ONBOARDED", p, offers[o].terms)
<1>1. offers[o] \in Row /\ Settled(offers[o], records[o])
  BY DEF SInv, IInv, TypeOK, SettledInv
<1>2. /\ offers[o].status = "ACCEPTED" /\ offers[o].feeConfirmedBy = NONE
      /\ Begin(r, Update(o, new, recs))
  BY DEF ConfirmRegistrationFee
<1>3. new.status = "ACCEPTED" /\ new.feeConfirmedBy = p /\ p # NONE
  BY <1>1, <1>2 DEF Row, ConstantsAssumption
<1>4. /\ \A x \in recs : x.kind = "CLIENT_ONBOARDED"
      /\ \A x, y \in recs : x = y
  BY DEF By
<1>5. ~Holds(records[o], "CLIENT_ONBOARDED") /\ ~Holds(records[o], "DECLINED")
  BY <1>1, <1>2 DEF Settled
<1> HIDE DEF recs, new
<1>6. Settled(new, records[o] \cup recs)
  BY <1>3, <1>4, <1>5 DEF Settled, Holds
<1> QED
  BY <1>2, <1>6, LookupSettles

LEMMA CreateSettles ==
    ASSUME SInv, SettledInv, NEW r, Requests = {r}, NEW p, NEW a, Create(r, p, a)
    PROVE  SettledInv'
<1>1. PICK t : Begin(r, [op |-> "insert", row |-> DraftRow(p, a, t),
                         records |-> Of("CRA_START", t)])
  BY DEF Create
<1>2. /\ pending' = [pending EXCEPT ![r] = [op |-> "insert", row |-> DraftRow(p, a, t),
                                            records |-> Of("CRA_START", t)]]
      /\ UNCHANGED <<offers, records>> /\ pending \in [Requests -> Pending]
  BY <1>1 DEF Begin, SInv, IInv, TypeOK
<1>3. pending'[r].op = "insert"
  BY <1>2
<1> QED
  BY <1>2, <1>3 DEF SettledInv, Settles

LEMMA CommitSettles ==
    ASSUME SInv, SettledInv, NEW r, Requests = {r}, Commit(r)
    PROVE  SettledInv'
<1> DEFINE p == pending[r]
<1>1. /\ offers \in [Offers -> Row] /\ records \in [Offers -> SUBSET Record]
      /\ p \in Pending /\ PendingOK(p) /\ Proposes(p) /\ Settles(p)
      /\ pending' = [pending EXCEPT ![r] = Idle] /\ pending \in [Requests -> Pending]
  BY DEF SInv, IInv, TypeOK, Commit, SettledInv
<1>2. Settles(pending[r])'
  BY <1>1 DEF Settles, Idle
<1>3. ASSUME NEW o \in Offers, NEW row, Write(o, row, p.records),
             Settled(row, records[o] \cup p.records)
      PROVE  SettledInv'
  <2>1. /\ offers' = [offers EXCEPT ![o] = row]
        /\ records' = [records EXCEPT ![o] = records[o] \cup p.records]
    BY <1>3 DEF Write
  <2>2. ASSUME NEW x \in Offers PROVE Settled(offers'[x], records'[x])
    <3>1. CASE x = o
      BY <1>1, <1>3, <2>1, <3>1
    <3>2. CASE x # o
      BY <1>1, <2>1, <3>2 DEF SettledInv
    <3> QED
      BY <3>1, <3>2
  <2> QED
    BY <1>2, <2>2 DEF SettledInv
<1>4. CASE p.op = "insert"
  <2>1. PICK o \in Offers : NextId(o) /\ Write(o, p.row, p.records)
    BY <1>4 DEF Commit
  <2>2. \A x \in p.records : x.kind = "CRA_START"
    BY <1>1, <1>4 DEF PendingOK
  <2>3. Settled(offers[o], records[o]) /\ offers[o].status = "ABSENT"
    BY <2>1 DEF NextId, SettledInv
  <2> HIDE DEF p
  <2>4. Settled(p.row, records[o] \cup p.records)
    BY <2>2, <2>3 DEF Settled, Holds
  <2> QED
    BY <1>3, <2>1, <2>4
<1>5. CASE p.op = "write"
  <2>1. /\ p.offer \in Offers
        /\ Write(p.offer, Merge(offers[p.offer], p.row, p.changed), p.records)
    BY <1>1, <1>5 DEF Commit, Pending, Idle
  <2>2. /\ Settled(p.row, records[p.offer] \cup p.records)
        /\ Merge(offers[p.offer], p.row, p.changed) = p.row
    BY <1>1, <1>5 DEF Proposes, Settles
  <2> HIDE DEF p
  <2> QED
    BY <1>3, <2>1, <2>2
<1> QED
  BY <1>4, <1>5 DEF Commit

LEMMA CompareSettles ==
    ASSUME SInv, SettledInv, NEW r, Requests = {r}, Compare(r) \/ Abort(r)
    PROVE  SettledInv'
<1> DEFINE p == pending[r]
<1>1. /\ Settles(p) /\ pending \in [Requests -> Pending]
      /\ UNCHANGED <<offers, records>>
  BY DEF SInv, IInv, TypeOK, Compare, Abort, SettledInv
<1>2. \/ pending'[r] = Idle
      \/ /\ p.op = "update"
         /\ pending'[r] = [op |-> "write", offer |-> p.offer, row |-> p.row,
                           changed |-> Changed(offers[p.offer], p.row),
                           records |-> p.records]
  BY <1>1 DEF Compare, Abort
<1>3. \/ Settled(pending'[r].row, records[pending'[r].offer] \cup pending'[r].records)
      \/ pending'[r].op = "idle"
  <2>1. CASE pending'[r] = Idle
    BY <2>1 DEF Idle
  <2>2. CASE pending'[r] # Idle
    <3>1. /\ p.op = "update" /\ pending'[r].row = p.row
          /\ pending'[r].offer = p.offer /\ pending'[r].records = p.records
      BY <1>2, <2>2
    <3> HIDE DEF p
    <3> QED
      BY <1>1, <3>1 DEF Settles
  <2> QED
    BY <2>1, <2>2
<1> QED
  BY <1>1, <1>3 DEF SettledInv, Settles

LEMMA SettledStep ==
    ASSUME ConstantsAssumption, SInv, SettledInv, NEW r, Requests = {r}, [Next]_vars
    PROVE  SettledInv'
<1>1. CASE Compare(r) \/ Abort(r)
  BY <1>1, CompareSettles
<1>2. CASE Commit(r)
  BY <1>2, CommitSettles
<1>3. CASE \E p \in Persons, a \in Applications : Create(r, p, a)
  BY <1>3, CreateSettles
<1>4. ASSUME NEW o \in Offers, NEW p,
             \/ Save(r, o) \/ Submit(r, o) \/ ReturnToDraft(r, o) \/ Reject(r, o)
             \/ Check(r, o, p) \/ Approve(r, o, p)
             \/ Refresh(r, o) \/ Close(r, o) \/ OnAcceptanceBreach(r, o)
      PROVE  SettledInv'
  BY <1>4, ChainSettles
<1>5. ASSUME NEW o \in Offers, NEW d \in {"ACCEPTED", "DECLINED"}, Resolve(r, o, d)
      PROVE  SettledInv'
  BY <1>5, AnswerSettles DEF Resolve
<1>6. ASSUME NEW a \in Applications, NEW d \in {"ACCEPTED", "DECLINED"}, Respond(r, a, d)
      PROVE  SettledInv'
  <2>1. PICK o \in Offers :
          /\ offers[o].status = "SENT"
          /\ Begin(r, Update(o, [offers[o] EXCEPT !.status = d],
                             Of(d, offers[o].terms)
                               \cup Of("ACCEPTANCE_CANCEL", offers[o].terms)))
    BY <1>6 DEF Respond, OwnOffer
  <2> QED
    BY <2>1, AnswerSettles
<1>7. ASSUME NEW o \in Offers, NEW p \in Persons, ConfirmRegistrationFee(r, o, p)
      PROVE  SettledInv'
  BY <1>7, ConfirmSettles
<1>8. CASE UNCHANGED vars
  BY <1>8 DEF vars, SettledInv, Settles
<1>9. ASSUME NEW o \in Offers, NEW p \in Persons, Check(r, o, p) \/ Approve(r, o, p)
      PROVE  SettledInv'
  BY <1>4, <1>9
<1>10. ASSUME NEW o \in Offers,
              \/ Save(r, o) \/ Submit(r, o) \/ ReturnToDraft(r, o) \/ Reject(r, o)
              \/ Refresh(r, o) \/ Close(r, o) \/ OnAcceptanceBreach(r, o)
       PROVE  SettledInv'
  BY <1>4, <1>10
<1>11. CASE Step(r)
  BY <1>1, <1>2, <1>3, <1>5, <1>6, <1>7, <1>9, <1>10, <1>11 DEF Step
<1> QED
  BY <1>8, <1>11 DEF Next

\* With requests that do not overlap, an offer is answered once and its fee is
\* confirmed once: no later lookup finds the offer open again.
THEOREM SettledSerially ==
    ASSUME NEW r, Requests = {r}
    PROVE  Spec => []SettledOnce
<1>1. Init => SettledInv
  <2>1. Settled(AbsentRow, {}) /\ Settles(Idle)
    BY DEF Settled, Holds, Settles, Idle
  <2> QED
    BY <2>1 DEF Init, SettledInv
<1>2. SInv /\ SettledInv /\ [Next]_vars => SettledInv'
  BY ConstantsAssumption, SettledStep
<1>3. SInv /\ SettledInv => SettledOnce
  <2> SUFFICES ASSUME SInv, SettledInv, NEW o \in Offers
               PROVE  /\ ~(EverRecorded(o, "ACCEPTED") /\ EverRecorded(o, "DECLINED"))
                      /\ Cardinality({x \in records[o] : x.kind = "CLIENT_ONBOARDED"}) <= 1
    BY DEF SettledOnce, OneAnswer, FeeConfirmedOnce
  <2> DEFINE S == {x \in records[o] : x.kind = "CLIENT_ONBOARDED"}
  <2>1. Settled(offers[o], records[o])
    BY DEF SettledInv
  <2>2. ~(EverRecorded(o, "ACCEPTED") /\ EverRecorded(o, "DECLINED"))
    BY <2>1 DEF Settled, Holds, EverRecorded, Recorded
  <2>3. S = {} \/ \E x : S = {x}
    BY <2>1 DEF Settled
  <2>4. Cardinality(S) <= 1
    <3>1. Cardinality({}) = 0 /\ \A x : Cardinality({x}) = 1
      BY FS_EmptySet, FS_Singleton
    <3> HIDE DEF S
    <3>2. CASE S = {}
      BY <3>1, <3>2
    <3>3. ASSUME NEW x, S = {x} PROVE Cardinality(S) <= 1
      <4>1. Cardinality(S) = 1
        BY <3>1, <3>3
      <4> QED
        BY <4>1
    <3> QED
      BY <2>3, <3>2, <3>3
  <2> QED
    BY <2>2, <2>4
<1> QED
  BY <1>1, <1>2, <1>3, SerialInvariant, PTL DEF Spec
=============================================================================
