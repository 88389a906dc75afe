------------------------------- MODULE Documents -------------------------------
(***************************************************************************)
(* The documents of apps/document-management: uploads, the cron that reads *)
(* them in batches in every instance of the service, and the requests and  *)
(* the validation consumer that act on what was read.                      *)
(*                                                                         *)
(* A request reads the document, checks its status and updates the row by  *)
(* its id later, so it is a step that leaves a job and the job's commit.   *)
(* Only the cron's claim asks for the status again.                        *)
(***************************************************************************)
EXTENDS Naturals, FiniteSets

CONSTANTS
    Docs,        \* documents, in the order of their creation
    Instances,   \* instances of the service
    Requests,    \* requests in flight
    BatchSize,   \* documents a run of the cron takes on
    MaxFaults    \* bound on runs of the cron that die

VARIABLES
    doc,        \* document -> status and class
    cron,       \* instance -> its run of handlePendingExtractions
    job,        \* request -> the update it is about to commit
    reads,      \* document -> extractions that ended
    submitted,  \* document -> INVOICE_EXTRACTION_VALIDATED events recorded
    abandoned,  \* documents in the hands of a run that died
    faults

vars == <<doc, cron, job, reads, submitted, abandoned, faults>>

Classes == {"INVOICE", "ONBOARDING", "OTHER"}
Status == {"ABSENT", "UPLOADED", "EXTRACTING", "EXTRACTED", "EXTRACTION_FAILED",
           "INVOICE_MISMATCH", "DISCREPANCY_FLAGGED", "VALIDATED", "ARCHIVED"}

Asleep == [phase |-> "asleep", batch |-> {}]
NoJob == [to |-> "nothing"]

Init ==
    /\ doc = [d \in Docs |-> [status |-> "ABSENT", class |-> "OTHER"]]
    /\ cron = [i \in Instances |-> Asleep]
    /\ job = [r \in Requests |-> NoJob]
    /\ reads = [d \in Docs |-> 0]
    /\ submitted = [d \in Docs |-> 0]
    /\ abandoned = {}
    /\ faults = 0

Is(d, status) == doc[d].status = status
First(S) == CHOOSE d \in S : \A x \in S : d <= x

Upload(d, class) ==
    /\ Is(d, "ABSENT")
    /\ \A x \in Docs : x < d => ~Is(x, "ABSENT")
    /\ doc' = [doc EXCEPT ![d] = [status |-> "UPLOADED", class |-> class]]
    /\ UNCHANGED <<cron, job, reads, submitted, abandoned, faults>>

-----------------------------------------------------------------------------
(* The cron. *)

Waiting == {d \in Docs : Is(d, "UPLOADED") /\ doc[d].class # "OTHER"}

\* The oldest documents that wait, up to a batch.
Batches == {b \in SUBSET Waiting :
              /\ Cardinality(b) <= BatchSize
              /\ b = Waiting \/ Cardinality(b) = BatchSize
              /\ \A d \in b, x \in Waiting \ b : d < x}

\* isRunning keeps a run from overlapping an earlier one of its instance.
Wake(i) ==
    /\ cron[i] = Asleep
    /\ Waiting # {}
    /\ \E b \in Batches : cron' = [cron EXCEPT ![i] = [phase |-> "claim", batch |-> b]]
    /\ UNCHANGED <<doc, job, reads, submitted, abandoned, faults>>

InHand(i) == First(cron[i].batch)

\* The run goes on to the rest of its batch, or ends.
Rest(i) ==
    LET rest == cron[i].batch \ {InHand(i)} IN
      IF rest = {} THEN Asleep ELSE [phase |-> "claim", batch |-> rest]

\* Mutant: the claim does not ask for the status.
ClaimAny(i) ==
    /\ cron[i].phase = "claim"
    /\ doc' = [doc EXCEPT ![InHand(i)].status = "EXTRACTING"]
    /\ cron' = [cron EXCEPT ![i].phase = "read"]
    /\ UNCHANGED <<job, reads, submitted, abandoned, faults>>

\* The claim succeeds on a document that still waits.
Claim(i) ==
    /\ cron[i].phase = "claim"
    /\ IF Is(InHand(i), "UPLOADED")
       THEN /\ doc' = [doc EXCEPT ![InHand(i)].status = "EXTRACTING"]
            /\ cron' = [cron EXCEPT ![i].phase = "read"]
       ELSE /\ cron' = [cron EXCEPT ![i] = Rest(i)]
            /\ UNCHANGED doc
    /\ UNCHANGED <<job, reads, submitted, abandoned, faults>>

\* Whatever has become of the document meanwhile, its row is written.
Ends(i, status) ==
    LET d == InHand(i) IN
      /\ cron[i].phase = "read"
      /\ doc' = [doc EXCEPT ![d].status = status]
      /\ reads' = [reads EXCEPT ![d] = @ + 1]
      /\ submitted' = [submitted EXCEPT ![d] = IF status = "VALIDATED" THEN @ + 1 ELSE @]
      /\ cron' = [cron EXCEPT ![i] = Rest(i)]
      /\ UNCHANGED <<job, abandoned, faults>>

\* Mutant: the gate's result is saved for the status.
ExtractResult(i) == \E result \in {"PASSED", "FAILED"} : Ends(i, result)

\* An invoice passes the arithmetic gate at once or does not.
Extract(i) ==
    /\ cron[i].phase = "read"
    /\ \E status \in IF doc[InHand(i)].class = "INVOICE"
                     THEN {"VALIDATED", "INVOICE_MISMATCH"} ELSE {"EXTRACTED"} :
         Ends(i, status)

\* No text, or no answer from a service the extraction calls.
Fail(i) == Ends(i, "EXTRACTION_FAILED")

\* The process dies, or the statement after the claim or the failure throws.
Die(i) ==
    /\ cron[i] # Asleep
    /\ faults < MaxFaults
    /\ faults' = faults + 1
    /\ abandoned' = IF cron[i].phase = "read" THEN abandoned \cup {InHand(i)}
                    ELSE abandoned
    /\ cron' = [cron EXCEPT ![i] = Asleep]
    /\ UNCHANGED <<doc, job, reads, submitted>>

-----------------------------------------------------------------------------
(* Requests, and the consumer of DOCUMENT_VALIDATION_DATA. *)

Begin(r, d, to, submits) ==
    /\ job[r] = NoJob
    /\ job' = [job EXCEPT ![r] = [to |-> to, doc |-> d, submits |-> submits]]
    /\ UNCHANGED <<doc, cron, reads, submitted, abandoned, faults>>

ApplyValidationData(r, d) ==
    /\ Is(d, "EXTRACTED")
    /\ \E to \in {"DISCREPANCY_FLAGGED", "VALIDATED"} : Begin(r, d, to, 0)

ClearDiscrepancies(r, d) == Is(d, "DISCREPANCY_FLAGGED") /\ Begin(r, d, "VALIDATED", 0)

\* Mutant: an invoice can be reconciled again.
ReconcileAgain(r, d) ==
    /\ doc[d].class = "INVOICE"
    /\ Is(d, "INVOICE_MISMATCH") \/ Is(d, "VALIDATED")
    /\ Begin(r, d, "VALIDATED", 1)

\* The corrected figures pass the gate and the invoice is submitted.
ReconcileInvoice(r, d) == Is(d, "INVOICE_MISMATCH") /\ Begin(r, d, "VALIDATED", 1)

Archive(r, d) ==
    /\ ~Is(d, "ABSENT") /\ ~Is(d, "ARCHIVED")
    /\ Begin(r, d, "ARCHIVED", 0)

Commit(r) ==
    /\ job[r] # NoJob
    /\ LET d == job[r].doc IN
         /\ doc' = [doc EXCEPT ![d].status = job[r].to]
         /\ submitted' = [submitted EXCEPT ![d] = @ + job[r].submits]
    /\ job' = [job EXCEPT ![r] = NoJob]
    /\ UNCHANGED <<cron, reads, abandoned, faults>>

\* The transaction fails.
Abort(r) ==
    /\ job[r] # NoJob
    /\ job' = [job EXCEPT ![r] = NoJob]
    /\ UNCHANGED <<doc, cron, reads, submitted, abandoned, faults>>

Run(i) == Wake(i) \/ Claim(i) \/ Extract(i) \/ Fail(i)

Request(r) ==
    \/ Commit(r) \/ Abort(r)
    \/ \E d \in Docs : \/ ApplyValidationData(r, d) \/ ClearDiscrepancies(r, d)
                       \/ ReconcileInvoice(r, d) \/ Archive(r, d)

Other ==
    \/ \E i \in Instances : Run(i) \/ Die(i)
    \/ \E d \in Docs, class \in Classes : Upload(d, class)

Next == Other \/ \E r \in Requests : Request(r)

Spec == Init /\ [][Next]_vars

-----------------------------------------------------------------------------
\* Every variable holds a value the code can give it.
TypeOK ==
    /\ doc \in [Docs -> [status : Status, class : Classes]]
    /\ cron \in [Instances -> [phase : {"asleep", "claim", "read"}, batch : SUBSET Docs]]
    /\ job \in [Requests -> {NoJob} \cup [to : Status, doc : Docs, submits : {0, 1}]]
    /\ reads \in [Docs -> Nat] /\ submitted \in [Docs -> Nat]
    /\ abandoned \subseteq Docs
    /\ faults \in 0..MaxFaults

\* document-extraction.processor.ts: the claim "guards against a second
\* instance": no document is extracted, and announced, twice.
ReadOnce == \A d \in Docs : reads[d] <= 1

\* Where requests do not overlap, an invoice is submitted once, by the gate or
\* by a reconciliation, however the cron runs beside them.
SubmittedOnce == \A d \in Docs : submitted[d] <= 1

\* Every document that waits is read in the end, unless a run died with it.
EveryUploadIsRead ==
    \A d \in Docs :
        d \in Waiting ~> doc[d].status \notin {"UPLOADED", "EXTRACTING"} \/ d \in abandoned

\* documents.service.ts: archived "is a metadata state": an extraction under way
\* writes over it, also of requests that do not overlap.
ArchivedStays == [][\A d \in Docs : Is(d, "ARCHIVED") => doc'[d].status = "ARCHIVED"]_vars
=============================================================================
