----------------------------- MODULE JourneyProofs -----------------------------
(***************************************************************************)
(* Proofs about the journey: its windows, documents and trade network, its *)
(* queue of applicants and its rate cards, for any number of each, and of  *)
(* instances and requests; and the three agreements of its runs, for       *)
(* requests that do not overlap.                                           *)
(***************************************************************************)
EXTENDS Journey, Sequences, SequenceTheorems, FiniteSetTheorems, WellFoundedInduction, TLAPS

-----------------------------------------------------------------------------
(* The acceptance window.  A window that is over has had its timer breach, *)
(* and its breach handled: what lapses the offer next is its own window's. *)

Over(w) == timers[w] = "BREACHED" /\ Window!Msg("BREACHED", w) \notin messages

Told(w) ==
    /\ timers[w] # "none" => Window!Msg("START", w) \notin messages
    /\ Window!Msg("BREACHED", w) \in messages => timers[w] = "BREACHED"

WindowInv ==
    /\ offer \in {"SENT", "ANSWERED", "LAPSED", "CLOSED_ARCHIVED"}
    /\ window \in Window!Windows
    /\ timers \in [Window!Windows -> {"none", "RUNNING", "BREACHED", "CANCELLED"}]
    /\ \A w \in Window!Windows : Told(w)
    /\ \A w \in Window!Windows : w > window =>
         timers[w] = "none" /\ Window!Msg("START", w) \notin messages
    /\ repeated = {} =>
         /\ \A w \in Window!Windows : w < window => Over(w)
         /\ offer = "LAPSED" => lapsedBy = window /\ Over(window)

LEMMA MessagesDiffer ==
    ASSUME NEW w, NEW x
    PROVE  /\ Window!Msg("START", w) # Window!Msg("BREACHED", x)
           /\ Window!Msg("START", w) # Window!Msg("CANCEL", x)
           /\ Window!Msg("BREACHED", w) # Window!Msg("CANCEL", x)
           /\ Window!Msg("START", w) = Window!Msg("START", x) => w = x
           /\ Window!Msg("BREACHED", w) = Window!Msg("BREACHED", x) => w = x
BY DEF Window!Msg

LEMMA WindowInit == Window!Init => WindowInv
<1> SUFFICES ASSUME Window!Init PROVE WindowInv
  OBVIOUS
<1>1. 1 \in Window!Windows /\ \A w \in Window!Windows : w \in Nat /\ w >= 1
  BY JourneyAssumption DEF Window!Windows
<1> QED
  BY <1>1, MessagesDiffer DEF Window!Init, WindowInv, Told

LEMMA WindowAnswer == WindowInv /\ Window!Answer => WindowInv'
<1> SUFFICES ASSUME WindowInv, Window!Answer PROVE WindowInv'
  OBVIOUS
<1> QED
  BY MessagesDiffer DEF WindowInv, Told, Over, Window!Answer, Window!faults

LEMMA WindowRefresh == WindowInv /\ Window!Refresh => WindowInv'
<1> SUFFICES ASSUME WindowInv, Window!Refresh PROVE WindowInv'
  OBVIOUS
<1>1. /\ offer = "LAPSED" /\ offer' = "SENT" /\ window' = window + 1
      /\ messages' = messages \cup {Window!Msg("START", window + 1)}
      /\ timers' = timers /\ lapsedBy' = lapsedBy /\ repeated' = repeated
  BY DEF Window!Refresh, Window!faults
<1>2. window \in Nat /\ window' \in Window!Windows /\ \A w \in Window!Windows : w \in Nat
  BY JourneyAssumption DEF WindowInv, Window!Windows, Window!Refresh
<1>3. ASSUME NEW w \in Window!Windows PROVE Told(w)'
  BY <1>1, <1>2, MessagesDiffer DEF WindowInv, Told
<1>4. ASSUME NEW w \in Window!Windows, w > window'
      PROVE  timers'[w] = "none" /\ Window!Msg("START", w) \notin messages'
  BY <1>1, <1>2, <1>4, MessagesDiffer DEF WindowInv
<1>5. ASSUME repeated' = {}, NEW w \in Window!Windows, w < window' PROVE Over(w)'
  BY <1>1, <1>2, <1>5, MessagesDiffer DEF WindowInv, Over
<1> QED
  BY <1>1, <1>2, <1>3, <1>4, <1>5 DEF WindowInv

LEMMA WindowClose == WindowInv /\ Window!Close => WindowInv'
BY DEF WindowInv, Told, Over, Window!Close, Window!faults

LEMMA WindowOnBreach ==
    ASSUME WindowInv, NEW w \in Window!Windows, Window!OnBreach(w)
    PROVE  WindowInv'
<1>1. /\ Window!Msg("BREACHED", w) \in messages /\ Window!Lapse(w)
      /\ messages' = messages \ {Window!Msg("BREACHED", w)}
      /\ window' = window /\ timers' = timers /\ repeated' = repeated
  BY DEF Window!OnBreach, Window!faults
<1>2. window \in Nat /\ \A x \in Window!Windows : x \in Nat
  BY JourneyAssumption DEF WindowInv, Window!Windows
<1>3. timers[w] = "BREACHED" /\ w <= window
  BY <1>1, <1>2 DEF WindowInv, Told
<1>4. /\ \A x \in Window!Windows : Told(x)'
      /\ \A x \in Window!Windows : Over(x) => Over(x)'
      /\ \A x \in Window!Windows : x > window' =>
           timers'[x] = "none" /\ Window!Msg("START", x) \notin messages'
  BY <1>1 DEF WindowInv, Told, Over
<1>5. ASSUME repeated' = {}, offer' = "LAPSED" PROVE lapsedBy' = window' /\ Over(window)'
  <2>1. CASE offer = "SENT"
    <3>1. w = window
      BY <1>1, <1>2, <1>3, <1>5 DEF WindowInv, Over
    <3> QED
      BY <1>1, <1>3, <2>1, <3>1 DEF Over, Window!Lapse
  <2>2. CASE offer # "SENT"
    BY <1>1, <1>5, <2>2 DEF WindowInv, Over, Window!Lapse
  <2> QED
    BY <2>1, <2>2
<1>6. offer' \in {"SENT", "ANSWERED", "LAPSED", "CLOSED_ARCHIVED"}
  BY <1>1 DEF WindowInv, Window!Lapse
<1> QED
  BY <1>1, <1>4, <1>5, <1>6 DEF WindowInv

LEMMA WindowOnBreachUnrecorded ==
    ASSUME WindowInv, NEW w \in Window!Windows, Window!OnBreachUnrecorded(w)
    PROVE  WindowInv'
BY DEF WindowInv, Told, Over, Window!OnBreachUnrecorded, Window!Lapse

LEMMA WindowOnBreachFails ==
    ASSUME WindowInv, NEW w \in Window!Windows, Window!OnBreachFails(w)
    PROVE  WindowInv'
BY DEF WindowInv, Told, Over, Window!OnBreachFails

\* A start sets the timer of its own window, which has none yet.
LEMMA WindowOnStart ==
    ASSUME WindowInv, NEW w \in Window!Windows, Window!OnStart(w)
    PROVE  WindowInv'
<1>1. /\ Window!Msg("START", w) \in messages
      /\ messages' = messages \ {Window!Msg("START", w)}
      /\ timers' \in {timers, [timers EXCEPT ![w] = "RUNNING"]}
      /\ offer' = offer /\ window' = window /\ lapsedBy' = lapsedBy
      /\ repeated' = repeated
  BY DEF Window!OnStart, Window!faults
<1>2. timers[w] = "none" /\ ~(w > window)
  BY <1>1 DEF WindowInv, Told
<1>3. timers' \in [Window!Windows -> {"none", "RUNNING", "BREACHED", "CANCELLED"}]
  BY <1>1 DEF WindowInv
<1>4. \A x \in Window!Windows : x # w => timers'[x] = timers[x]
  BY <1>1 DEF WindowInv
<1>5. \A x \in Window!Windows :
        Window!Msg("BREACHED", x) \in messages' <=> Window!Msg("BREACHED", x) \in messages
  BY <1>1, MessagesDiffer
<1>6. \A x \in Window!Windows : Told(x)'
  BY <1>1, <1>2, <1>4, <1>5 DEF WindowInv, Told
<1>7. \A x \in Window!Windows : Over(x) => Over(x)'
  BY <1>2, <1>4, <1>5 DEF Over
<1>8. \A x \in Window!Windows : x > window' =>
        timers'[x] = "none" /\ Window!Msg("START", x) \notin messages'
  BY <1>1, <1>2, <1>4 DEF WindowInv
<1> QED
  BY <1>1, <1>3, <1>6, <1>7, <1>8 DEF WindowInv

LEMMA WindowOnCancel ==
    ASSUME WindowInv, NEW w \in Window!Windows, Window!OnCancel(w)
    PROVE  WindowInv'
<1>1. /\ messages' = messages \ {Window!Msg("CANCEL", w)}
      /\ timers' = [x \in Window!Windows |->
                      IF x \in Window!Running THEN "CANCELLED" ELSE timers[x]]
      /\ offer' = offer /\ window' = window /\ lapsedBy' = lapsedBy
      /\ repeated' = repeated
  BY DEF Window!OnCancel, Window!faults
<1>2. timers' \in [Window!Windows -> {"none", "RUNNING", "BREACHED", "CANCELLED"}]
  BY <1>1 DEF WindowInv
<1>3. \A x \in Window!Windows :
        /\ Window!Msg("BREACHED", x) \in messages' <=> Window!Msg("BREACHED", x) \in messages
        /\ Window!Msg("START", x) \in messages' <=> Window!Msg("START", x) \in messages
        /\ timers[x] = "BREACHED" <=> timers'[x] = "BREACHED"
        /\ timers[x] = "none" <=> timers'[x] = "none"
  BY <1>1, MessagesDiffer DEF Window!Running
<1> QED
  BY <1>1, <1>2, <1>3 DEF WindowInv, Told, Over

\* Only the timer of the current window can still be running.
LEMMA WindowBreach ==
    ASSUME WindowInv, NEW w \in Window!Windows, Window!Breach(w)
    PROVE  WindowInv'
<1>1. /\ timers[w] = "RUNNING" /\ timers' = [timers EXCEPT ![w] = "BREACHED"]
      /\ messages' = messages \cup {Window!Msg("BREACHED", w)}
      /\ offer' = offer /\ window' = window /\ lapsedBy' = lapsedBy
      /\ repeated' = repeated
  BY DEF Window!Breach, Window!faults
<1>2. timers' \in [Window!Windows -> {"none", "RUNNING", "BREACHED", "CANCELLED"}]
  BY <1>1 DEF WindowInv
<1>3. \A x \in Window!Windows : Told(x)'
  BY <1>1, MessagesDiffer DEF WindowInv, Told
<1>4. \A x \in Window!Windows : Over(x) => Over(x)'
  BY <1>1, MessagesDiffer DEF WindowInv, Over
<1>5. \A x \in Window!Windows : x > window' =>
        timers'[x] = "none" /\ Window!Msg("START", x) \notin messages'
  BY <1>1, MessagesDiffer DEF WindowInv
<1> QED
  BY <1>1, <1>2, <1>3, <1>4, <1>5 DEF WindowInv

LEMMA WindowNext == WindowInv /\ Window!Next => WindowInv'
<1> SUFFICES ASSUME WindowInv, Window!Next PROVE WindowInv'
  OBVIOUS
<1>1. CASE Window!Answer \/ Window!Refresh \/ Window!Close
  BY <1>1, WindowAnswer, WindowRefresh, WindowClose
<1>2. CASE \E w \in Window!Windows : Window!Handled(w)
  BY <1>2, WindowOnStart, WindowOnCancel, WindowOnBreach DEF Window!Handled
<1>3. CASE \E w \in Window!Windows :
             \/ Window!Breach(w) \/ Window!OnBreachUnrecorded(w)
             \/ Window!OnBreachFails(w)
  BY <1>3, WindowBreach, WindowOnBreachUnrecorded, WindowOnBreachFails
<1> QED
  BY <1>1, <1>2, <1>3 DEF Window!Next

LEMMA WindowStays == WindowInv /\ UNCHANGED sent => WindowInv'
BY DEF WindowInv, Told, Over, sent

\* An offer lapses by its own window's breach: not by the breach of a window
\* before, in whatever order messages are handled, unless a consumer died after
\* it handled one and before it recorded it.
THEOREM LapsesAreOwn == Spec => []LapseIsOwn
<1>1. Init => WindowInv
  BY WindowInit DEF Init
<1>2. WindowInv /\ [Next]_vars => WindowInv'
  BY WindowNext, WindowStays DEF Next, vars
<1>3. WindowInv => LapseIsOwn
  BY DEF WindowInv, LapseIsOwn, Window!LapseIsOwn
<1> QED
  BY <1>1, <1>2, <1>3, PTL DEF Spec

-----------------------------------------------------------------------------
(* The documents.  Whoever is reading a document is the only one, nobody   *)
(* has read it before, and the row says that it does not wait; a document  *)
(* that waits or is not there has no reader.                               *)

Job == {Files!NoJob} \cup [to : {"DISCREPANCY_FLAGGED", "VALIDATED", "ARCHIVED"},
                           doc : Docs, submits : {0, 1}]

FilesTyped ==
    /\ doc \in [Docs -> [status : Files!Status, class : Files!Classes]]
    /\ cron \in [Instances -> [phase : {"asleep", "claim", "read"}, batch : SUBSET Docs]]
    /\ job \in [Requests -> Job]
    /\ reads \in [Docs -> {0, 1}]
    /\ submitted \in [Docs -> Nat]

Awake(i) == cron[i].phase # "asleep" => cron[i].batch # {}

Reads(i, d) == cron[i].phase = "read" /\ Files!InHand(i) = d

Fresh(d) == doc[d].status \in {"ABSENT", "UPLOADED"}

ReadersInv ==
    /\ \A i \in Instances : Awake(i)
    /\ \A d \in Docs : Fresh(d) => reads[d] = 0
    /\ \A i \in Instances, d \in Docs : Reads(i, d) => ~Fresh(d) /\ reads[d] = 0
    /\ \A i, j \in Instances, d \in Docs : Reads(i, d) /\ Reads(j, d) => i = j

\* What waits for its reconciliation was read and has not been submitted.
Unsubmitted(d) == submitted[d] = 0 /\ reads[d] = 1

SubmissionsInv ==
    /\ \A d \in Docs : submitted[d] \in {0, 1}
    /\ \A d \in Docs : doc[d].status = "INVOICE_MISMATCH" => Unsubmitted(d)
    /\ \A d \in Docs : submitted[d] = 1 => reads[d] = 1
    /\ \A r \in Requests : job[r] # Files!NoJob /\ job[r].submits = 1
                             => Unsubmitted(job[r].doc)
    /\ \A r, q \in Requests : job[r] # Files!NoJob /\ job[q] # Files!NoJob => r = q

FilesInv == FilesTyped /\ ReadersInv /\ (alone => SubmissionsInv)

\* A set of numbers that is not empty has a smallest one.
LEMMA SmallestExists ==
    ASSUME NEW S \in SUBSET Nat, S # {}
    PROVE  \E d \in S : \A x \in S : d <= x
<1> DEFINE R == OpToRel(<, Nat)
<1>1. IsWellFoundedOn(R, Nat)
  BY NatLessThanWellFounded
<1> HIDE DEF R
<1>2. PICK d \in S : \A x \in S : <<x, d>> \notin R
  BY <1>1, WFMin
<1>3. ASSUME NEW x \in S PROVE d <= x
  <2>1. ~(x < d)
    BY <1>2 DEF R, OpToRel
  <2> QED
    BY <2>1
<1> QED
  BY <1>3

LEMMA InHandIsInBatch ==
    ASSUME FilesInv, NEW i \in Instances, cron[i].phase # "asleep"
    PROVE  Files!InHand(i) \in cron[i].batch /\ Files!InHand(i) \in Docs
<1>1. cron[i].batch \in SUBSET Docs /\ cron[i].batch # {}
  BY DEF FilesInv, FilesTyped, ReadersInv, Awake
<1>2. \E d \in cron[i].batch : \A x \in cron[i].batch : d <= x
  BY <1>1, SmallestExists, JourneyAssumption
<1> QED
  BY <1>1, <1>2 DEF Files!InHand, Files!First

LEMMA FilesInit == Files!Init => FilesInv
<1> SUFFICES ASSUME Files!Init PROVE FilesInv
  OBVIOUS
<1>1. FilesTyped
  BY DEF Files!Init, FilesTyped, Files!Status, Files!Classes, Files!Asleep, Job
<1>2. ReadersInv
  BY DEF Files!Init, ReadersInv, Awake, Reads, Fresh, Files!Asleep
<1>3. SubmissionsInv
  BY DEF Files!Init, SubmissionsInv, Unsubmitted
<1> QED
  BY <1>1, <1>2, <1>3 DEF FilesInv

LEMMA FilesUpload ==
    ASSUME FilesInv, alone' = alone, NEW d \in Docs, NEW class \in Files!Classes,
           Files!Upload(d, class)
    PROVE  FilesInv'
<1>1. /\ doc[d].status = "ABSENT"
      /\ doc' = [doc EXCEPT ![d] = [status |-> "UPLOADED", class |-> class]]
      /\ cron' = cron /\ job' = job /\ reads' = reads /\ submitted' = submitted
  BY DEF Files!Upload, Files!Is
<1>2. FilesTyped'
  BY <1>1 DEF FilesInv, FilesTyped, Files!Status
<1>3. \A x \in Docs : Fresh(x)' <=> Fresh(x)
  BY <1>1 DEF FilesInv, FilesTyped, Fresh
<1>4. ReadersInv'
  BY <1>1, <1>3 DEF FilesInv, ReadersInv, Awake, Reads, Files!InHand
<1>5. \A x \in Docs : doc'[x].status = "INVOICE_MISMATCH"
                        => doc[x].status = "INVOICE_MISMATCH"
  BY <1>1 DEF FilesInv, FilesTyped
<1>6. alone => SubmissionsInv'
  BY <1>1, <1>5 DEF FilesInv, SubmissionsInv, Unsubmitted
<1> QED
  BY <1>2, <1>4, <1>6 DEF FilesInv

\* A step of the cron that does not touch a document keeps the invariant if the
\* instance reads nothing after it.
LEMMA FilesRests ==
    ASSUME FilesInv, alone' = alone, NEW i \in Instances,
           NEW c \in [phase : {"asleep", "claim"}, batch : SUBSET Docs],
           c.phase # "asleep" => c.batch # {},
           cron' = [cron EXCEPT ![i] = c],
           doc' = doc, job' = job, reads' = reads, submitted' = submitted
    PROVE  FilesInv'
<1>1. FilesTyped'
  BY DEF FilesInv, FilesTyped
<1>2. /\ cron'[i] = c /\ \A x \in Instances : x # i => cron'[x] = cron[x]
  BY DEF FilesInv, FilesTyped
<1>3. \A x \in Instances, d \in Docs : Reads(x, d)' => Reads(x, d)
  BY <1>2 DEF Reads, Files!InHand
<1>4. ReadersInv'
  BY <1>2, <1>3 DEF FilesInv, ReadersInv, Awake, Fresh
<1>5. alone => SubmissionsInv'
  BY DEF FilesInv, SubmissionsInv, Unsubmitted
<1> QED
  BY <1>1, <1>4, <1>5 DEF FilesInv

\* The instance of Documents counts as FiniteSets does.
LEMMA EmptyCount == Files!Cardinality({}) = 0
BY FS_EmptySet DEF Files!Cardinality, Cardinality, Files!IsFiniteSet, IsFiniteSet

LEMMA FilesWake ==
    ASSUME FilesInv, alone' = alone, NEW i \in Instances, Files!Wake(i)
    PROVE  FilesInv'
<1>1. PICK b \in Files!Batches : cron' = [cron EXCEPT ![i] = [phase |-> "claim", batch |-> b]]
  BY DEF Files!Wake
<1>2. /\ Files!Waiting # {} /\ b \in SUBSET Files!Waiting
      /\ b = Files!Waiting \/ Files!Cardinality(b) = BatchSize
  BY <1>1 DEF Files!Wake, Files!Batches
<1>3. b # {} /\ b \in SUBSET Docs
  BY <1>2, EmptyCount, JourneyAssumption DEF Files!Waiting
<1> DEFINE c == [phase |-> "claim", batch |-> b]
<1>4. c \in [phase : {"asleep", "claim"}, batch : SUBSET Docs] /\ c.batch # {}
  BY <1>3
<1>5. doc' = doc /\ job' = job /\ reads' = reads /\ submitted' = submitted
  BY DEF Files!Wake
<1> QED
  BY <1>1, <1>4, <1>5, FilesRests

LEMMA RestType ==
    ASSUME FilesInv, NEW i \in Instances, cron[i].phase # "asleep"
    PROVE  /\ Files!Rest(i) \in [phase : {"asleep", "claim"}, batch : SUBSET Docs]
           /\ Files!Rest(i).phase # "asleep" => Files!Rest(i).batch # {}
BY DEF FilesInv, FilesTyped, Files!Rest, Files!Asleep

\* The claim is what keeps two instances apart: it takes a document that waits,
\* which nobody reads or has read, and makes it wait no more.
LEMMA FilesClaim ==
    ASSUME FilesInv, alone' = alone, NEW i \in Instances, Files!Claim(i)
    PROVE  FilesInv'
<1> DEFINE d == Files!InHand(i)
<1>1. /\ cron[i].phase = "claim" /\ job' = job /\ reads' = reads /\ submitted' = submitted
  BY DEF Files!Claim
<1>2. d \in Docs
  BY <1>1, InHandIsInBatch
<1>3. CASE doc[d].status = "UPLOADED"
  <2>1. /\ doc' = [doc EXCEPT ![d].status = "EXTRACTING"]
        /\ cron' = [cron EXCEPT ![i].phase = "read"]
    BY <1>3 DEF Files!Claim, Files!Is
  <2>2. FilesTyped'
    <3>1. doc' \in [Docs -> [status : Files!Status, class : Files!Classes]]
      BY <2>1 DEF FilesInv, FilesTyped, Files!Status
    <3>2. cron' \in [Instances -> [phase : {"asleep", "claim", "read"}, batch : SUBSET Docs]]
      BY <2>1 DEF FilesInv, FilesTyped
    <3> QED
      BY <1>1, <3>1, <3>2 DEF FilesInv, FilesTyped
  <2>3. /\ cron'[i].phase = "read" /\ cron'[i].batch = cron[i].batch
        /\ \A x \in Instances : x # i => cron'[x] = cron[x]
    BY <2>1 DEF FilesInv, FilesTyped
  <2>4. /\ doc'[d].status = "EXTRACTING"
        /\ \A x \in Docs : x # d => doc'[x] = doc[x]
    BY <1>2, <2>1 DEF FilesInv, FilesTyped
  <2>5. /\ \A x \in Docs : Reads(i, x)' => x = d
        /\ \A j \in Instances, x \in Docs : j # i /\ Reads(j, x)' => Reads(j, x)
    BY <2>3 DEF Reads, Files!InHand
  <2> HIDE DEF d
  <2>6. \A j \in Instances : ~Reads(j, d)
    BY <1>2, <1>3 DEF FilesInv, ReadersInv, Fresh
  <2>7. reads[d] = 0 /\ \A x \in Docs : Fresh(x)' => Fresh(x)
    BY <1>2, <1>3, <2>4 DEF FilesInv, ReadersInv, Fresh
  <2>8. \A j \in Instances : Awake(j)'
    BY <1>1, <2>3 DEF FilesInv, ReadersInv, Awake
  <2>9. ReadersInv'
    BY <1>1, <1>2, <2>4, <2>5, <2>6, <2>7, <2>8 DEF FilesInv, ReadersInv, Fresh
  <2>10. alone => SubmissionsInv'
    BY <1>1, <2>4 DEF FilesInv, SubmissionsInv, Unsubmitted
  <2> QED
    BY <2>2, <2>9, <2>10 DEF FilesInv
<1>4. CASE doc[d].status # "UPLOADED"
  <2>1. cron' = [cron EXCEPT ![i] = Files!Rest(i)] /\ doc' = doc
    BY <1>4 DEF Files!Claim, Files!Is
  <2> QED
    BY <1>1, <2>1, RestType, FilesRests
<1> QED
  BY <1>3, <1>4

LEMMA FilesEnds ==
    ASSUME FilesInv, alone' = alone, NEW i \in Instances,
           NEW status \in {"VALIDATED", "INVOICE_MISMATCH", "EXTRACTED", "EXTRACTION_FAILED"},
           Files!Ends(i, status)
    PROVE  FilesInv'
<1>a. cron[i].phase = "read"
  BY DEF Files!Ends
<1>b. PICK d \in Docs : d = Files!InHand(i)
  BY <1>a, InHandIsInBatch
<1>1. /\ cron[i].phase = "read" /\ job' = job
      /\ doc' = [doc EXCEPT ![d].status = status]
      /\ reads' = [reads EXCEPT ![d] = reads[d] + 1]
      /\ submitted' = [submitted EXCEPT ![d] = IF status = "VALIDATED"
                                               THEN submitted[d] + 1 ELSE submitted[d]]
      /\ cron' = [cron EXCEPT ![i] = Files!Rest(i)]
  BY <1>b DEF Files!Ends
<1>2. d \in Docs /\ Reads(i, d)
  BY <1>a, <1>b DEF Reads
<1>3. /\ Files!Rest(i) \in [phase : {"asleep", "claim"}, batch : SUBSET Docs]
      /\ Files!Rest(i).phase # "asleep" => Files!Rest(i).batch # {}
  BY <1>1, RestType
<1>4. cron'[i] = Files!Rest(i) /\ \A x \in Instances : x # i => cron'[x] = cron[x]
  BY <1>1 DEF FilesInv, FilesTyped
<1>5. \A j \in Instances, x \in Docs : Reads(j, x)' => j # i /\ Reads(j, x)
  BY <1>3, <1>4 DEF Reads, Files!InHand
<1>6. reads[d] = 0 /\ \A j \in Instances : j # i => ~Reads(j, d)
  BY <1>2 DEF FilesInv, ReadersInv
<1>7. /\ reads'[d] = 1 /\ doc'[d].status = status
      /\ \A x \in Docs : x # d => /\ doc'[x] = doc[x] /\ reads'[x] = reads[x]
                                  /\ submitted'[x] = submitted[x]
  BY <1>1, <1>2, <1>6 DEF FilesInv, FilesTyped
<1>8. FilesTyped'
  <2>1. doc' \in [Docs -> [status : Files!Status, class : Files!Classes]]
    BY <1>1, <1>2 DEF FilesInv, FilesTyped, Files!Status
  <2>2. cron' \in [Instances -> [phase : {"asleep", "claim", "read"}, batch : SUBSET Docs]]
    BY <1>1, <1>3 DEF FilesInv, FilesTyped
  <2>3. reads' \in [Docs -> {0, 1}] /\ submitted' \in [Docs -> Nat]
    BY <1>1, <1>2, <1>6 DEF FilesInv, FilesTyped
  <2> QED
    BY <1>1, <2>1, <2>2, <2>3 DEF FilesInv, FilesTyped
<1>9. ReadersInv'
  <2>1. \A j \in Instances : Awake(j)'
    BY <1>3, <1>4 DEF FilesInv, ReadersInv, Awake
  <2>2. \A x \in Docs : Fresh(x)' => x # d /\ Fresh(x)
    BY <1>7 DEF Fresh
  <2>3. \A x \in Docs : x # d /\ Fresh(x) => Fresh(x)'
    BY <1>7 DEF Fresh
  <2> QED
    BY <1>5, <1>6, <1>7, <2>1, <2>2, <2>3 DEF FilesInv, ReadersInv
<1>10. ASSUME alone PROVE SubmissionsInv'
  <2>1. submitted[d] = 0
    BY <1>2, <1>6, <1>10 DEF FilesInv, SubmissionsInv
  <2>2. submitted'[d] = IF status = "VALIDATED" THEN 1 ELSE 0
    BY <1>1, <1>2, <2>1 DEF FilesInv, FilesTyped
  <2>3. \A x \in Docs : x # d /\ Unsubmitted(x) => Unsubmitted(x)'
    BY <1>7 DEF Unsubmitted
  <2>4. status = "INVOICE_MISMATCH" => Unsubmitted(d)'
    BY <1>7, <2>2 DEF Unsubmitted
  <2>5. ASSUME NEW r \in Requests, job'[r] # Files!NoJob, job'[r].submits = 1
        PROVE  Unsubmitted(job[r].doc)'
    <3>1. job[r].doc \in Docs
      BY <1>1, <2>5 DEF FilesInv, FilesTyped, Job
    <3>2. Unsubmitted(job[r].doc) /\ job[r].doc # d
      BY <1>1, <1>6, <1>10, <2>5 DEF FilesInv, SubmissionsInv, Unsubmitted
    <3> QED
      BY <1>1, <2>3, <3>1, <3>2
  <2>6. \A x \in Docs : doc'[x].status = "INVOICE_MISMATCH" => Unsubmitted(x)'
    BY <1>7, <1>10, <2>3, <2>4 DEF FilesInv, SubmissionsInv
  <2>7. \A x \in Docs : submitted'[x] \in {0, 1} /\ (submitted'[x] = 1 => reads'[x] = 1)
    BY <1>7, <1>10, <2>2 DEF FilesInv, SubmissionsInv
  <2> QED
    BY <1>1, <1>10, <2>5, <2>6, <2>7 DEF FilesInv, SubmissionsInv
<1> QED
  BY <1>8, <1>9, <1>10 DEF FilesInv

LEMMA FilesDie ==
    ASSUME FilesInv, alone' = alone, NEW i \in Instances, Files!Die(i)
    PROVE  FilesInv'
<1>1. /\ cron' = [cron EXCEPT ![i] = Files!Asleep]
      /\ doc' = doc /\ job' = job /\ reads' = reads /\ submitted' = submitted
  BY DEF Files!Die
<1>2. /\ Files!Asleep \in [phase : {"asleep", "claim"}, batch : SUBSET Docs]
      /\ Files!Asleep.phase = "asleep"
  BY DEF Files!Asleep
<1> QED
  BY <1>1, <1>2, FilesRests

\* A request that is alone adds the only job there is.
LEMMA FilesBegin ==
    ASSUME FilesInv, alone' = alone, NEW r \in Requests, NEW d \in Docs,
           NEW to \in {"DISCREPANCY_FLAGGED", "VALIDATED", "ARCHIVED"},
           NEW submits \in {0, 1}, Turn(r), Files!Begin(r, d, to, submits),
           submits = 1 => doc[d].status = "INVOICE_MISMATCH"
    PROVE  FilesInv'
<1> DEFINE j == [to |-> to, doc |-> d, submits |-> submits]
<1>1. /\ job[r] = Files!NoJob /\ job' = [job EXCEPT ![r] = j]
      /\ doc' = doc /\ cron' = cron /\ reads' = reads /\ submitted' = submitted
  BY DEF Files!Begin
<1>2. j \in Job /\ j.doc = d /\ j.submits = submits
  BY DEF Job
<1> HIDE DEF j
<1>3. job'[r] = j /\ \A q \in Requests : q # r => job'[q] = job[q]
  BY <1>1 DEF FilesInv, FilesTyped
<1>4. FilesTyped'
  BY <1>1, <1>2 DEF FilesInv, FilesTyped
<1>5. ReadersInv'
  BY <1>1 DEF FilesInv, ReadersInv, Awake, Reads, Fresh, Files!InHand
<1>6. ASSUME alone PROVE SubmissionsInv'
  <2>1. \A q \in Requests : q # r => job'[q] = Files!NoJob
    BY <1>3, <1>6 DEF Turn
  <2>2. \A x \in Docs : Unsubmitted(x)' <=> Unsubmitted(x)
    BY <1>1 DEF Unsubmitted
  <2>3. submits = 1 => Unsubmitted(d)
    BY <1>6 DEF FilesInv, SubmissionsInv
  <2>4. ASSUME NEW q \in Requests, job'[q] # Files!NoJob, job'[q].submits = 1
        PROVE  Unsubmitted(job[q].doc)'
    BY <1>2, <1>3, <2>1, <2>2, <2>3, <2>4
  <2> QED
    BY <1>1, <1>6, <2>1, <2>2, <2>4 DEF FilesInv, SubmissionsInv
<1> QED
  BY <1>4, <1>5, <1>6 DEF FilesInv

LEMMA FilesAbort ==
    ASSUME FilesInv, alone' = alone, NEW r \in Requests, Files!Abort(r)
    PROVE  FilesInv'
<1>1. /\ job' = [job EXCEPT ![r] = Files!NoJob]
      /\ doc' = doc /\ cron' = cron /\ reads' = reads /\ submitted' = submitted
  BY DEF Files!Abort
<1>2. FilesTyped'
  BY <1>1 DEF FilesInv, FilesTyped, Job
<1>3. ReadersInv'
  BY <1>1 DEF FilesInv, ReadersInv, Awake, Reads, Fresh, Files!InHand
<1>4. \A q \in Requests : job'[q] \in {job[q], Files!NoJob}
  BY <1>1 DEF FilesInv, FilesTyped
<1>5. \A x \in Docs : Unsubmitted(x)' <=> Unsubmitted(x)
  BY <1>1 DEF Unsubmitted
<1>6. ASSUME alone PROVE SubmissionsInv'
  <2>1. ASSUME NEW q \in Requests, job'[q] # Files!NoJob, job'[q].submits = 1
        PROVE  Unsubmitted(job[q].doc)' /\ job'[q] = job[q]
    <3>1. job'[q] = job[q] /\ job[q].doc \in Docs
      BY <1>4, <2>1 DEF FilesInv, FilesTyped, Job
    <3> QED
      BY <1>5, <1>6, <2>1, <3>1 DEF FilesInv, SubmissionsInv
  <2>2. \A p, q \in Requests : job'[p] # Files!NoJob /\ job'[q] # Files!NoJob => p = q
    BY <1>4, <1>6 DEF FilesInv, SubmissionsInv
  <2> QED
    BY <1>1, <1>5, <1>6, <2>1, <2>2 DEF FilesInv, SubmissionsInv
<1> QED
  BY <1>2, <1>3, <1>6 DEF FilesInv

\* A commit leaves no document that waits, and submits one that was not.
LEMMA FilesCommit ==
    ASSUME FilesInv, alone' = alone, NEW r \in Requests, Files!Commit(r)
    PROVE  FilesInv'
<1> DEFINE d == job[r].doc
<1>1. /\ job[r] # Files!NoJob /\ job' = [job EXCEPT ![r] = Files!NoJob]
      /\ doc' = [doc EXCEPT ![d].status = job[r].to]
      /\ submitted' = [submitted EXCEPT ![d] = submitted[d] + job[r].submits]
      /\ cron' = cron /\ reads' = reads
  BY DEF Files!Commit
<1>2. /\ d \in Docs /\ job[r].submits \in {0, 1}
      /\ job[r].to \in {"DISCREPANCY_FLAGGED", "VALIDATED", "ARCHIVED"}
  BY <1>1 DEF FilesInv, FilesTyped, Job
<1> HIDE DEF d
<1>3. /\ doc'[d].status = job[r].to
      /\ \A x \in Docs : x # d => doc'[x] = doc[x] /\ submitted'[x] = submitted[x]
  BY <1>1, <1>2 DEF FilesInv, FilesTyped
<1>4. FilesTyped'
  BY <1>1, <1>2 DEF FilesInv, FilesTyped, Files!Status, Job
<1>5. \A x \in Docs : Fresh(x)' => Fresh(x)
  BY <1>2, <1>3 DEF Fresh
<1>6. ReadersInv'
  BY <1>1, <1>5 DEF FilesInv, ReadersInv, Awake, Reads, Files!InHand
<1>7. ASSUME alone PROVE SubmissionsInv'
  <2>1. \A q \in Requests : job'[q] = Files!NoJob
    BY <1>1, <1>7 DEF FilesInv, FilesTyped, SubmissionsInv
  <2>2. submitted'[d] = submitted[d] + job[r].submits
    BY <1>1, <1>2 DEF FilesInv, FilesTyped
  <2>3. job[r].submits = 1 => submitted[d] = 0 /\ reads[d] = 1
    BY <1>1, <1>7 DEF FilesInv, SubmissionsInv, Unsubmitted, d
  <2>4. submitted'[d] \in {0, 1} /\ (submitted'[d] = 1 => reads'[d] = 1)
    BY <1>1, <1>2, <1>7, <2>2, <2>3 DEF FilesInv, SubmissionsInv
  <2>5. \A x \in Docs : submitted'[x] \in {0, 1} /\ (submitted'[x] = 1 => reads'[x] = 1)
    BY <1>1, <1>3, <1>7, <2>4 DEF FilesInv, SubmissionsInv
  <2>6. ASSUME NEW x \in Docs, doc'[x].status = "INVOICE_MISMATCH"
        PROVE  Unsubmitted(x)'
    <3>1. x # d /\ Unsubmitted(x)
      BY <1>2, <1>3, <1>7, <2>6 DEF FilesInv, SubmissionsInv
    <3> QED
      BY <1>1, <1>3, <3>1 DEF Unsubmitted
  <2> QED
    BY <2>1, <2>5, <2>6 DEF SubmissionsInv
<1> QED
  BY <1>4, <1>6, <1>7 DEF FilesInv

LEMMA FilesRequest ==
    ASSUME FilesInv, alone' = alone, NEW r \in Requests, Turn(r), Files!Request(r)
    PROVE  FilesInv'
<1>1. CASE Files!Commit(r) \/ Files!Abort(r)
  BY <1>1, FilesCommit, FilesAbort
<1>2. ASSUME NEW d \in Docs, Files!ApplyValidationData(r, d) PROVE FilesInv'
  <2>1. PICK to \in {"DISCREPANCY_FLAGGED", "VALIDATED"} : Files!Begin(r, d, to, 0)
    BY <1>2 DEF Files!ApplyValidationData
  <2> QED
    BY <2>1, FilesBegin
<1>3. ASSUME NEW d \in Docs, Files!ClearDiscrepancies(r, d) PROVE FilesInv'
  BY <1>3, FilesBegin DEF Files!ClearDiscrepancies
<1>4. ASSUME NEW d \in Docs, Files!ReconcileInvoice(r, d) PROVE FilesInv'
  BY <1>4, FilesBegin DEF Files!ReconcileInvoice, Files!Is
<1>5. ASSUME NEW d \in Docs, Files!Archive(r, d) PROVE FilesInv'
  BY <1>5, FilesBegin DEF Files!Archive
<1> QED
  BY <1>1, <1>2, <1>3, <1>4, <1>5 DEF Files!Request

LEMMA FilesOther ==
    ASSUME FilesInv, alone' = alone, Files!Other
    PROVE  FilesInv'
<1>1. ASSUME NEW i \in Instances, Files!Run(i) PROVE FilesInv'
  <2>1. CASE Files!Wake(i) \/ Files!Claim(i)
    BY <2>1, FilesWake, FilesClaim
  <2>2. CASE Files!Extract(i)
    <3>1. PICK status \in {"VALIDATED", "INVOICE_MISMATCH", "EXTRACTED"} :
            Files!Ends(i, status)
      BY <2>2 DEF Files!Extract
    <3> QED
      BY <3>1, FilesEnds
  <2>3. CASE Files!Fail(i)
    BY <2>3, FilesEnds DEF Files!Fail
  <2> QED
    BY <1>1, <2>1, <2>2, <2>3 DEF Files!Run
<1>2. ASSUME NEW i \in Instances, Files!Die(i) PROVE FilesInv'
  BY <1>2, FilesDie
<1>3. ASSUME NEW d \in Docs, NEW class \in Files!Classes, Files!Upload(d, class)
      PROVE  FilesInv'
  BY <1>3, FilesUpload
<1> QED
  BY <1>1, <1>2, <1>3 DEF Files!Other

LEMMA FilesStay == FilesInv /\ alone' = alone /\ UNCHANGED files => FilesInv'
<1> SUFFICES ASSUME FilesInv, alone' = alone, UNCHANGED files PROVE FilesInv'
  OBVIOUS
<1>1. /\ doc' = doc /\ cron' = cron /\ job' = job /\ reads' = reads
      /\ submitted' = submitted
  BY DEF files
<1>2. FilesTyped' /\ ReadersInv'
  BY <1>1 DEF FilesInv, FilesTyped, ReadersInv, Awake, Reads, Fresh, Files!InHand
<1>3. alone => SubmissionsInv'
  BY <1>1 DEF FilesInv, SubmissionsInv, Unsubmitted
<1> QED
  BY <1>2, <1>3 DEF FilesInv

\* No document is read twice, in whatever order instances run, claim and die
\* and whatever requests do meanwhile; and an invoice is submitted once, by the
\* gate or by a reconciliation, where requests do not overlap.
THEOREM EveryReadOnce == Spec => []ReadOnce
<1>1. Init => FilesInv
  BY FilesInit DEF Init
<1>2. FilesInv /\ [Next]_vars => FilesInv'
  <2> SUFFICES ASSUME FilesInv, [Next]_vars PROVE FilesInv'
    OBVIOUS
  <2>1. CASE FileStep /\ alone' = alone
    BY <2>1, FilesOther, FilesRequest DEF FileStep
  <2>2. CASE UNCHANGED files /\ alone' = alone
    BY <2>2, FilesStay
  <2> QED
    BY <2>1, <2>2 DEF Next, vars
<1>3. FilesInv => ReadOnce
  BY DEF FilesInv, FilesTyped, SubmissionsInv, ReadOnce, Files!ReadOnce, Files!SubmittedOnce
<1> QED
  BY <1>1, <1>2, <1>3, PTL DEF Spec

-----------------------------------------------------------------------------
(* The trade network.  A filing in flight holds sides that are there or are *)
(* new, and differ; a change of status holds the parties of its row.        *)

Organisation == [name : Names, registration : Registrations \cup {NONE},
                 supplier : BOOLEAN, buyer : BOOLEAN]

Parties(row) == <<row.issuer, row.debtor, row.named>>

Flight(r) ==
    /\ pending[r].op \in {"idle", "debtor", "file", "save", "write"}
    /\ pending[r].op \in {"debtor", "file"} => pending[r].issuer \in Trades!Sides
    /\ pending[r].op = "file" =>
         /\ pending[r].debtor \in Trades!Sides /\ pending[r].number \in Numbers
         /\ pending[r].issuer.id = 0 \/ pending[r].debtor.id # pending[r].issuer.id
    /\ pending[r].op \in {"save", "write"} =>
         /\ pending[r].id \in Invoices
         /\ rows[pending[r].id].status # "ABSENT"
         /\ pending[r].entity \in Trades!Row /\ pending[r].entity.status # "ABSENT"
         /\ Parties(pending[r].entity) = Parties(rows[pending[r].id])

Backed(i) ==
    rows[i].status # "ABSENT" =>
      /\ rows[i].issuer \in Trades!OrgIds /\ rows[i].debtor \in Trades!OrgIds
      /\ rows[i].issuer # rows[i].debtor
      /\ orgs[rows[i].issuer].supplier /\ orgs[rows[i].debtor].buyer
      /\ ~rows[i].named => <<rows[i].issuer, rows[i].debtor>> \in network

NetworkInv ==
    /\ orgs \in Seq(Organisation)
    /\ rows \in [Invoices -> Trades!Row]
    /\ DOMAIN pending = Clerks
    /\ network \subseteq Trades!OrgIds \X Trades!OrgIds
    /\ \A p \in network : orgs[p[1]].supplier /\ orgs[p[2]].buyer
    /\ \A i \in Invoices : Backed(i)
    /\ \A r \in Clerks : Flight(r)

\* What a table of organisations gains by the personas or a new organisation.
Grows(old, new) ==
    /\ new \in Seq(Organisation) /\ Len(old) <= Len(new)
    /\ \A o \in 1..Len(old) : /\ old[o].supplier => new[o].supplier
                              /\ old[o].buyer => new[o].buyer

LEMMA EnterGrows ==
    ASSUME NEW table \in Seq(Organisation), NEW side,
           side.id = 0 => side.name \in Names /\ side.registration \in Registrations \cup {NONE},
           side.id # 0 => side.id \in 1..Len(table)
    PROVE  /\ Grows(table, Trades!Enter(table, side))
           /\ Trades!IdOf(Trades!Enter(table, side), side) \in 1..Len(Trades!Enter(table, side))
           /\ side.id = 0 => Trades!IdOf(Trades!Enter(table, side), side) = Len(table) + 1
           /\ side.id # 0 => Trades!IdOf(Trades!Enter(table, side), side) = side.id
<1>1. CASE side.id # 0
  BY <1>1 DEF Grows, Trades!Enter, Trades!IdOf
<1>2. CASE side.id = 0
  <2> DEFINE org == Trades!Org(side.name, side.registration)
  <2>1. org \in Organisation
    BY <1>2 DEF Organisation, Trades!Org
  <2>2. Trades!Enter(table, side) = Append(table, org)
    BY <1>2 DEF Trades!Enter
  <2> HIDE DEF org
  <2>3. /\ Append(table, org) \in Seq(Organisation) /\ Len(Append(table, org)) = Len(table) + 1
        /\ \A o \in 1..Len(table) : Append(table, org)[o] = table[o]
        /\ Len(table) \in Nat
    BY <2>1
  <2> QED
    BY <1>2, <2>2, <2>3 DEF Grows, Trades!IdOf
<1> QED
  BY <1>1, <1>2

LEMMA PersonasGrow ==
    ASSUME NEW table \in Seq(Organisation), NEW from \in 1..Len(table),
           NEW to \in 1..Len(table)
    PROVE  LET new == Trades!WithPersonas(table, from, to) IN
             /\ Grows(table, new) /\ Len(new) = Len(table)
             /\ new[from].supplier /\ new[to].buyer
<1> DEFINE supplier == [table[from] EXCEPT !.supplier = TRUE]
           one == [table EXCEPT ![from] = supplier]
           buyer == [one[to] EXCEPT !.buyer = TRUE]
           new == [one EXCEPT ![to] = buyer]
<1>0. /\ \A o \in 1..Len(table) : table[o] \in Organisation
      /\ Len(table) \in Nat
  OBVIOUS
<1>1. supplier \in Organisation /\ supplier.supplier /\ supplier.buyer = table[from].buyer
  BY <1>0 DEF Organisation
<1>2. /\ one \in Seq(Organisation) /\ Len(one) = Len(table)
      /\ \A o \in 1..Len(table) : one[o] = IF o = from THEN supplier ELSE table[o]
  <2> HIDE DEF supplier
  <2> QED
    BY <1>1, ExceptSeq
<1> HIDE DEF one
<1>3. one[to] \in Organisation
  BY <1>2
<1>4. buyer \in Organisation /\ buyer.buyer /\ buyer.supplier = one[to].supplier
  BY <1>3 DEF Organisation
<1>5. /\ new \in Seq(Organisation) /\ Len(new) = Len(one)
      /\ \A o \in 1..Len(one) : new[o] = IF o = to THEN buyer ELSE one[o]
  <2> HIDE DEF buyer
  <2> QED
    BY <1>2, <1>4, ExceptSeq
<1>6. Trades!WithPersonas(table, from, to) = new
  BY DEF Trades!WithPersonas, one
<1> HIDE DEF supplier, buyer, new
<1>7. Grows(table, new)
  BY <1>0, <1>1, <1>2, <1>4, <1>5 DEF Grows
<1> QED
  BY <1>1, <1>2, <1>4, <1>5, <1>6, <1>7

LEMMA GrowsAgain ==
    ASSUME NEW a \in Seq(Organisation), NEW b, NEW c, Grows(a, b), Grows(b, c)
    PROVE  Grows(a, c)
<1>1. Len(a) \in Nat /\ Len(b) \in Nat /\ Len(c) \in Nat
  BY DEF Grows
<1> QED
  BY <1>1 DEF Grows

\* Whatever grows the organisations and the network, with the personas of its
\* pairs, keeps what is said of invoices and of what is in flight.
LEMMA SidesGrow ==
    ASSUME NetworkInv, Grows(orgs, orgs')
    PROVE  Trades!OrgIds \subseteq Trades!OrgIds' /\ Trades!Sides \subseteq Trades!Sides'
<1>1. Len(orgs) \in Nat /\ Len(orgs') \in Nat /\ Len(orgs) <= Len(orgs')
  BY DEF NetworkInv, Grows
<1>2. Trades!OrgIds \subseteq Trades!OrgIds'
  BY <1>1 DEF Trades!OrgIds
<1> QED
  BY <1>2 DEF Trades!Sides

LEMMA BackedGrows ==
    ASSUME NetworkInv, Grows(orgs, orgs'), network \subseteq network',
           NEW i \in Invoices, rows'[i] = rows[i]
    PROVE  Backed(i)'
<1>1. Backed(i) /\ Trades!OrgIds \subseteq Trades!OrgIds'
  BY SidesGrow DEF NetworkInv
<1> QED
  BY <1>1 DEF Backed, Grows, Trades!OrgIds

LEMMA FlightGrows ==
    ASSUME NetworkInv, Grows(orgs, orgs'), NEW r \in Clerks, pending'[r] = pending[r],
           \A i \in Invoices : rows[i].status # "ABSENT" =>
             rows'[i].status # "ABSENT" /\ Parties(rows'[i]) = Parties(rows[i])
    PROVE  Flight(r)'
<1>1. Flight(r) /\ Trades!Sides \subseteq Trades!Sides'
  BY SidesGrow DEF NetworkInv
<1> QED
  BY <1>1 DEF Flight, Trades!Row

LEMMA GrowsSame == ASSUME NetworkInv PROVE Grows(orgs, orgs)
<1>1. Len(orgs) \in Nat
  BY DEF NetworkInv
<1> QED
  BY <1>1 DEF Grows, NetworkInv

\* A step of one request that leaves the tables alone.
LEMMA RequestKeeps ==
    ASSUME NetworkInv, NEW r \in Clerks, NEW p,
           pending' = [pending EXCEPT ![r] = p],
           orgs' = orgs, network' = network, rows' = rows, Flight(r)'
    PROVE  NetworkInv'
<1>1. Grows(orgs, orgs')
  BY GrowsSame
<1>2. \A i \in Invoices : Backed(i)'
  BY <1>1, BackedGrows
<1>3. \A q \in Clerks \ {r} : pending'[q] = pending[q]
  BY DEF NetworkInv
<1>4. \A q \in Clerks \ {r} : Flight(q)'
  BY <1>1, <1>3, FlightGrows
<1>5. Trades!OrgIds' = Trades!OrgIds
  BY DEF Trades!OrgIds
<1> QED
  BY <1>2, <1>4, <1>5 DEF NetworkInv

LEMMA SidesAreThere ==
    ASSUME NetworkInv, NEW side \in Trades!Sides
    PROVE  /\ side.id = 0 => side.name \in Names /\ side.registration \in Registrations \cup {NONE}
           /\ side.id # 0 => side.id \in 1..Len(orgs)
BY DEF Trades!Sides, Trades!OrgIds

LEMMA KnownIsSide ==
    ASSUME NetworkInv, NEW o \in Trades!OrgIds
    PROVE  Trades!Known(o) \in Trades!Sides /\ Trades!Known(o).id = o
BY DEF Trades!Sides, Trades!Known

LEMMA FileKeeps ==
    ASSUME NetworkInv, NEW r \in Clerks, NEW side \in Trades!Sides,
           Trades!FileInvoice(r, side)
    PROVE  NetworkInv'
<1>1. PICK found \in Trades!Resolved(orgs, side) :
        Trades!Begin(r, [op |-> "debtor", issuer |-> found])
  BY DEF Trades!FileInvoice
<1>2. found \in Trades!Sides
  BY KnownIsSide DEF Trades!Resolved, Trades!ByRegistration, Trades!ByName, Trades!OrgIds,
     NetworkInv
<1>3. /\ pending' = [pending EXCEPT ![r] = [op |-> "debtor", issuer |-> found]]
      /\ rows' = rows /\ orgs' = orgs /\ network' = network
  BY <1>1 DEF Trades!Begin, Trades!FileInvoice, Trades!tradeVars
<1>4. pending'[r] = [op |-> "debtor", issuer |-> found]
  BY <1>3 DEF NetworkInv
<1>5. Flight(r)'
  BY <1>2, <1>3, <1>4 DEF Flight, Trades!Sides, Trades!OrgIds
<1> QED
  BY <1>3, <1>5, RequestKeeps

LEMMA DebtorKeeps ==
    ASSUME NetworkInv, NEW r \in Clerks, NEW side \in Trades!Sides,
           NEW number \in Numbers,
           Trades!ResolveDebtor(r, side, number)
    PROVE  NetworkInv'
<1> DEFINE issuer == pending[r].issuer
           entered == Trades!Enter(orgs, issuer)
<1>1. pending[r].op = "debtor" /\ issuer \in Trades!Sides
  BY DEF Trades!ResolveDebtor, NetworkInv, Flight
<1>2. PICK found \in Trades!Resolved(entered, side) :
        /\ found.id # Trades!IdOf(entered, issuer)
        /\ pending' = [pending EXCEPT ![r] = [op |-> "file", issuer |-> issuer,
                                             debtor |-> found, number |-> number]]
  BY DEF Trades!ResolveDebtor
<1>3. /\ entered \in Seq(Organisation)
      /\ issuer.id = 0 => /\ Len(entered) = Len(orgs) + 1
                          /\ Trades!IdOf(entered, issuer) = Len(orgs) + 1
      /\ issuer.id # 0 => entered = orgs /\ Trades!IdOf(entered, issuer) = issuer.id
  BY <1>1, SidesAreThere, EnterGrows DEF NetworkInv, Grows, Trades!Enter, Trades!IdOf
<1>4. Len(orgs) \in Nat
  BY DEF NetworkInv
<1>5. found = side \/ \E o \in 1..Len(entered) : found = Trades!Known(o)
  <2>1. DOMAIN entered = 1..Len(entered)
    BY <1>3
  <2> HIDE DEF entered
  <2> QED
    BY <1>2, <2>1 DEF Trades!Resolved, Trades!ByRegistration, Trades!ByName
<1>6. found \in Trades!Sides
  <2>1. CASE found = side
    BY <2>1
  <2>2. CASE \E o \in 1..Len(entered) : found = Trades!Known(o)
    <3>1. PICK o \in 1..Len(entered) : found = Trades!Known(o)
      BY <2>2
    <3>2. found.id = o
      BY <3>1 DEF Trades!Known
    <3>3. o \in Trades!OrgIds
      <4> HIDE DEF entered, issuer
      <4> QED
        BY <1>2, <1>3, <1>4, <3>2 DEF Trades!OrgIds
    <3> QED
      BY <3>1, <3>3, KnownIsSide
  <2> QED
    BY <1>5, <2>1, <2>2
<1>7. issuer.id = 0 \/ found.id # issuer.id
  BY <1>2, <1>3
<1>8. rows' = rows /\ orgs' = orgs /\ network' = network
  BY DEF Trades!ResolveDebtor, Trades!tradeVars
<1>9. pending'[r] = [op |-> "file", issuer |-> issuer, debtor |-> found, number |-> number]
  BY <1>2 DEF NetworkInv
<1>10. Flight(r)'
  <2> HIDE DEF issuer
  <2> QED
    BY <1>1, <1>6, <1>7, <1>8, <1>9 DEF Flight, Trades!Sides, Trades!OrgIds
<1> QED
  BY <1>2, <1>8, <1>10, RequestKeeps

\* A pair whose sides have their personas joins the network, or none does.
LEMMA PairJoins ==
    ASSUME NetworkInv, Grows(orgs, orgs'),
           NEW from \in Trades!OrgIds', NEW to \in Trades!OrgIds',
           orgs'[from].supplier, orgs'[to].buyer,
           network' \in {network, network \cup {<<from, to>>}}
    PROVE  /\ network' \subseteq Trades!OrgIds' \X Trades!OrgIds'
           /\ \A p \in network' : orgs'[p[1]].supplier /\ orgs'[p[2]].buyer
<1>1. ASSUME NEW p \in network
      PROVE  p \in Trades!OrgIds' \X Trades!OrgIds' /\ orgs'[p[1]].supplier /\ orgs'[p[2]].buyer
  <2>1. /\ p[1] \in Trades!OrgIds /\ p[2] \in Trades!OrgIds /\ p = <<p[1], p[2]>>
        /\ orgs[p[1]].supplier /\ orgs[p[2]].buyer
    BY <1>1 DEF NetworkInv
  <2> QED
    BY <2>1, SidesGrow DEF Grows, Trades!OrgIds
<1> QED
  BY <1>1

LEMMA RelateKeeps ==
    ASSUME NetworkInv, NEW from \in Trades!OrgIds, NEW to \in Trades!OrgIds,
           Trades!Relate(from, to)
    PROVE  NetworkInv'
<1>1. /\ orgs' = Trades!WithPersonas(orgs, from, to)
      /\ network' = network \cup {<<from, to>>}
      /\ rows' = rows /\ pending' = pending
  BY DEF Trades!Relate
<1>2. /\ Grows(orgs, orgs') /\ Len(orgs') = Len(orgs)
      /\ orgs'[from].supplier /\ orgs'[to].buyer
  BY <1>1, PersonasGrow DEF NetworkInv, Trades!OrgIds
<1>3. from \in Trades!OrgIds' /\ to \in Trades!OrgIds'
  BY <1>2 DEF Trades!OrgIds
<1>4. /\ network' \subseteq Trades!OrgIds' \X Trades!OrgIds'
      /\ \A p \in network' : orgs'[p[1]].supplier /\ orgs'[p[2]].buyer
  BY <1>1, <1>2, <1>3, PairJoins
<1>5. \A i \in Invoices : Backed(i)'
  BY <1>1, <1>2, BackedGrows
<1>6. \A r \in Clerks : Flight(r)'
  BY <1>1, <1>2, FlightGrows
<1> QED
  BY <1>1, <1>2, <1>4, <1>5, <1>6 DEF NetworkInv, Grows

LEMMA CommitKeeps ==
    ASSUME NetworkInv, NEW r \in Clerks, NEW i \in Invoices,
           NEW factoring \in BOOLEAN, NEW named \in BOOLEAN,
           Trades!CommitInvoice(r, i, factoring, named)
    PROVE  NetworkInv'
<1> DEFINE p == pending[r]
           entered == Trades!Enter(orgs, p.issuer)
           both == Trades!Enter(entered, p.debtor)
           issuer == Trades!IdOf(entered, p.issuer)
           debtor == Trades!IdOf(both, p.debtor)
           row == Trades!Filing(issuer, debtor, p.number, factoring, named)
<1>1. /\ p.op = "file" /\ rows[i].status = "ABSENT"
      /\ orgs' = Trades!WithPersonas(both, issuer, debtor)
      /\ network' = IF named THEN network ELSE network \cup {<<issuer, debtor>>}
      /\ rows' = [rows EXCEPT ![i] = row]
      /\ pending' = [pending EXCEPT ![r] = Trades!Idle]
  BY DEF Trades!CommitInvoice, Trades!NextId
<1>2. /\ p.issuer \in Trades!Sides /\ p.debtor \in Trades!Sides
      /\ p.issuer.id = 0 \/ p.debtor.id # p.issuer.id
  BY <1>1 DEF NetworkInv, Flight
<1>3. /\ p.issuer.id = 0 => p.issuer.name \in Names
                            /\ p.issuer.registration \in Registrations \cup {NONE}
      /\ p.issuer.id # 0 => p.issuer.id \in 1..Len(orgs)
      /\ p.debtor.id = 0 => p.debtor.name \in Names
                            /\ p.debtor.registration \in Registrations \cup {NONE}
      /\ p.debtor.id # 0 => p.debtor.id \in 1..Len(orgs)
  BY <1>2, SidesAreThere
<1> HIDE DEF p
<1>4. /\ Grows(orgs, entered) /\ issuer \in 1..Len(entered)
      /\ p.issuer.id = 0 => issuer = Len(orgs) + 1
      /\ p.issuer.id # 0 => issuer = p.issuer.id
  BY <1>3, EnterGrows DEF NetworkInv
<1> HIDE DEF entered, issuer
<1>5. /\ Len(orgs) \in Nat /\ entered \in Seq(Organisation) /\ Len(entered) \in Nat
      /\ Len(orgs) <= Len(entered)
  BY <1>4 DEF NetworkInv, Grows
<1>6. /\ Grows(entered, both) /\ debtor \in 1..Len(both)
      /\ p.debtor.id = 0 => debtor = Len(entered) + 1
      /\ p.debtor.id # 0 => debtor = p.debtor.id
  BY <1>3, <1>5, EnterGrows
<1> HIDE DEF both, debtor
<1>7. /\ both \in Seq(Organisation) /\ Len(both) \in Nat /\ Len(entered) <= Len(both)
  BY <1>6 DEF Grows
<1>8. issuer # debtor /\ issuer \in 1..Len(both)
  BY <1>2, <1>3, <1>4, <1>5, <1>6, <1>7
<1>9. /\ Grows(both, orgs') /\ Len(orgs') = Len(both)
      /\ orgs'[issuer].supplier /\ orgs'[debtor].buyer
  BY <1>1, <1>6, <1>7, <1>8, PersonasGrow
<1>10. Grows(orgs, orgs')
  <2>1. Grows(orgs, both)
    BY <1>4, <1>6, GrowsAgain DEF NetworkInv
  <2> QED
    BY <2>1, <1>9, GrowsAgain DEF NetworkInv
<1>11. issuer \in Trades!OrgIds' /\ debtor \in Trades!OrgIds'
  BY <1>6, <1>8, <1>9 DEF Trades!OrgIds
<1>12. /\ network' \subseteq Trades!OrgIds' \X Trades!OrgIds'
       /\ \A q \in network' : orgs'[q[1]].supplier /\ orgs'[q[2]].buyer
  BY <1>1, <1>9, <1>10, <1>11, PairJoins
<1>13. /\ row.status # "ABSENT" /\ row.issuer = issuer /\ row.debtor = debtor
       /\ row.named = named
  BY DEF Trades!Filing, Trades!AbsentRow
<1>14. row \in Trades!Row
  <2>1. p.number \in Numbers
    BY <1>1 DEF p, NetworkInv, Flight
  <2>2. issuer \in Nat /\ debtor \in Nat
    BY <1>6, <1>7, <1>8
  <2> QED
    BY <2>1, <2>2 DEF Trades!Filing, Trades!AbsentRow, Trades!Row, Trades!Status, Trades!Allowed
<1> HIDE DEF row
<1>15. rows'[i] = row /\ rows' \in [Invoices -> Trades!Row]
  BY <1>1, <1>14 DEF NetworkInv
<1>16. Backed(i)'
  BY <1>1, <1>8, <1>9, <1>11, <1>13, <1>15 DEF Backed
<1>17. ASSUME NEW x \in Invoices, x # i PROVE Backed(x)'
  <2>1. rows'[x] = rows[x] /\ network \subseteq network'
    BY <1>1, <1>17 DEF NetworkInv
  <2> QED
    BY <2>1, <1>10, BackedGrows
<1>18. ASSUME NEW q \in Clerks, q # r PROVE Flight(q)'
  <2>1. pending'[q] = pending[q]
    BY <1>1, <1>18 DEF NetworkInv
  <2>2. \A x \in Invoices : rows[x].status # "ABSENT" => rows'[x] = rows[x]
    BY <1>1 DEF NetworkInv
  <2> QED
    BY <2>1, <2>2, <1>10, FlightGrows
<1>19. Flight(r)'
  BY <1>1 DEF NetworkInv, Flight, Trades!Idle
<1>20. DOMAIN pending' = Clerks
  BY <1>1 DEF NetworkInv
<1> QED
  BY <1>9, <1>10, <1>12, <1>15, <1>16, <1>17, <1>18, <1>19, <1>20 DEF NetworkInv, Grows

\* What the save merges keeps the parties and a row that is there.
LEMMA InvoiceMergeType ==
    ASSUME NEW row \in Trades!Row, NEW entity \in Trades!Row, NEW changed,
           row.status # "ABSENT", entity.status # "ABSENT", Parties(entity) = Parties(row)
    PROVE  /\ Trades!Merge(row, entity, changed) \in Trades!Row
           /\ Trades!Merge(row, entity, changed).status # "ABSENT"
           /\ Parties(Trades!Merge(row, entity, changed)) = Parties(row)
BY DEF Trades!Merge, Trades!Row, Parties

LEMMA UpdateKeeps ==
    ASSUME NetworkInv, NEW r \in Clerks, NEW i \in Invoices, NEW to \in Trades!Status,
           Trades!UpdateStatus(r, i, to)
    PROVE  NetworkInv'
<1> DEFINE p == Trades!Saving(i, Trades!Becoming(rows[i], to), {rows[i].status})
<1>1. /\ rows[i].status # "ABSENT" /\ to \in Trades!Allowed[rows[i].status]
      /\ pending' = [pending EXCEPT ![r] = p]
      /\ rows' = rows /\ orgs' = orgs /\ network' = network
  BY DEF Trades!UpdateStatus, Trades!Begin, Trades!tradeVars
<1>2. rows[i] \in Trades!Row /\ rows[i].status \in DOMAIN Trades!Allowed
  BY <1>1 DEF NetworkInv, Trades!Row, Trades!Status
<1>3. to # "ABSENT"
  BY <1>1, <1>2 DEF Trades!Allowed
<1>4. /\ Trades!Becoming(rows[i], to) \in Trades!Row
      /\ Trades!Becoming(rows[i], to).status # "ABSENT"
      /\ Parties(Trades!Becoming(rows[i], to)) = Parties(rows[i])
  BY <1>2, <1>3 DEF Trades!Becoming, Trades!Row, Parties
<1>5. /\ p.op = "save" /\ p.id = i /\ p.entity = Trades!Becoming(rows[i], to)
  BY DEF Trades!Saving
<1> HIDE DEF p
<1>6. pending'[r] = p
  BY <1>1 DEF NetworkInv
<1>7. Flight(r)'
  BY <1>1, <1>4, <1>5, <1>6 DEF Flight
<1> QED
  BY <1>1, <1>7, RequestKeeps

LEMMA InvoiceCompareKeeps ==
    ASSUME NetworkInv, NEW r \in Clerks, Trades!Compare(r, {}),
           orgs' = orgs, network' = network
    PROVE  NetworkInv'
<1> DEFINE p == pending[r]
           q == [op |-> "write", id |-> p.id, entity |-> p.entity,
                 changed |-> Trades!Changed(rows[p.id], p.entity, {}), recs |-> p.recs]
<1>1. p.op = "save" /\ pending' = [pending EXCEPT ![r] = q] /\ rows' = rows
  BY DEF Trades!Compare
<1>2. pending'[r] = q
  BY <1>1 DEF NetworkInv
<1>3. q.op = "write" /\ q.id = p.id /\ q.entity = p.entity
  OBVIOUS
<1> HIDE DEF q
<1>4. Flight(r)'
  BY <1>1, <1>2, <1>3 DEF NetworkInv, Flight
<1> QED
  BY <1>1, <1>4, RequestKeeps

LEMMA InvoiceAbortKeeps ==
    ASSUME NetworkInv, NEW r \in Clerks, Trades!Abort(r),
           orgs' = orgs, network' = network
    PROVE  NetworkInv'
<1>1. pending' = [pending EXCEPT ![r] = Trades!Idle] /\ rows' = rows
  BY DEF Trades!Abort
<1>2. Flight(r)'
  BY <1>1 DEF NetworkInv, Flight, Trades!Idle
<1> QED
  BY <1>1, <1>2, RequestKeeps

LEMMA StatusKeeps ==
    ASSUME NetworkInv, NEW r \in Clerks, Trades!CommitStatus(r)
    PROVE  NetworkInv'
<1> DEFINE p == pending[r]
           new == Trades!Merge(rows[p.id], p.entity, p.changed)
<1>1. /\ p.op = "write" /\ rows' = Trades!Written(r, p.id)
      /\ pending' = [pending EXCEPT ![r] = Trades!Idle]
      /\ orgs' = orgs /\ network' = network
  BY DEF Trades!CommitStatus
<1>2. /\ p.id \in Invoices /\ rows[p.id] \in Trades!Row /\ rows[p.id].status # "ABSENT"
      /\ p.entity \in Trades!Row /\ p.entity.status # "ABSENT"
      /\ Parties(p.entity) = Parties(rows[p.id])
  BY <1>1 DEF NetworkInv, Flight
<1>3. PICK id \in Invoices : id = p.id
  BY <1>2
<1>4. /\ new \in Trades!Row /\ new.status # "ABSENT" /\ Parties(new) = Parties(rows[p.id])
  BY <1>2, InvoiceMergeType
<1>5. rows' = [rows EXCEPT ![id] = new]
  BY <1>3, <1>1 DEF Trades!Written
<1> HIDE DEF new
<1>6. rows' \in [Invoices -> Trades!Row] /\ rows'[id] = new
  BY <1>3, <1>2, <1>4, <1>5 DEF NetworkInv
<1>7. \A i \in Invoices : rows[i].status # "ABSENT" =>
         rows'[i].status # "ABSENT" /\ Parties(rows'[i]) = Parties(rows[i])
  BY <1>3, <1>2, <1>4, <1>5 DEF NetworkInv
<1>8. \A i \in Invoices \ {id} : rows'[i] = rows[i]
  BY <1>5 DEF NetworkInv
<1>9. Grows(orgs, orgs')
  BY <1>1, GrowsSame
<1>10. \A i \in Invoices \ {id} : Backed(i)'
  BY <1>1, <1>8, <1>9, BackedGrows
<1>11. Backed(id)'
  <2>1. Backed(id) /\ Trades!OrgIds' = Trades!OrgIds
    BY <1>3, <1>1, <1>2 DEF NetworkInv, Trades!OrgIds
  <2>2. /\ rows'[id].issuer = rows[id].issuer /\ rows'[id].debtor = rows[id].debtor
        /\ rows'[id].named = rows[id].named
    BY <1>3, <1>4, <1>6 DEF Parties
  <2> QED
    BY <1>3, <1>1, <1>2, <2>1, <2>2 DEF Backed
<1>12. ASSUME NEW q \in Clerks, q # r PROVE Flight(q)'
  <2>1. pending'[q] = pending[q]
    BY <1>1, <1>12 DEF NetworkInv
  <2> QED
    BY <2>1, <1>7, <1>9, FlightGrows
<1>13. Flight(r)'
  BY <1>1 DEF NetworkInv, Flight, Trades!Idle
<1>14. DOMAIN pending' = Clerks /\ Trades!OrgIds' = Trades!OrgIds
  BY <1>1 DEF NetworkInv, Trades!OrgIds
<1> QED
  BY <1>1, <1>2, <1>6, <1>10, <1>11, <1>12, <1>13, <1>14 DEF NetworkInv

LEMMA NetworkStays ==
    ASSUME NetworkInv, UNCHANGED <<rows, pending, orgs, network>>
    PROVE  NetworkInv'
BY DEF NetworkInv, Backed, Flight, Trades!OrgIds, Trades!Sides

LEMMA TradeKeeps == NetworkInv /\ TradeStep => NetworkInv'
<1> SUFFICES ASSUME NetworkInv, TradeStep PROVE NetworkInv'
  OBVIOUS
<1>1. ASSUME NEW from \in Trades!OrgIds, NEW to \in Trades!OrgIds, Trades!Relate(from, to)
      PROVE  NetworkInv'
  BY <1>1, RelateKeeps
<1>2. ASSUME NEW e \in untold, Trades!UpsertInvoice(e[1], e[2]) \/ Trades!MarkOnly(e[1], e[2])
      PROVE  NetworkInv'
  BY <1>2, NetworkStays DEF Trades!UpsertInvoice, Trades!MarkOnly, Trades!deskVars
<1>3. ASSUME NEW r \in Clerks, Trades!Step(r) PROVE NetworkInv'
  <2>1. CASE (Trades!Compare(r, {}) \/ Trades!Abort(r)) /\ UNCHANGED Trades!tradeVars
    BY <2>1, InvoiceCompareKeeps, InvoiceAbortKeeps DEF Trades!tradeVars
  <2>2. ASSUME NEW side \in Trades!Sides, NEW number \in Numbers,
               Trades!FileInvoice(r, side) \/ Trades!ResolveDebtor(r, side, number)
        PROVE  NetworkInv'
    BY <2>2, FileKeeps, DebtorKeeps
  <2>3. ASSUME NEW i \in Invoices, NEW factoring \in BOOLEAN, NEW named \in BOOLEAN,
               Trades!CommitInvoice(r, i, factoring, named)
        PROVE  NetworkInv'
    BY <2>3, CommitKeeps
  <2>4. ASSUME NEW i \in Invoices, NEW to \in Trades!Status, Trades!UpdateStatus(r, i, to)
        PROVE  NetworkInv'
    BY <2>4, UpdateKeeps
  <2>5. CASE Trades!CommitStatus(r)
    BY <2>5, StatusKeeps
  <2>6. ASSUME NEW side \in Trades!Sides, Trades!FileInvoice(r, side) PROVE NetworkInv'
    BY <2>6, FileKeeps
  <2> QED
    BY <1>3, <2>1, <2>2, <2>3, <2>4, <2>5, <2>6 DEF Trades!Step
<1> QED
  BY <1>1, <1>2, <1>3 DEF TradeStep, Trades!Other

LEMMA TradeInit == Trades!Init => NetworkInv
<1> SUFFICES ASSUME Trades!Init PROVE NetworkInv
  OBVIOUS
<1>1. Trades!AbsentRow \in Trades!Row /\ Trades!AbsentRow.status = "ABSENT"
  BY DEF Trades!AbsentRow, Trades!Row, Trades!Status
<1>2. ASSUME NEW r \in Clerks PROVE Flight(r)
  BY DEF Trades!Init, Flight, Trades!Idle
<1>3. DOMAIN pending = Clerks
  BY DEF Trades!Init
<1>4. ASSUME NEW name \in Names PROVE Trades!Org(name, NONE) \in Organisation
  BY <1>4 DEF Organisation, Trades!Org
<1>5. CASE /\ Trades!Empty /\ rows = [i \in Invoices |-> Trades!AbsentRow]
           /\ orgs \in {<<>>, <<Trades!Org(Trades!AName, NONE)>>}
  <2>1. Trades!AName \in Names
    BY JourneyAssumption DEF Trades!AName
  <2> DEFINE org == Trades!Org(Trades!AName, NONE)
  <2>2. org \in Organisation
    BY <1>4, <2>1
  <2>3. orgs \in Seq(Organisation)
    <3> HIDE DEF org
    <3>1. <<>> \in Seq(Organisation) /\ <<org>> \in Seq(Organisation)
      BY <2>2
    <3>2. orgs = <<>> \/ orgs = <<org>>
      BY <1>5 DEF org
    <3> QED
      BY <3>1, <3>2
  <2>4. rows \in [Invoices -> Trades!Row] /\ \A i \in Invoices : Backed(i)
    BY <1>1, <1>5 DEF Backed
  <2> QED
    BY <1>2, <1>3, <1>5, <2>3, <2>4 DEF NetworkInv, Trades!Empty
<1>6. ASSUME NEW i \in Invoices, NEW a \in Names, NEW b \in Names, NEW number \in Numbers,
             NEW factoring \in BOOLEAN, Trades!Approved(i, a, b, number, factoring)
      PROVE  NetworkInv
  <2> DEFINE first == [Trades!Org(a, NONE) EXCEPT !.supplier = TRUE]
             second == [Trades!Org(b, NONE) EXCEPT !.buyer = TRUE]
             row == [Trades!Filing(1, 2, number, factoring, FALSE) EXCEPT
                       !.status = "APPROVED_FOR_FINANCE"]
  <2>1. /\ first \in Organisation /\ second \in Organisation
        /\ first.supplier /\ second.buyer
    BY <1>4 DEF Organisation, Trades!Org
  <2>2. /\ orgs = <<first, second>> /\ network = {<<1, 2>>}
        /\ rows = [x \in Invoices |-> IF x = i THEN row ELSE Trades!AbsentRow]
    BY <1>6 DEF Trades!Approved
  <2>3. row \in Trades!Row /\ row.issuer = 1 /\ row.debtor = 2
    BY DEF Trades!Filing, Trades!AbsentRow, Trades!Row, Trades!Status, Trades!Allowed
  <2> HIDE DEF first, second, row
  <2>4. orgs \in Seq(Organisation) /\ Trades!OrgIds = 1..2 /\ orgs[1] = first /\ orgs[2] = second
    BY <2>1, <2>2 DEF Trades!OrgIds
  <2>5. rows \in [Invoices -> Trades!Row] /\ \A x \in Invoices : Backed(x)
    BY <1>1, <2>1, <2>2, <2>3, <2>4 DEF Backed
  <2> QED
    BY <1>2, <1>3, <2>1, <2>2, <2>4, <2>5 DEF NetworkInv
<1> QED
  <2>1. Trades!AName \in Names
    BY JourneyAssumption DEF Trades!AName
  <2> QED
    BY <1>5, <1>6, <2>1 DEF Trades!Init, Trades!FirstId

\* The parties of every invoice and of every relationship have their personas,
\* and an invoice has its relationship, however the requests that file invoices,
\* relate organisations and change statuses overlap.
THEOREM NetworkHolds == Spec => [](part = "trade" => Trades!NetworkIsBacked)
<1> DEFINE Inv == part = "trade" => NetworkInv
<1>1. Init => Inv
  BY TradeInit DEF Init
<1>2. Inv /\ [Next]_vars => Inv'
  <2> SUFFICES ASSUME Inv, [Next]_vars, part' = "trade" PROVE NetworkInv'
    OBVIOUS
  <2>1. part = "trade" /\ NetworkInv
    BY DEF Next, vars
  <2>2. CASE TradeStep
    BY <2>1, <2>2, TradeKeeps
  <2>3. CASE UNCHANGED <<rows, pending, orgs, network>>
    BY <2>1, <2>3, NetworkStays
  <2> QED
    BY <2>1, <2>2, <2>3 DEF Next, vars, deskVars, trade
<1>3. Inv => (part = "trade" => Trades!NetworkIsBacked)
  BY DEF NetworkInv, Backed, Trades!NetworkIsBacked, Trades!Live
<1> QED
  BY <1>1, <1>2, <1>3, PTL DEF Spec
-----------------------------------------------------------------------------
(* What one request at a time leaves.  A transaction that nothing comes      *)
(* between leaves Left(p), before and after its select, so what it will do   *)
(* is said of the row that is there.                                         *)

Left(p) ==
    CASE p.op = "insert" -> p.entity
      [] p.op = "save"   -> Merge(rows[p.id], p.entity, Changed(rows[p.id], p.entity, {}))
      [] OTHER           -> Merge(rows[p.id], p.entity, p.changed)

LEMMA SaveLeaves ==
    ASSUME NEW row, NEW entity, NEW c \in DOMAIN row
    PROVE  Merge(row, entity, Changed(row, entity, {}))[c]
             = IF entity[c] = UNDEFINED THEN row[c] ELSE entity[c]
BY DEF Merge, Changed

-----------------------------------------------------------------------------
(* The rate cards.  What a transaction inserts beside its row says what it   *)
(* does to other rows; an event that was announced is on its way, was lost,  *)
(* or is not behind the mirror's newest.                                     *)

CardPending == Cards!Transactions(Cards!Row, Cards!Row, Cards!Record, Cards!Columns)

Archives(p) == {c \in Ids : \E x \in p.recs : x.action = "ARCHIVE" /\ x.card = c}
Publishes(p, c) == \E x \in p.recs : x.action = "PUBLISH" /\ x.card = c

CardTxOK(p) ==
    p # Cards!Idle =>
      /\ product # "none"
      /\ p.entity.status # "ABSENT" /\ p.entity.params \in Params
      /\ \A c \in Archives(p) : rows[c].status # "ABSENT"
      /\ p.op = "insert" => /\ p.entity.status = "DRAFT"
                            /\ \A x \in p.recs : x.action = "CREATE"
      /\ p.op \in {"save", "write"} =>
           /\ rows[p.id].status # "ABSENT" /\ p.entity.version = rows[p.id].version
           /\ \A c \in Ids : Publishes(p, c) => c = p.id

CardRowOK(row) ==
    IF row.status = "ABSENT" THEN row.version = 0 ELSE row.params \in Params

CardTable ==
    /\ rows \in [Ids -> Cards!Row]
    /\ records \in [Ids -> SUBSET Cards!Record]
    /\ pending \in [Requests -> CardPending]
    /\ commits \in Nat
    /\ \A c \in Ids : CardRowOK(rows[c])
    /\ \E n \in {0} \cup {rows[c].version : c \in Ids} : \A c \in Ids : rows[c].version <= n
    /\ \A r \in Requests : CardTxOK(pending[r])

Topic ==
    /\ published \in Seq([version : Nat, params : Params])
    /\ wire \cup lost \subseteq 1..Len(published)
    /\ mirror \in 0..Len(published) /\ newest \in 0..Len(published)
    /\ \A e \in 1..Len(published) : e \in wire \cup lost \/ e <= newest

CardInv ==
    /\ CardTable /\ Topic
    /\ product \in {"none", "standard", "bespoke"} /\ active \in BOOLEAN
    /\ assignments \subseteq [version : Nat, params : Params]
    /\ product = "none" => \A c \in Ids : rows[c].status = "ABSENT"

LEMMA CardTypes == CardInv => Cards!TypeOK
BY DEF CardInv, CardTable, Topic, Cards!TypeOK, CardPending

\* Rows that are there stay, under their version.
CardsStay ==
    \A c \in Ids : rows[c].status # "ABSENT" =>
      rows'[c].status # "ABSENT" /\ rows'[c].version = rows[c].version

LEMMA CardTxGrows ==
    ASSUME NEW p \in CardPending, CardTxOK(p), CardsStay,
           product # "none" => product' # "none"
    PROVE  (p # Cards!Idle =>
             /\ product' # "none"
             /\ \A c \in Archives(p) : rows'[c].status # "ABSENT"
             /\ p.op \in {"save", "write"} =>
                  rows'[p.id].status # "ABSENT" /\ p.entity.version = rows'[p.id].version)
<1>1. p.op \in {"save", "write"} => p.id \in Ids
  BY DEF CardPending, Cards!Transactions, Cards!Idle
<1> QED
  BY <1>1 DEF CardTxOK, CardsStay, Archives

\* A step of a request that touches no row.
LEMMA CardRequestKeeps ==
    ASSUME CardInv, NEW r \in Requests, NEW p \in CardPending, CardTxOK(p),
           pending' = [pending EXCEPT ![r] = p],
           rows' = rows, records' = records, commits' = commits, UNCHANGED cards
    PROVE  CardInv'
<1>1. \A q \in Requests : CardTxOK(pending'[q])
  BY DEF CardInv, CardTable
<1>2. ASSUME NEW q \in Requests PROVE CardTxOK(pending[q])'
  BY <1>1 DEF CardTxOK, Archives, Publishes, cards
<1>3. CardTable'
  BY <1>2 DEF CardInv, CardTable, CardPending, CardRowOK
<1> QED
  BY <1>3 DEF CardInv, Topic, cards

LEMMA CardAbortKeeps ==
    ASSUME CardInv, NEW r \in Requests, Cards!Abort(r), UNCHANGED cards
    PROVE  CardInv'
<1>1. Cards!Idle \in CardPending /\ CardTxOK(Cards!Idle)
  BY DEF CardPending, Cards!Transactions, CardTxOK
<1> QED
  BY <1>1, CardRequestKeeps DEF Cards!Abort

LEMMA CardCompareKeeps ==
    ASSUME CardInv, NEW r \in Requests, Cards!Compare(r, {}), UNCHANGED cards
    PROVE  CardInv'
<1>1. PICK p \in CardPending : pending[r] = p /\ p.op = "save" /\ CardTxOK(p)
  BY DEF CardInv, CardTable, Cards!Compare
<1>2. /\ p.id \in Ids /\ p.entity \in Cards!Row /\ p.recs \in SUBSET Cards!Record
      /\ p # Cards!Idle
  BY <1>1 DEF CardPending, Cards!Transactions, Cards!Idle
<1> DEFINE changed == Cards!Changed(rows[p.id], p.entity, {})
           q == [op |-> "write", id |-> p.id, entity |-> p.entity,
                 changed |-> changed, recs |-> p.recs]
<1>3. changed \subseteq Cards!Columns
  BY <1>2 DEF CardInv, CardTable, Cards!Changed, Cards!Row, Cards!Columns
<1>4. /\ pending' = [pending EXCEPT ![r] = q]
      /\ rows' = rows /\ records' = records /\ commits' = commits
  BY <1>1 DEF Cards!Compare
<1> HIDE DEF changed
<1>5. /\ q.op = "write" /\ q.id = p.id /\ q.entity = p.entity /\ q.recs = p.recs
      /\ q \in CardPending
  BY <1>2, <1>3 DEF CardPending, Cards!Transactions
<1> HIDE DEF q
<1>6. CardTxOK(q)
  BY <1>1, <1>2, <1>5 DEF CardTxOK, Archives, Publishes
<1> QED
  BY <1>4, <1>5, <1>6, CardRequestKeeps

LEMMA CardMergeType ==
    ASSUME NEW row \in Cards!Row, NEW entity \in Cards!Row, NEW changed,
           row.status # "ABSENT", entity.status # "ABSENT", entity.version = row.version,
           row.params \in Params, entity.params \in Params
    PROVE  /\ Cards!Merge(row, entity, changed) \in Cards!Row
           /\ Cards!Merge(row, entity, changed).status # "ABSENT"
           /\ Cards!Merge(row, entity, changed).version = row.version
           /\ Cards!Merge(row, entity, changed).params \in Params
BY DEF Cards!Merge, Cards!Row
\* What a commit finds of its transaction.
LEMMA CardCommitFinds ==
    ASSUME CardInv, NEW r \in Requests, NEW c \in Ids, Cards!Commit(r, c)
    PROVE  /\ product # "none" /\ Cards!Recorded(r, "ARCHIVE") = Archives(pending[r])
           /\ Cards!Written(r, c) = [rows EXCEPT ![c] = Left(pending[r])]
           /\ Left(pending[r]) \in Cards!Row
           /\ Left(pending[r]).status # "ABSENT" /\ Left(pending[r]).params \in Params
           /\ IF pending[r].op = "insert"
              THEN rows[c].status = "ABSENT" /\ Left(pending[r]).status = "DRAFT"
              ELSE /\ pending[r].op = "write" /\ c = pending[r].id
                   /\ rows[c].status # "ABSENT"
                   /\ Left(pending[r]).version = rows[c].version
           /\ \A x \in Archives(pending[r]) : rows[x].status # "ABSENT"
           /\ pending[r].recs \in SUBSET Cards!Record
<1>1. PICK p \in CardPending : pending[r] = p /\ CardTxOK(p)
  BY DEF CardInv, CardTable
<1>2. p # Cards!Idle /\ (p.op = "insert" \/ p.op = "write")
  BY <1>1 DEF Cards!Commit, Cards!Idle
<1>3. /\ p.entity \in Cards!Row /\ p.recs \in SUBSET Cards!Record
      /\ p.op = "write" => p.id \in Ids
  BY <1>1, <1>2 DEF CardPending, Cards!Transactions, Cards!Idle
<1>4. Cards!Recorded(r, "ARCHIVE") = Archives(p)
  BY <1>1 DEF Cards!Recorded, Archives
<1>5. CASE p.op = "insert"
  <2>1. Left(p) = p.entity /\ c \in Cards!NextId
    BY <1>1, <1>5 DEF Left, Cards!Commit
  <2> QED
    BY <1>1, <1>2, <1>3, <1>4, <1>5, <2>1
       DEF CardTxOK, Cards!NextId, Cards!Written
<1>6. CASE p.op = "write"
  <2>1. c = p.id /\ Left(p) = Cards!Merge(rows[c], p.entity, p.changed)
    BY <1>1, <1>6 DEF Left, Merge, Cards!Merge, Cards!Commit
  <2>2. /\ rows[c] \in Cards!Row /\ rows[c].status # "ABSENT" /\ rows[c].params \in Params
        /\ p.entity.status # "ABSENT" /\ p.entity.params \in Params
        /\ p.entity.version = rows[c].version
    BY <1>1, <1>2, <1>6, <2>1 DEF CardInv, CardTable, CardTxOK, CardRowOK
  <2>3. /\ Left(p) \in Cards!Row /\ Left(p).status # "ABSENT"
        /\ Left(p).version = rows[c].version /\ Left(p).params \in Params
    BY <1>3, <2>1, <2>2, CardMergeType
  <2>4. Cards!Written(r, c) = [rows EXCEPT ![c] = Left(p)]
    BY <1>1, <1>6, <2>1 DEF Cards!Written
  <2> QED
    BY <1>1, <1>2, <1>3, <1>4, <1>6, <2>1, <2>2, <2>3, <2>4 DEF CardTxOK
<1> QED
  BY <1>1, <1>2, <1>5, <1>6

\* An event that is announced leaves the topic as it should be.
LEMMA AnnounceKeeps ==
    ASSUME Topic, NEW event \in [version : Nat, params : Params], Cards!Announce(event),
           UNCHANGED <<mirror, newest, lost>>
    PROVE  /\ Topic' /\ Len(published') = Len(published) + 1
           /\ published'[Len(published')] = event
           /\ \A e \in 1..Len(published) : published'[e] = published[e]
<1>1. /\ published' = Append(published, event) /\ wire' = wire \cup {Len(published) + 1}
      /\ Len(published) \in Nat
  BY DEF Cards!Announce, Topic
<1>2. /\ published' \in Seq([version : Nat, params : Params])
      /\ Len(published') = Len(published) + 1
      /\ published'[Len(published')] = event
      /\ \A e \in 1..Len(published) : published'[e] = published[e]
  BY <1>1 DEF Topic
<1> QED
  BY <1>1, <1>2 DEF Topic

LEMMA CardCommitKeeps ==
    ASSUME CardInv, NEW r \in Requests, NEW c \in Ids, Cards!Commit(r, c)
    PROVE  CardInv'
<1> DEFINE p == pending[r]
           row == Left(p)
           table == Cards!Written(r, c)
<1>1. /\ product # "none" /\ table = [rows EXCEPT ![c] = row]
      /\ row \in Cards!Row /\ row.status # "ABSENT" /\ row.params \in Params
      /\ IF p.op = "insert"
         THEN rows[c].status = "ABSENT"
         ELSE rows[c].status # "ABSENT" /\ row.version = rows[c].version
      /\ \A x \in Archives(p) : rows[x].status # "ABSENT"
      /\ p.recs \in SUBSET Cards!Record
  BY CardCommitFinds
<1>2. rows' = [x \in Ids |-> IF x \in Archives(p)
                             THEN [rows[x] EXCEPT !.status = "ARCHIVED"] ELSE table[x]]
  BY CardCommitFinds DEF Cards!Commit
<1>3. /\ pending' = [pending EXCEPT ![r] = Cards!Idle]
      /\ records' = [records EXCEPT ![c] = records[c] \cup p.recs]
      /\ commits' = commits + 1
      /\ UNCHANGED <<product, active, mirror, newest, lost, assignments>>
  BY DEF Cards!Commit, Cards!topic
<1> HIDE DEF p, row, table
<1>4. \A x \in Ids :
        /\ rows'[x] \in Cards!Row /\ CardRowOK(rows'[x])
        /\ rows[x].status # "ABSENT" =>
             rows'[x].status # "ABSENT" /\ rows'[x].version = rows[x].version
        /\ x # c => rows'[x].version = rows[x].version
  BY <1>1, <1>2 DEF CardInv, CardTable, CardRowOK, Cards!Row, Cards!Status
<1>5. rows' \in [Ids -> Cards!Row] /\ CardsStay
  BY <1>2, <1>4 DEF CardsStay
<1>6. \E n \in {0} \cup {rows'[x].version : x \in Ids} : \A x \in Ids : rows'[x].version <= n
  <2>1. PICK n \in {0} \cup {rows[x].version : x \in Ids} : \A x \in Ids : rows[x].version <= n
    BY DEF CardInv, CardTable
  <2>2. /\ n \in Nat /\ \A x \in Ids : rows'[x].version \in Nat /\ rows[x].version \in Nat
    BY <1>4, <2>1 DEF CardInv, CardTable, Cards!Row
  <2>3. CASE rows'[c].version <= n
    <3>1. \A x \in Ids : rows'[x].version <= n
      BY <1>4, <2>1, <2>2, <2>3
    <3>2. n \in {0} \cup {rows'[x].version : x \in Ids}
      <4>1. PICK x : n = 0 \/ (x \in Ids /\ n = rows[x].version)
        BY <2>1
      <4>2. rows[c].status = "ABSENT" => rows[c].version = 0
        BY DEF CardInv, CardTable, CardRowOK
      <4> QED
        BY <1>4, <4>1, <4>2
    <3> QED
      BY <3>1, <3>2
  <2>4. CASE ~(rows'[c].version <= n)
    <3>1. \A x \in Ids : rows'[x].version <= rows'[c].version
      BY <1>4, <2>1, <2>2, <2>4
    <3> QED
      BY <3>1
  <2> QED
    BY <2>3, <2>4
<1>7. \A q \in Requests : CardTxOK(pending[q])'
  <2>1. ASSUME NEW q \in Requests, q # r PROVE CardTxOK(pending[q])'
    <3>1. PICK x \in CardPending : pending[q] = x /\ CardTxOK(x)
      BY DEF CardInv, CardTable
    <3>2. pending'[q] = x
      BY <1>3, <2>1, <3>1 DEF CardInv, CardTable
    <3>3. x # Cards!Idle =>
            /\ product' # "none"
            /\ \A d \in Archives(x) : rows'[d].status # "ABSENT"
            /\ x.op \in {"save", "write"} =>
                 rows'[x.id].status # "ABSENT" /\ x.entity.version = rows'[x.id].version
      BY <1>3, <1>5, <3>1, CardTxGrows
    <3> QED
      BY <3>1, <3>2, <3>3 DEF CardTxOK, Archives, Publishes
  <2>2. CardTxOK(pending[r])'
    BY <1>3 DEF CardInv, CardTable, CardTxOK
  <2> QED
    BY <2>1, <2>2
<1>8. records' \in [Ids -> SUBSET Cards!Record] /\ commits' \in Nat
  BY <1>1, <1>3 DEF CardInv, CardTable
<1>9. pending' \in [Requests -> CardPending]
  BY <1>3 DEF CardInv, CardTable, CardPending, Cards!Transactions
<1>10. CardTable'
  BY <1>4, <1>5, <1>6, <1>7, <1>8, <1>9 DEF CardTable, CardPending
<1>11. Topic'
  <2>1. CASE UNCHANGED <<published, wire>>
    BY <1>3, <2>1 DEF CardInv, Topic
  <2>2. CASE Cards!Announce(Cards!Announced(rows'[c].version, rows'[c].params))
    <3>1. rows'[c] \in Cards!Row /\ rows'[c].status # "ABSENT" /\ rows'[c].params \in Params
      BY <1>1, <1>2, <1>4 DEF CardInv, CardTable, CardRowOK
    <3>2. Cards!Announced(rows'[c].version, rows'[c].params)
            \in [version : Nat, params : Params]
      BY <3>1 DEF Cards!Announced, Cards!Row
    <3> QED
      BY <1>3, <2>2, <3>2, AnnounceKeeps DEF CardInv
  <2> QED
    BY <2>1, <2>2 DEF Cards!Commit
<1> QED
  BY <1>1, <1>3, <1>10, <1>11 DEF CardInv

LEMMA CardBeginKeeps ==
    ASSUME CardInv, NEW r \in Requests, NEW p \in CardPending, CardTxOK(p),
           Cards!Begin(r, p), UNCHANGED cards
    PROVE  CardInv'
BY CardRequestKeeps DEF Cards!Begin

LEMMA CardCreateKeeps ==
    ASSUME CardInv, NEW r \in Requests, NEW params \in Params, Cards!CreateDraft(r, params)
    PROVE  CardInv'
<1>1. Cards!Latest \in Nat
  <2>1. PICK n \in {0} \cup {rows[c].version : c \in Ids} : \A c \in Ids : rows[c].version <= n
    BY DEF CardInv, CardTable
  <2>2. Cards!Latest \in {0} \cup {rows[c].version : c \in Ids}
    BY <2>1 DEF Cards!Latest
  <2> QED
    BY <2>2 DEF CardInv, CardTable, Cards!Row
<1> DEFINE version == Cards!Latest + 1
           entity == [status |-> "DRAFT", version |-> version, params |-> params]
           p == Cards!Inserting(entity, Cards!Audit("CREATE", NONE))
<1>2. product # "none" /\ Cards!Begin(r, p) /\ UNCHANGED cards
  BY DEF Cards!CreateDraft, Cards!cardVars, cards
<1>3. version \in Nat
  BY <1>1
<1> HIDE DEF version
<1>4. /\ entity \in Cards!Row /\ entity.status = "DRAFT" /\ entity.params \in Params
  BY <1>3 DEF Cards!Row, Cards!Status
<1> HIDE DEF entity
<1>5. /\ p \in CardPending /\ p.op = "insert" /\ p.entity = entity
      /\ \A x \in p.recs : x.action = "CREATE"
  BY <1>4 DEF CardPending, Cards!Transactions, Cards!Inserting, Cards!Audit, Cards!Record
<1> HIDE DEF p
<1>6. CardTxOK(p)
  BY <1>2, <1>4, <1>5 DEF CardTxOK, Archives
<1> QED
  BY <1>2, <1>5, <1>6, CardBeginKeeps

\* Saving an entity of the same version, with records about its own card or
\* about cards that are there.
LEMMA CardSaveKeeps ==
    ASSUME CardInv, NEW r \in Requests, NEW c \in Ids, NEW entity \in Cards!Row,
           NEW recs \in SUBSET Cards!Record,
           product # "none", rows[c].status # "ABSENT",
           entity.status # "ABSENT", entity.params \in Params,
           entity.version = rows[c].version,
           \A x \in recs : /\ x.action = "PUBLISH" => x.card = c
                           /\ x.action = "ARCHIVE" => rows[x.card].status # "ABSENT",
           Cards!Begin(r, Cards!Saving(c, entity, recs)), UNCHANGED cards
    PROVE  CardInv'
<1> DEFINE p == Cards!Saving(c, entity, recs)
<1>1. /\ p \in CardPending /\ p.op = "save" /\ p.id = c /\ p.entity = entity /\ p.recs = recs
  BY DEF CardPending, Cards!Transactions, Cards!Saving
<1> HIDE DEF p
<1>2. CardTxOK(p)
  BY <1>1 DEF CardTxOK, Archives, Publishes
<1> QED
  BY <1>1, <1>2, CardBeginKeeps DEF p

LEMMA CardUpdateKeeps ==
    ASSUME CardInv, NEW r \in Requests, NEW c \in Ids, NEW params \in Params,
           Cards!UpdateDraft(r, c, params)
    PROVE  CardInv'
<1> DEFINE entity == [rows[c] EXCEPT !.params = params]
<1>1. /\ rows[c] \in Cards!Row /\ rows[c].status = "DRAFT" /\ UNCHANGED cards
      /\ Cards!Begin(r, Cards!Saving(c, entity, Cards!Audit("UPDATE", c)))
  BY DEF CardInv, CardTable, Cards!UpdateDraft, Cards!cardVars, cards
<1>2. /\ entity \in Cards!Row /\ entity.status = "DRAFT" /\ entity.params \in Params
      /\ entity.version = rows[c].version
  BY <1>1 DEF Cards!Row
<1>3. product # "none"
  BY <1>1 DEF CardInv
<1>4. Cards!Audit("UPDATE", c) \in SUBSET Cards!Record
  BY DEF Cards!Audit, Cards!Record
<1> HIDE DEF entity
<1> QED
  BY <1>1, <1>2, <1>3, <1>4, CardSaveKeeps DEF Cards!Audit

LEMMA CardPublishKeeps ==
    ASSUME CardInv, NEW r \in Requests, NEW c \in Ids, Cards!Publish(r, c)
    PROVE  CardInv'
<1> DEFINE entity == [rows[c] EXCEPT !.status = "PUBLISHED"]
<1>1. PICK current \in SUBSET {x \in Ids : Cards!IsPublished(x)} :
        Cards!Begin(r, Cards!Saving(c, entity,
          Cards!Audit("PUBLISH", c) \cup UNION {Cards!Audit("ARCHIVE", x) : x \in current}))
  BY DEF Cards!Publish
<1> DEFINE recs == Cards!Audit("PUBLISH", c)
                     \cup UNION {Cards!Audit("ARCHIVE", x) : x \in current}
<1>2. rows[c] \in Cards!Row /\ rows[c].status = "DRAFT" /\ UNCHANGED cards
  BY DEF CardInv, CardTable, Cards!Publish, Cards!cardVars, cards
<1>3. /\ entity \in Cards!Row /\ entity.status = "PUBLISHED" /\ entity.params \in Params
      /\ entity.version = rows[c].version
  BY <1>2 DEF CardInv, CardTable, CardRowOK, Cards!Row, Cards!Status
<1>4. product # "none"
  BY <1>2 DEF CardInv
<1>5. /\ recs \in SUBSET Cards!Record
      /\ \A x \in recs : /\ x.action = "PUBLISH" => x.card = c
                         /\ x.action = "ARCHIVE" => rows[x.card].status # "ABSENT"
  BY DEF Cards!Audit, Cards!Record, Cards!IsPublished
<1> HIDE DEF entity, recs
<1>6. Cards!Begin(r, Cards!Saving(c, entity, recs))
  BY <1>1 DEF recs
<1> QED
  BY <1>2, <1>3, <1>4, <1>5, <1>6, CardSaveKeeps

LEMMA CardBespokeKeeps ==
    ASSUME CardInv, NEW params \in Params, Cards!CreateBespoke(params)
    PROVE  CardInv'
<1> DEFINE first == [status |-> "PUBLISHED", version |-> 1, params |-> params]
<1>1. /\ product = "none" /\ product' = "bespoke"
      /\ rows' = [rows EXCEPT ![1] = first]
      /\ Cards!Announce(Cards!Announced(1, params))
      /\ UNCHANGED <<records, pending, commits, active, mirror, newest, lost, assignments>>
  BY DEF Cards!CreateBespoke, Cards!topic
<1>2. \A c \in Ids : rows[c] \in Cards!Row /\ rows[c].status = "ABSENT" /\ rows[c].version = 0
  BY <1>1 DEF CardInv, CardTable, CardRowOK
<1>3. first \in Cards!Row /\ first.status = "PUBLISHED" /\ first.version = 1 /\ CardRowOK(first)
  BY DEF Cards!Row, Cards!Status, CardRowOK
<1> HIDE DEF first
<1>4. rows' \in [Ids -> Cards!Row] /\ \A c \in Ids : rows'[c] = IF c = 1 THEN first ELSE rows[c]
  BY <1>1, <1>3 DEF CardInv, CardTable
<1>5. \A c \in Ids : CardRowOK(rows'[c])
  BY <1>2, <1>3, <1>4 DEF CardRowOK
<1>6. \E n \in {0} \cup {rows'[c].version : c \in Ids} : \A c \in Ids : rows'[c].version <= n
  <2>1. CASE 1 \in Ids
    <3>1. rows'[1].version = 1 /\ \A c \in Ids : rows'[c].version <= 1
      BY <1>2, <1>3, <1>4, <2>1
    <3> QED
      BY <2>1, <3>1
  <2>2. CASE 1 \notin Ids
    <3>1. \A c \in Ids : rows'[c].version <= 0
      BY <1>2, <1>4, <2>2
    <3> QED
      BY <3>1
  <2> QED
    BY <2>1, <2>2
<1>7. ASSUME NEW r \in Requests PROVE CardTxOK(pending[r])'
  BY <1>1 DEF CardInv, CardTable, CardTxOK
<1>8. CardTable'
  BY <1>1, <1>4, <1>5, <1>6, <1>7 DEF CardInv, CardTable, CardPending
<1>9. Cards!Announced(1, params) \in [version : Nat, params : Params]
  BY DEF Cards!Announced
<1>10. Topic'
  BY <1>1, <1>9, AnnounceKeeps DEF CardInv
<1> QED
  BY <1>1, <1>8, <1>10 DEF CardInv

\* The consumer of the mirror.
LEMMA CardHandleKeeps ==
    ASSUME CardInv, Cards!Handle
    PROVE  CardInv' /\ rows' = rows /\ pending' = pending /\ published' = published
           /\ assignments' = assignments
<1>1. PICK e \in wire : Cards!UpsertMirror(e) \/ Cards!UpsertAgain(e) \/ Cards!UpsertFails(e)
  BY DEF Cards!Handle
<1>2. /\ UNCHANGED <<rows, records, pending, commits, product, active, published, assignments>>
      /\ \/ mirror' = e /\ newest' = IF e > newest THEN e ELSE newest
         \/ mirror' = mirror /\ newest' = newest
      /\ wire' \cup lost' \subseteq wire \cup lost
      /\ \A x \in wire \cup lost : x \in wire' \cup lost' \/ x <= newest'
  BY <1>1 DEF CardInv, Topic, Cards!UpsertMirror, Cards!UpsertAgain, Cards!UpsertFails,
              Cards!Upsert, Cards!deskVars
<1>3. newest' \in 0..Len(published) /\ newest <= newest' /\ mirror' \in 0..Len(published)
  BY <1>2 DEF CardInv, Topic
<1>4. Topic'
  BY <1>2, <1>3 DEF CardInv, Topic
<1>5. ASSUME NEW r \in Requests PROVE CardTxOK(pending[r])'
  BY <1>2 DEF CardInv, CardTable, CardTxOK, Archives, Publishes
<1>6. CardTable'
  BY <1>2, <1>5 DEF CardInv, CardTable, CardPending, CardRowOK
<1> QED
  BY <1>2, <1>4, <1>6 DEF CardInv
LEMMA CardOtherKeeps ==
    ASSUME CardInv, Cards!Other
    PROVE  CardInv'
<1>1. CASE Cards!CreateStandard \/ Cards!SetActive \/ \E c \in Ids : Cards!Assign(c)
  <2>1. /\ rows' = rows /\ records' = records /\ pending' = pending /\ commits' = commits
        /\ UNCHANGED <<published, wire, mirror, newest, lost>>
        /\ active' \in BOOLEAN /\ product' \in {"none", "standard", "bespoke"}
        /\ product # "none" => product' # "none"
        /\ product' = "none" => product = "none"
    BY <1>1 DEF CardInv, Cards!CreateStandard, Cards!SetActive, Cards!Assign, Cards!deskVars,
                Cards!topic
  <2>2. assignments' \subseteq [version : Nat, params : Params]
    <3>1. ASSUME NEW c \in Ids, Cards!Assign(c)
          PROVE  assignments' \subseteq [version : Nat, params : Params]
      <4>1. rows[c] \in Cards!Row /\ rows[c].params \in Params
        BY <3>1 DEF CardInv, CardTable, CardRowOK, Cards!Assign, Cards!IsPublished
      <4> QED
        BY <3>1, <4>1 DEF CardInv, Cards!Assign, Cards!Announced, Cards!Row
    <3> QED
      BY <1>1, <3>1 DEF CardInv, Cards!CreateStandard, Cards!SetActive
  <2>3. ASSUME NEW r \in Requests PROVE CardTxOK(pending[r])'
    BY <2>1 DEF CardInv, CardTable, CardTxOK, Archives, Publishes
  <2>4. CardTable' /\ Topic'
    BY <2>1, <2>3 DEF CardInv, CardTable, CardPending, CardRowOK, Topic
  <2> QED
    BY <2>1, <2>2, <2>4 DEF CardInv
<1> QED
  BY <1>1, CardHandleKeeps, CardBespokeKeeps DEF Cards!Other

LEMMA CardStepKeeps ==
    ASSUME CardInv, NEW r \in Requests, Cards!Step(r)
    PROVE  CardInv'
<1>1. CASE (Cards!Compare(r, {}) \/ Cards!Abort(r)) /\ UNCHANGED Cards!cardVars
  BY <1>1, CardCompareKeeps, CardAbortKeeps DEF Cards!cardVars, cards
<1> QED
  BY <1>1, CardCommitKeeps, CardPublishKeeps, CardCreateKeeps, CardUpdateKeeps
     DEF Cards!Step

LEMMA CardsInit == Cards!Init => CardInv
<1> SUFFICES ASSUME Cards!Init PROVE CardInv
  OBVIOUS
<1>1. /\ rows = [c \in Ids |-> Cards!AbsentRow] /\ records = [c \in Ids |-> {}]
      /\ pending = [r \in Requests |-> Cards!Idle] /\ commits = 0 /\ Cards!CardInit
  BY DEF Cards!Init, Cards!DeskInit
<1>2. /\ Cards!AbsentRow \in Cards!Row /\ Cards!AbsentRow.status = "ABSENT"
      /\ Cards!AbsentRow.version = 0
  BY DEF Cards!AbsentRow, Cards!Row, Cards!Status
<1>3. pending \in [Requests -> CardPending] /\ \A r \in Requests : CardTxOK(pending[r])
  BY <1>1 DEF CardPending, Cards!Transactions, CardTxOK
<1>4. /\ \A c \in Ids : CardRowOK(rows[c]) /\ rows[c].version <= 0
      /\ rows \in [Ids -> Cards!Row]
  BY <1>1, <1>2 DEF CardRowOK
<1>5. CardTable
  BY <1>1, <1>3, <1>4 DEF CardTable
<1> QED
  BY <1>1, <1>2, <1>5 DEF CardInv, Topic, Cards!CardInit

-----------------------------------------------------------------------------
(* The rate cards, one request at a time.  The card that is published is     *)
(* what was announced last; to publish another, the transaction archives it. *)

CardProposes(p) ==
    p.op \in {"save", "write"} =>
      /\ rows[p.id].status = "DRAFT"
      /\ \A c \in Archives(p) : Cards!IsPublished(c)
      /\ IF Publishes(p, p.id)
         THEN /\ Left(p).status = "PUBLISHED"
              /\ \A c \in Ids : Cards!IsPublished(c) => c \in Archives(p)
         ELSE Left(p).status = "DRAFT"

LastAnnounced(row) ==
    /\ Len(published) > 0
    /\ published[Len(published)] = Cards!Announced(row.version, row.params)

CardAlone ==
    /\ Cards!OnePublished /\ Cards!AssignedAsAnnounced
    /\ \A c \in Ids : Cards!IsPublished(c) => LastAnnounced(rows[c])
    /\ \A r \in Requests : CardProposes(pending[r])

LEMMA CardAloneQuiet ==
    ASSUME CardInv, CardAlone, NEW r \in Requests, NEW q, CardProposes(q),
           pending' = [pending EXCEPT ![r] = q], rows' = rows, UNCHANGED cards
    PROVE  CardAlone'
<1>1. ASSUME NEW x \in Requests PROVE CardProposes(pending[x])'
  <2>1. CardProposes(pending'[x])
    BY DEF CardInv, CardTable, CardAlone
  <2> QED
    BY <2>1 DEF CardProposes, Left, Archives, Publishes, Cards!IsPublished
<1>2. UNCHANGED <<published, assignments>>
  BY DEF cards
<1> QED
  BY <1>1, <1>2 DEF CardAlone, LastAnnounced, Cards!OnePublished, Cards!AssignedAsAnnounced,
                    Cards!IsPublished

LEMMA CardIdleProposes == CardProposes(Cards!Idle)
BY DEF CardProposes, Cards!Idle

LEMMA CardCompareAlone ==
    ASSUME CardInv, CardAlone, NEW r \in Requests, Cards!Compare(r, {}), UNCHANGED cards
    PROVE  CardAlone'
<1> DEFINE p == pending[r]
           q == [op |-> "write", id |-> p.id, entity |-> p.entity,
                 changed |-> Cards!Changed(rows[p.id], p.entity, {}), recs |-> p.recs]
<1>1. pending' = [pending EXCEPT ![r] = q] /\ rows' = rows /\ p.op = "save"
  BY DEF Cards!Compare
<1>2. Left(q) = Left(p)
  BY <1>1 DEF Left, Cards!Changed, Changed
<1>3. q.op = "write" /\ q.id = p.id /\ q.recs = p.recs
  OBVIOUS
<1>4. CardProposes(p)
  BY DEF CardAlone
<1> HIDE DEF p, q
<1>5. CardProposes(q)
  BY <1>1, <1>2, <1>3, <1>4 DEF CardProposes, Archives, Publishes
<1> QED
  BY <1>1, <1>5, CardAloneQuiet

LEMMA CardCommitAlone ==
    ASSUME CardInv, CardAlone, NEW r \in Requests, NEW c \in Ids, Cards!Commit(r, c),
           \A q \in Requests \ {r} : pending[q] = Cards!Idle
    PROVE  CardAlone'
<1> DEFINE p == pending[r]
           row == Left(p)
           table == Cards!Written(r, c)
<1>1. /\ table = [rows EXCEPT ![c] = row]
      /\ row \in Cards!Row /\ row.params \in Params
      /\ IF p.op = "insert"
         THEN rows[c].status = "ABSENT" /\ row.status = "DRAFT"
         ELSE p.op = "write" /\ c = p.id /\ rows[c].status # "ABSENT"
      /\ p.recs \in SUBSET Cards!Record
      /\ Cards!Recorded(r, "ARCHIVE") = Archives(p)
  BY CardCommitFinds
<1>2. rows' = [x \in Ids |-> IF x \in Archives(p)
                             THEN [rows[x] EXCEPT !.status = "ARCHIVED"] ELSE table[x]]
  BY <1>1 DEF Cards!Commit
<1>3. /\ CardTxOK(p) /\ CardProposes(p) /\ p # Cards!Idle
      /\ Cards!Recorded(r, "PUBLISH") = {x \in Ids : Publishes(p, x)}
  BY <1>1 DEF CardInv, CardTable, CardAlone, Cards!Idle, Cards!Recorded, Publishes
<1>4. /\ pending' = [pending EXCEPT ![r] = Cards!Idle]
      /\ UNCHANGED <<mirror, newest, lost, assignments>>
      /\ IF Cards!Recorded(r, "PUBLISH") = {} THEN UNCHANGED <<published, wire>>
         ELSE Cards!Announce(Cards!Announced(rows'[c].version, rows'[c].params))
  BY DEF Cards!Commit, Cards!topic
<1>5. ASSUME NEW x \in Requests PROVE CardProposes(pending[x])'
  <2>1. pending'[x] = Cards!Idle
    BY <1>4 DEF CardInv, CardTable
  <2> QED
    BY <2>1 DEF CardProposes, Cards!Idle
<1> HIDE DEF p, row, table
<1>6. c \notin Archives(p) /\ Archives(p) \subseteq Ids
  <2>1. CASE p.op = "insert"
    BY <1>3, <2>1 DEF CardTxOK, Archives
  <2>2. CASE p.op # "insert"
    BY <1>1, <1>3, <2>2 DEF CardProposes, Archives, Cards!IsPublished
  <2> QED
    BY <2>1, <2>2
<1>7. /\ rows'[c] = row
      /\ \A x \in Ids \ {c} :
           /\ x \notin Archives(p) => rows'[x] = rows[x]
           /\ x \in Archives(p) => rows'[x].status = "ARCHIVED"
  BY <1>1, <1>2, <1>6 DEF CardInv, CardTable, Cards!Row
<1>8. CASE Publishes(p, c)
  <2>1. p.op # "insert"
    BY <1>3, <1>8 DEF CardTxOK, Publishes
  <2>2. row.status = "PUBLISHED" /\ \A x \in Ids : Cards!IsPublished(x) => x \in Archives(p)
    BY <1>1, <1>3, <1>8, <2>1 DEF CardProposes, row, p
  <2>3. \A x \in Ids : Cards!IsPublished(x)' <=> x = c
    BY <1>6, <1>7, <2>2 DEF Cards!IsPublished
  <2>4. Cards!Announce(Cards!Announced(row.version, row.params))
    BY <1>3, <1>4, <1>7, <1>8
  <2>5. Cards!Announced(row.version, row.params) \in [version : Nat, params : Params]
    BY <1>1 DEF Cards!Announced, Cards!Row
  <2>6. /\ Len(published') = Len(published) + 1 /\ Len(published) \in Nat
        /\ published'[Len(published')] = Cards!Announced(row.version, row.params)
        /\ \A e \in 1..Len(published) : published'[e] = published[e]
    BY <1>4, <2>4, <2>5, AnnounceKeeps DEF CardInv, Topic
  <2>7. Cards!AssignedAsAnnounced'
    BY <1>4, <2>6 DEF CardAlone, Cards!AssignedAsAnnounced
  <2>8. LastAnnounced(rows[c])'
    BY <1>7, <2>6 DEF LastAnnounced
  <2> QED
    BY <1>5, <2>3, <2>7, <2>8 DEF CardAlone, Cards!OnePublished
<1>9. CASE ~Publishes(p, c)
  <2>1. Cards!Recorded(r, "PUBLISH") = {}
    BY <1>1, <1>3, <1>9 DEF CardTxOK, Publishes
  <2>2. row.status # "PUBLISHED"
    <3>1. CASE p.op = "insert"
      BY <1>1, <3>1
    <3>2. CASE p.op # "insert"
      BY <1>1, <1>3, <1>9, <3>2 DEF CardProposes, row, p
    <3> QED
      BY <3>1, <3>2
  <2>3. \A x \in Ids : Cards!IsPublished(x)' => Cards!IsPublished(x) /\ rows'[x] = rows[x]
    BY <1>7, <2>2 DEF Cards!IsPublished
  <2> QED
    BY <1>4, <1>5, <2>1, <2>3
       DEF CardAlone, LastAnnounced, Cards!OnePublished, Cards!AssignedAsAnnounced
<1> QED
  BY <1>8, <1>9

\* Saving a draft's entity: a published one, with every published card
\* archived, or a draft.
LEMMA CardSaveAlone ==
    ASSUME CardInv, CardAlone, NEW r \in Requests, NEW c \in Ids,
           NEW entity \in Cards!Row, NEW recs, rows[c].status = "DRAFT",
           Cards!Begin(r, Cards!Saving(c, entity, recs)), UNCHANGED cards,
           \A x \in Ids : x \in Archives([recs |-> recs]) => Cards!IsPublished(x),
           IF Publishes([recs |-> recs], c)
           THEN /\ entity.status = "PUBLISHED"
                /\ \A x \in Ids : Cards!IsPublished(x) => x \in Archives([recs |-> recs])
           ELSE entity.status = "DRAFT"
    PROVE  CardAlone'
<1> DEFINE q == Cards!Saving(c, entity, recs)
<1>1. DOMAIN rows[c] = Cards!Columns
  BY DEF CardInv, CardTable, Cards!Row, Cards!Columns
<1>2. rows' = rows /\ pending' = [pending EXCEPT ![r] = q]
  BY DEF Cards!Begin
<1>3. q.op = "save" /\ q.id = c /\ q.entity = entity /\ q.recs = recs
  BY DEF Cards!Saving
<1> HIDE DEF q
<1>4. Left(q)["status"] = entity.status
  <2>1. entity.status # UNDEFINED
    BY ColumnsAssumption DEF Cards!Row
  <2>2. Left(q) = Merge(rows[c], entity, Changed(rows[c], entity, {}))
    BY <1>3 DEF Left
  <2>3. "status" \in DOMAIN rows[c]
    BY <1>1 DEF Cards!Columns
  <2> QED
    BY <2>1, <2>2, <2>3, SaveLeaves
<1>5. CardProposes(q)
  BY <1>3, <1>4 DEF CardProposes, Archives, Publishes
<1> QED
  BY <1>2, <1>5, CardAloneQuiet

LEMMA CardUpdateAlone ==
    ASSUME CardInv, CardAlone, NEW r \in Requests, NEW c \in Ids, NEW params \in Params,
           Cards!UpdateDraft(r, c, params)
    PROVE  CardAlone'
<1> DEFINE entity == [rows[c] EXCEPT !.params = params]
           recs == Cards!Audit("UPDATE", c)
<1>1. /\ rows[c] \in Cards!Row /\ rows[c].status = "DRAFT" /\ UNCHANGED cards
      /\ Cards!Begin(r, Cards!Saving(c, entity, recs))
  BY DEF CardInv, CardTable, Cards!UpdateDraft, Cards!cardVars, cards
<1>2. entity \in Cards!Row /\ entity.status = "DRAFT"
  BY <1>1 DEF Cards!Row
<1>3. \A x \in recs : x.action = "UPDATE"
  BY DEF Cards!Audit
<1> HIDE DEF entity, recs
<1>4. Archives([recs |-> recs]) = {} /\ ~Publishes([recs |-> recs], c)
  BY <1>3 DEF Archives, Publishes
<1> QED
  BY <1>1, <1>2, <1>4, CardSaveAlone

\* The instance of RateCard counts as FiniteSets does.
LEMMA CardEmptyCount == Cards!Cardinality({}) = 0
BY FS_EmptySet DEF Cards!Cardinality, Cardinality, Cards!IsFiniteSet, IsFiniteSet

LEMMA CardPublishAlone ==
    ASSUME CardInv, CardAlone, NEW r \in Requests, NEW c \in Ids, Cards!Publish(r, c)
    PROVE  CardAlone'
<1> DEFINE entity == [rows[c] EXCEPT !.status = "PUBLISHED"]
<1>1. PICK current \in SUBSET {x \in Ids : Cards!IsPublished(x)} :
        /\ Cards!Cardinality(current) = IF \E x \in Ids : Cards!IsPublished(x) THEN 1 ELSE 0
        /\ Cards!Begin(r, Cards!Saving(c, entity,
             Cards!Audit("PUBLISH", c) \cup UNION {Cards!Audit("ARCHIVE", x) : x \in current}))
  BY DEF Cards!Publish
<1> DEFINE recs == Cards!Audit("PUBLISH", c)
                     \cup UNION {Cards!Audit("ARCHIVE", x) : x \in current}
<1>2. rows[c] \in Cards!Row /\ rows[c].status = "DRAFT" /\ UNCHANGED cards
  BY DEF CardInv, CardTable, Cards!Publish, Cards!cardVars, cards
<1>3. entity \in Cards!Row /\ entity.status = "PUBLISHED"
  BY <1>2 DEF Cards!Row, Cards!Status
<1>4. \A x \in Ids : Cards!IsPublished(x) <=> x \in current
  <2>1. (\E x \in Ids : Cards!IsPublished(x)) => current # {}
    BY <1>1, CardEmptyCount
  <2> QED
    BY <2>1 DEF CardAlone, Cards!OnePublished
<1>5. /\ [action |-> "PUBLISH", card |-> c] \in recs
      /\ \A x \in current : [action |-> "ARCHIVE", card |-> x] \in recs
      /\ \A y \in recs : y.action = "ARCHIVE" => y.card \in current
  <2>1. \A y : y \in recs <=> \/ y = [action |-> "PUBLISH", card |-> c]
                             \/ \E x \in current : y = [action |-> "ARCHIVE", card |-> x]
    BY DEF Cards!Audit
  <2> HIDE DEF recs
  <2> QED
    BY <2>1
<1>6. Cards!Begin(r, Cards!Saving(c, entity, recs))
  BY <1>1
<1> HIDE DEF entity, recs
<1>7. Publishes([recs |-> recs], c)
  BY <1>5 DEF Publishes
<1>8. Archives([recs |-> recs]) = current
  <2>1. \A x \in current : x \in Archives([recs |-> recs])
    BY <1>5 DEF Archives
  <2>2. \A x \in Archives([recs |-> recs]) : x \in current
    BY <1>5 DEF Archives
  <2> QED
    BY <2>1, <2>2
<1> QED
  BY <1>2, <1>3, <1>4, <1>6, <1>7, <1>8, CardSaveAlone

LEMMA CardCreateAlone ==
    ASSUME CardInv, CardAlone, NEW r \in Requests, NEW params \in Params,
           Cards!CreateDraft(r, params)
    PROVE  CardAlone'
<1>1. PICK q : /\ q.op = "insert" /\ Cards!Begin(r, q) /\ UNCHANGED cards
  BY DEF Cards!CreateDraft, Cards!Inserting, Cards!cardVars, cards
<1>2. CardProposes(q)
  BY <1>1 DEF CardProposes
<1> QED
  BY <1>1, <1>2, CardAloneQuiet DEF Cards!Begin

LEMMA CardStepAlone ==
    ASSUME CardInv, CardAlone, NEW r \in Requests, Cards!Step(r),
           \A q \in Requests \ {r} : pending[q] = Cards!Idle
    PROVE  CardAlone'
<1>1. CASE (Cards!Compare(r, {}) \/ Cards!Abort(r)) /\ UNCHANGED Cards!cardVars
  <2>1. UNCHANGED cards
    BY <1>1 DEF Cards!cardVars, cards
  <2> QED
    BY <1>1, <2>1, CardCompareAlone, CardAloneQuiet, CardIdleProposes DEF Cards!Abort
<1> QED
  BY <1>1, CardCommitAlone, CardPublishAlone, CardCreateAlone, CardUpdateAlone
     DEF Cards!Step

\* What is not a request of its own transaction: a bespoke product has the
\* first card of all, and a client is assigned what is published.
LEMMA CardOtherAlone ==
    ASSUME CardInv, CardAlone, Cards!Other
    PROVE  CardAlone'
<1>1. ASSUME rows' = rows, pending' = pending, published' = published,
             Cards!AssignedAsAnnounced'
      PROVE  CardAlone'
  <2>1. ASSUME NEW x \in Requests PROVE CardProposes(pending[x])'
    BY <1>1 DEF CardAlone, CardProposes, Left, Archives, Publishes, Cards!IsPublished
  <2> QED
    BY <1>1, <2>1 DEF CardAlone, LastAnnounced, Cards!OnePublished, Cards!IsPublished
<1>2. CASE Cards!CreateStandard \/ Cards!SetActive
  BY <1>1, <1>2 DEF Cards!CreateStandard, Cards!SetActive, CardAlone,
                    Cards!AssignedAsAnnounced, Cards!deskVars
<1>3. CASE Cards!Handle
  BY <1>1, <1>3, CardHandleKeeps DEF CardAlone, Cards!AssignedAsAnnounced
<1>4. ASSUME NEW c \in Ids, Cards!Assign(c) PROVE CardAlone'
  <2>1. /\ LastAnnounced(rows[c]) /\ Len(published) \in Nat
        /\ assignments' = assignments \cup {Cards!Announced(rows[c].version, rows[c].params)}
        /\ rows' = rows /\ pending' = pending /\ published' = published
    BY <1>4 DEF CardInv, Topic, CardAlone, Cards!Assign, Cards!deskVars
  <2>2. Cards!AssignedAsAnnounced'
    BY <2>1 DEF CardAlone, LastAnnounced, Cards!AssignedAsAnnounced
  <2> QED
    BY <1>1, <2>1, <2>2
<1>5. ASSUME NEW params \in Params, Cards!CreateBespoke(params) PROVE CardAlone'
  <2> DEFINE first == [status |-> "PUBLISHED", version |-> 1, params |-> params]
  <2>1. /\ product = "none" /\ pending' = pending /\ assignments' = assignments
        /\ rows' = [rows EXCEPT ![1] = first]
        /\ Cards!Announce(Cards!Announced(1, params))
        /\ UNCHANGED <<mirror, newest, lost>>
    BY <1>5 DEF Cards!CreateBespoke, Cards!topic
  <2>2. \A x \in Requests : pending'[x] = Cards!Idle
    BY <2>1 DEF CardInv, CardTable, CardTxOK
  <2>3. /\ Len(published') = Len(published) + 1 /\ Len(published) \in Nat
        /\ published'[Len(published')] = Cards!Announced(1, params)
        /\ \A e \in 1..Len(published) : published'[e] = published[e]
    <3>1. Cards!Announced(1, params) \in [version : Nat, params : Params]
      BY DEF Cards!Announced
    <3> QED
      BY <2>1, <3>1, AnnounceKeeps DEF CardInv, Topic
  <2>4. first.status = "PUBLISHED" /\ first.version = 1 /\ first.params = params
    OBVIOUS
  <2> HIDE DEF first
  <2>5. \A c \in Ids : Cards!IsPublished(c)' => c = 1 /\ rows'[c] = first
    BY <2>1 DEF CardInv, CardTable, Cards!IsPublished
  <2>6. \A c \in Ids : Cards!IsPublished(c)' => LastAnnounced(rows[c])'
    BY <2>3, <2>4, <2>5 DEF LastAnnounced
  <2>7. Cards!AssignedAsAnnounced'
    BY <2>1, <2>3 DEF CardAlone, Cards!AssignedAsAnnounced
  <2>8. \A x \in Requests : CardProposes(pending[x])'
    BY <2>2 DEF CardProposes, Cards!Idle
  <2> QED
    BY <2>5, <2>6, <2>7, <2>8 DEF CardAlone, Cards!OnePublished
<1> QED
  BY <1>2, <1>3, <1>4, <1>5 DEF Cards!Other

LEMMA CardAloneInit == Cards!Init => CardAlone
<1> SUFFICES ASSUME Cards!Init PROVE CardAlone
  OBVIOUS
<1>1. /\ rows = [c \in Ids |-> Cards!AbsentRow] /\ assignments = {}
      /\ pending = [r \in Requests |-> Cards!Idle]
  BY DEF Cards!Init, Cards!DeskInit, Cards!CardInit
<1>2. \A c \in Ids : ~Cards!IsPublished(c)
  BY <1>1 DEF Cards!IsPublished, Cards!AbsentRow
<1> QED
  BY <1>1, <1>2, CardIdleProposes DEF CardAlone, Cards!OnePublished, Cards!AssignedAsAnnounced

\* The mirror follows: with nothing on its way or lost, its newest event is
\* the last one announced.
LEMMA CardMirrors == CardInv /\ CardAlone => Cards!MirrorFollows
<1> SUFFICES ASSUME CardInv, CardAlone, wire = {}, lost = {}, mirror = newest,
                    NEW c \in Ids, Cards!IsPublished(c)
             PROVE  /\ mirror > 0
                    /\ published[mirror] = Cards!Announced(rows[c].version, rows[c].params)
  BY DEF Cards!MirrorFollows
<1>1. LastAnnounced(rows[c]) /\ Len(published) \in Nat
  BY DEF CardInv, Topic, CardAlone
<1>2. newest = Len(published)
  BY <1>1 DEF CardInv, Topic, LastAnnounced
<1> QED
  BY <1>1, <1>2 DEF LastAnnounced
-----------------------------------------------------------------------------
(* The queue of applicants.  Only the consumer inserts, and only while the   *)
(* message it has not recorded is of the first topic.                        *)

QueuePending == Queue!Transactions(Queue!Row, Queue!Row, {}, Queue!Columns)

QueueInv ==
    /\ rows \in [Applications -> Queue!Row]
    /\ pending \in [Requests -> QueuePending]
    /\ source \in [Applications -> [verdict : Queue!Verdicts, passed : BOOLEAN,
                                    client : BOOLEAN]]
    /\ scored \in Seq(Applications \X Queue!Verdicts) /\ onboarded \in Seq(Applications)
    /\ unrecorded \in {"none", "scored", "onboarded"}
    /\ missed \cup failed \subseteq Applications
    /\ unrecorded = "scored" => scored # <<>>
    /\ unrecorded = "onboarded" => onboarded # <<>>
    /\ pending[Consumer] # Queue!Idle => unrecorded # "none"
    /\ \A r \in Requests \ {Consumer} : pending[r].op # "insert"
    /\ pending[Consumer].op = "insert" => unrecorded = "scored"

LEMMA QueueTypes == QueueInv => Queue!TypeOK
BY DEF QueueInv, Queue!TypeOK, QueuePending

\* What is first of a topic, and what follows it.
LEMMA FirstOf ==
    ASSUME NEW S, NEW s \in Seq(S), s # <<>>
    PROVE  /\ Len(s) \in Nat /\ Len(s) > 0 /\ Head(s) = s[1] /\ Head(s) \in S
           /\ Tail(s) \in Seq(S) /\ Len(Tail(s)) = Len(s) - 1
           /\ \A n \in 1..Len(Tail(s)) : Tail(s)[n] = s[n + 1]
OBVIOUS

\* What is added to a topic leaves what is there.
LEMMA AddedTo ==
    ASSUME NEW S, NEW s \in Seq(S), NEW x \in S
    PROVE  /\ Len(s) \in Nat /\ Append(s, x) \in Seq(S) /\ Append(s, x) # <<>>
           /\ Len(Append(s, x)) = Len(s) + 1 /\ Append(s, x)[Len(s) + 1] = x
           /\ \A n \in 1..Len(s) : Append(s, x)[n] = s[n]
           /\ s # <<>> => Head(Append(s, x)) = Head(s)
<1>1. /\ Len(s) \in Nat /\ Append(s, x) \in Seq(S) /\ Len(Append(s, x)) = Len(s) + 1
      /\ Append(s, x)[Len(s) + 1] = x /\ \A n \in 1..Len(s) : Append(s, x)[n] = s[n]
  OBVIOUS
<1>2. Append(s, x) # <<>> /\ Head(Append(s, x)) = Append(s, x)[1]
  BY <1>1
<1>3. s # <<>> => 1 \in 1..Len(s) /\ Head(s) = s[1]
  OBVIOUS
<1> QED
  BY <1>1, <1>2, <1>3

\* What the message in hand is about.
LEMMA HeadTypes ==
    ASSUME QueueInv
    PROVE  /\ unrecorded = "scored" \/ scored # <<>> =>
                Head(scored)[1] \in Applications /\ Head(scored)[2] \in Queue!Verdicts
           /\ unrecorded = "onboarded" \/ onboarded # <<>> => Head(onboarded) \in Applications
BY DEF QueueInv

LEMMA QueueRequestKeeps ==
    ASSUME QueueInv, NEW r \in Requests, NEW p \in QueuePending,
           p.op # "insert", r = Consumer => p = Queue!Idle \/ unrecorded # "none",
           pending' = [pending EXCEPT ![r] = p], rows' = rows, UNCHANGED queue
    PROVE  QueueInv'
BY DEF QueueInv, QueuePending, queue

LEMMA QueueIdlePending == Queue!Idle \in QueuePending /\ Queue!Idle.op = "idle"
BY DEF QueuePending, Queue!Transactions, Queue!Idle

LEMMA QueueCompareKeeps ==
    ASSUME QueueInv, NEW r \in Requests, Queue!Compare(r, {}), UNCHANGED Queue!feed
    PROVE  QueueInv'
<1>1. PICK p \in QueuePending : pending[r] = p /\ p.op = "save"
  BY DEF QueueInv, Queue!Compare
<1>2. /\ p.id \in Applications /\ p.entity \in Queue!Row /\ p.recs \in SUBSET {}
      /\ p # Queue!Idle
  BY <1>1 DEF QueuePending, Queue!Transactions, Queue!Idle
<1> DEFINE changed == Queue!Changed(rows[p.id], p.entity, {})
           q == [op |-> "write", id |-> p.id, entity |-> p.entity,
                 changed |-> changed, recs |-> p.recs]
<1>3. changed \subseteq Queue!Columns
  BY <1>2 DEF QueueInv, Queue!Changed, Queue!Row, Queue!Columns
<1>4. pending' = [pending EXCEPT ![r] = q] /\ rows' = rows /\ UNCHANGED queue
  BY <1>1 DEF Queue!Compare, Queue!feed, queue
<1> HIDE DEF changed
<1>5. q \in QueuePending /\ q.op # "insert"
  BY <1>2, <1>3 DEF QueuePending, Queue!Transactions
<1>6. r = Consumer => unrecorded # "none"
  BY <1>1, <1>2 DEF QueueInv
<1> HIDE DEF q
<1> QED
  BY <1>4, <1>5, <1>6, QueueRequestKeeps

LEMMA QueueAbortKeeps ==
    ASSUME QueueInv, NEW r \in Requests, Queue!Abort(r), UNCHANGED Queue!feed
    PROVE  QueueInv'
<1>1. UNCHANGED queue
  BY DEF Queue!feed, queue
<1> QED
  BY <1>1, QueueRequestKeeps, QueueIdlePending DEF Queue!Abort

LEMMA QueueMergeType ==
    ASSUME NEW row \in Queue!Row, NEW entity \in Queue!Row, NEW changed
    PROVE  Queue!Merge(row, entity, changed) \in Queue!Row
BY DEF Queue!Merge, Queue!Row

\* What a commit leaves: the row of its transaction.
LEMMA QueueCommitFinds ==
    ASSUME QueueInv, NEW r \in Requests, Queue!Commit(r)
    PROVE  \E a \in Applications :
             /\ Left(pending[r]) \in Queue!Row /\ rows' = [rows EXCEPT ![a] = Left(pending[r])]
             /\ \/ pending[r].op = "insert" /\ r = Consumer /\ a = Head(scored)[1]
                \/ pending[r].op = "write" /\ a = pending[r].id
<1>1. PICK p \in QueuePending : pending[r] = p
  BY DEF QueueInv
<1>2. PICK a \in Applications :
        /\ (p.op = "insert" /\ a = Head(scored)[1]) \/ (p.op = "write" /\ a = p.id)
        /\ rows' = Queue!Written(r, a)
  BY <1>1 DEF Queue!Commit
<1>3. p.entity \in Queue!Row
  BY <1>2 DEF QueuePending, Queue!Transactions, Queue!Idle
<1>4. CASE p.op = "insert"
  <2>1. r = Consumer
    BY <1>1, <1>4 DEF QueueInv
  <2> QED
    BY <1>1, <1>2, <1>3, <1>4, <2>1 DEF Left, Queue!Written
<1>5. CASE p.op = "write"
  <2>1. Left(p) = Queue!Merge(rows[a], p.entity, p.changed)
    BY <1>2, <1>5 DEF Left, Merge, Queue!Merge
  <2>2. Left(p) \in Queue!Row
    BY <1>3, <2>1, QueueMergeType DEF QueueInv
  <2> QED
    BY <1>1, <1>2, <1>5, <2>1, <2>2 DEF Queue!Written
<1> QED
  BY <1>2, <1>4, <1>5

LEMMA QueueCommitKeeps ==
    ASSUME QueueInv, NEW r \in Requests, Queue!Commit(r)
    PROVE  QueueInv'
<1>1. /\ pending' = [pending EXCEPT ![r] = Queue!Idle]
      /\ UNCHANGED <<source, scored, onboarded, unrecorded, missed, failed>>
  BY DEF Queue!Commit, Queue!feed
<1>2. rows' \in [Applications -> Queue!Row]
  BY QueueCommitFinds DEF QueueInv
<1>3. Queue!Idle \in QueuePending /\ Queue!Idle.op \notin {"insert"}
  BY QueueIdlePending
<1>4. /\ pending' \in [Requests -> QueuePending]
      /\ \A x \in Requests : pending'[x] = pending[x] \/ pending'[x] = Queue!Idle
  BY <1>1, <1>3 DEF QueueInv
<1>5. /\ pending'[Consumer] # Queue!Idle => unrecorded # "none"
      /\ \A x \in Requests \ {Consumer} : pending'[x].op # "insert"
      /\ pending'[Consumer].op = "insert" => unrecorded = "scored"
  <2>1. Consumer \in Requests
    BY JourneyAssumption
  <2> QED
    BY <1>3, <1>4, <2>1 DEF QueueInv
<1> QED
  BY <1>1, <1>2, <1>4, <1>5 DEF QueueInv

LEMMA QueueAssignKeeps ==
    ASSUME QueueInv, NEW r \in Requests \ {Consumer}, NEW a \in Applications,
           NEW p \in Managers, Queue!Assign(r, a, p)
    PROVE  QueueInv'
<1> DEFINE entity == [rows[a] EXCEPT !.rm = p]
           q == Queue!Saving(a, entity, {})
<1>1. Queue!Begin(r, q) /\ UNCHANGED queue
  BY DEF Queue!Assign, Queue!feed, queue
<1>2. entity \in Queue!Row
  <2>1. rows[a] \in Queue!Row
    BY DEF QueueInv
  <2> QED
    BY <2>1 DEF Queue!Row
<1> HIDE DEF entity
<1>3. q \in QueuePending /\ q.op = "save"
  BY <1>2 DEF QueuePending, Queue!Transactions, Queue!Saving
<1> HIDE DEF q
<1> QED
  BY <1>1, <1>3, QueueRequestKeeps DEF Queue!Begin

\* What the consumer begins for a message of either topic.
LEMMA ScoredBegins ==
    ASSUME QueueInv, Queue!HandleApplicationScored
    PROVE  \E q \in QueuePending :
             /\ scored # <<>> /\ unrecorded' = "scored"
             /\ pending' = [pending EXCEPT ![Consumer] = q]
             /\ UNCHANGED <<rows, source, scored, onboarded, missed, failed>>
             /\ q.recs = {} /\ q.entity.verdict = Head(scored)[2]
             /\ q.entity.status = "PRESENT"
             /\ IF rows[Head(scored)[1]].status = "ABSENT"
                THEN q.op = "insert" /\ ~q.entity.client
                ELSE /\ q.op = "save" /\ q.id = Head(scored)[1]
                     /\ q.entity.client = rows[Head(scored)[1]].client
<1> DEFINE a == Head(scored)[1]
           v == Head(scored)[2]
           new == [Queue!AbsentRow EXCEPT !.status = "PRESENT", !.verdict = v]
           known == [rows[a] EXCEPT !.verdict = v]
           inserts == [op |-> "insert", recs |-> {}, entity |-> new]
           saves == Queue!Saving(a, known, {})
<1>1. /\ scored # <<>> /\ unrecorded' = "scored"
      /\ UNCHANGED <<rows, source, scored, onboarded, missed, failed>>
      /\ IF rows[a].status = "ABSENT"
         THEN pending' = [pending EXCEPT ![Consumer] = inserts]
         ELSE pending' = [pending EXCEPT ![Consumer] = saves]
  BY DEF Queue!HandleApplicationScored, Queue!Begin
<1>2. a \in Applications /\ v \in Queue!Verdicts
  BY <1>1, HeadTypes
<1> HIDE DEF a, v
<1>3. /\ new \in Queue!Row /\ new.verdict = v /\ ~new.client /\ new.status = "PRESENT"
  BY <1>2 DEF Queue!Row, Queue!AbsentRow
<1>4. /\ known \in Queue!Row /\ known.verdict = v /\ known.client = rows[a].client
      /\ rows[a].status # "ABSENT" => known.status = "PRESENT"
  BY <1>2 DEF QueueInv, Queue!Row
<1> HIDE DEF new, known
<1>5. /\ inserts \in QueuePending /\ inserts.op = "insert" /\ inserts.recs = {}
      /\ inserts.entity = new
  BY <1>3 DEF QueuePending, Queue!Transactions
<1>6. /\ saves \in QueuePending /\ saves.op = "save" /\ saves.id = a /\ saves.recs = {}
      /\ saves.entity = known
  BY <1>2, <1>4 DEF QueuePending, Queue!Transactions, Queue!Saving
<1> HIDE DEF inserts, saves
<1>7. CASE rows[a].status = "ABSENT"
  <2> QED
    BY <1>1, <1>3, <1>5, <1>7 DEF a, v
<1>8. CASE rows[a].status # "ABSENT"
  <2> QED
    BY <1>1, <1>4, <1>6, <1>8 DEF a, v
<1> QED
  BY <1>7, <1>8

LEMMA OnboardedBegins ==
    ASSUME QueueInv, Queue!HandleClientOnboarded
    PROVE  \E q \in QueuePending :
             /\ onboarded # <<>> /\ unrecorded' = "onboarded"
             /\ pending[Consumer] = Queue!Idle
             /\ pending' = [pending EXCEPT ![Consumer] = q]
             /\ UNCHANGED <<rows, source, scored, onboarded, failed>>
             /\ missed \subseteq missed' /\ missed' \subseteq Applications
             /\ IF rows[Head(onboarded)].status = "PRESENT" /\ ~rows[Head(onboarded)].client
                THEN /\ q.op = "save" /\ q.id = Head(onboarded) /\ q.entity.client
                     /\ q.entity.verdict = rows[Head(onboarded)].verdict
                     /\ q.entity.status = "PRESENT"
                ELSE /\ q = Queue!Idle
                     /\ Head(onboarded) \in missed' \/ rows[Head(onboarded)].client
<1> DEFINE a == Head(onboarded)
           known == [rows[a] EXCEPT !.client = TRUE]
           saves == Queue!Saving(a, known, {})
<1>1. /\ onboarded # <<>> /\ unrecorded' = "onboarded" /\ pending[Consumer] = Queue!Idle
      /\ UNCHANGED <<rows, source, scored, onboarded, failed>>
      /\ missed' = IF rows[a].status = "ABSENT" THEN missed \cup {a} ELSE missed
      /\ IF rows[a].status = "PRESENT" /\ ~rows[a].client
         THEN pending' = [pending EXCEPT ![Consumer] = saves]
         ELSE pending' = pending
  BY DEF Queue!HandleClientOnboarded, Queue!Begin, Queue!deskVars
<1>2. a \in Applications /\ rows[a] \in Queue!Row
  BY <1>1, HeadTypes DEF QueueInv
<1> HIDE DEF a
<1>3. /\ known \in Queue!Row /\ known.verdict = rows[a].verdict /\ known.client
      /\ known.status = rows[a].status
  BY <1>2 DEF Queue!Row
<1>4. missed \subseteq missed' /\ missed' \subseteq Applications
  BY <1>1, <1>2 DEF QueueInv
<1> HIDE DEF known
<1>5. /\ saves \in QueuePending /\ saves.op = "save" /\ saves.id = a /\ saves.entity = known
  BY <1>2, <1>3 DEF QueuePending, Queue!Transactions, Queue!Saving
<1> HIDE DEF saves
<1>6. CASE rows[a].status = "PRESENT" /\ ~rows[a].client
  <2> QED
    BY <1>1, <1>3, <1>4, <1>5, <1>6 DEF a
<1>7. CASE ~(rows[a].status = "PRESENT" /\ ~rows[a].client)
  <2>1. pending' = [pending EXCEPT ![Consumer] = Queue!Idle]
    BY <1>1, <1>7 DEF QueueInv
  <2>2. a \in missed' \/ rows[a].client
    BY <1>1, <1>2, <1>7 DEF Queue!Row
  <2>3. Queue!Idle \in QueuePending
    BY QueueIdlePending
  <2> QED
    BY <1>1, <1>4, <1>7, <2>1, <2>2, <2>3 DEF a
<1> QED
  BY <1>6, <1>7

LEMMA QueueHandleKeeps ==
    ASSUME QueueInv, Queue!HandleApplicationScored \/ Queue!HandleClientOnboarded
    PROVE  QueueInv'
<1>1. Consumer \in Requests
  BY JourneyAssumption
<1>2. CASE Queue!HandleApplicationScored
  BY <1>1, <1>2, ScoredBegins DEF QueueInv, QueuePending
<1>3. CASE Queue!HandleClientOnboarded
  <2>1. PICK q \in QueuePending :
             /\ onboarded # <<>> /\ unrecorded' = "onboarded"
             /\ pending' = [pending EXCEPT ![Consumer] = q] /\ q.op # "insert"
             /\ UNCHANGED <<rows, source, scored, onboarded, failed>>
             /\ missed' \subseteq Applications
    BY <1>3, OnboardedBegins, QueueIdlePending
  <2> QED
    BY <1>1, <2>1 DEF QueueInv, QueuePending
<1> QED
  BY <1>2, <1>3

\* The message in hand is done with, and the consumer has nothing pending.
LEMMA QueueFinishKeeps ==
    ASSUME QueueInv, unrecorded # "none", Queue!Finish, rows' = rows,
           pending' = [pending EXCEPT ![Consumer] = Queue!Idle],
           failed' = failed \/ failed' = failed \cup {Queue!InHand}
    PROVE  QueueInv'
<1>1. /\ scored' = IF unrecorded = "scored" THEN Tail(scored) ELSE scored
      /\ onboarded' = IF unrecorded = "onboarded" THEN Tail(onboarded) ELSE onboarded
      /\ unrecorded' = "none" /\ UNCHANGED <<source, missed>>
  BY DEF Queue!Finish
<1>2. scored' \in Seq(Applications \X Queue!Verdicts) /\ onboarded' \in Seq(Applications)
  BY <1>1, FirstOf DEF QueueInv
<1>3. Queue!InHand \in Applications
  BY HeadTypes DEF QueueInv, Queue!InHand
<1>4. Consumer \in Requests
  BY JourneyAssumption
<1> QED
  BY <1>1, <1>2, <1>3, <1>4, QueueIdlePending DEF QueueInv, QueuePending

\* Recording a message and failing on one both finish it.
LEMMA QueueFinishes ==
    ASSUME QueueInv, Queue!RecordProcessed \/ Queue!ConsumerFails
    PROVE  /\ unrecorded # "none" /\ Queue!Finish /\ rows' = rows
           /\ pending' = [pending EXCEPT ![Consumer] = Queue!Idle]
           /\ failed' = failed \/ failed' = failed \cup {Queue!InHand}
BY DEF QueueInv, Queue!RecordProcessed, Queue!ConsumerFails, Queue!deskVars

LEMMA QueueCrashKeeps ==
    ASSUME QueueInv, Queue!ConsumerCrash
    PROVE  QueueInv'
<1>1. Consumer \in Requests
  BY JourneyAssumption
<1> QED
  BY <1>1, QueueIdlePending DEF QueueInv, QueuePending, Queue!ConsumerCrash

LEMMA QueueOnboardKeeps ==
    ASSUME QueueInv, NEW a \in Applications, Queue!Onboard(a)
    PROVE  QueueInv'
<1>1. /\ source' = [source EXCEPT ![a].client = TRUE] /\ onboarded' = Append(onboarded, a)
      /\ UNCHANGED <<rows, pending, scored, unrecorded, missed, failed>>
  BY DEF Queue!Onboard, Queue!deskVars
<1>2. onboarded' \in Seq(Applications) /\ onboarded' # <<>>
  BY <1>1, AddedTo DEF QueueInv
<1> QED
  BY <1>1, <1>2 DEF QueueInv, QueuePending

LEMMA QueueScoreKeeps ==
    ASSUME QueueInv, NEW a \in Applications, NEW passed \in BOOLEAN, Queue!Score(a, passed)
    PROVE  QueueInv'
<1>1. /\ source[a].verdict \in {0, 1}
      /\ source' = [source EXCEPT ![a].verdict = source[a].verdict + 1, ![a].passed = passed]
      /\ scored' = Append(scored, <<a, source[a].verdict + 1>>)
      /\ UNCHANGED <<rows, pending, onboarded, unrecorded, missed, failed>>
  BY DEF QueueInv, Queue!Score, Queue!deskVars
<1>2. source[a].verdict + 1 \in Queue!Verdicts
  BY <1>1 DEF Queue!Verdicts
<1>3. scored' \in Seq(Applications \X Queue!Verdicts) /\ scored' # <<>>
  BY <1>1, <1>2, AddedTo DEF QueueInv
<1> QED
  BY <1>1, <1>2, <1>3 DEF QueueInv, QueuePending

LEMMA QueueStepKeeps ==
    ASSUME QueueInv, QueueStep
    PROVE  QueueInv'
<1>1. CASE Queue!Other
  BY <1>1, QueueFinishes, QueueFinishKeeps, QueueCrashKeeps, QueueOnboardKeeps,
     QueueScoreKeeps DEF Queue!Other
<1>2. CASE \E r \in Requests : Queue!Step(r)
  BY <1>2, QueueCompareKeeps, QueueCommitKeeps, QueueHandleKeeps, QueueAssignKeeps,
     QueueAbortKeeps DEF Queue!Step
<1> QED
  BY <1>1, <1>2 DEF QueueStep

LEMMA QueueInit == Queue!Init => QueueInv
<1> SUFFICES ASSUME Queue!Init PROVE QueueInv
  OBVIOUS
<1>1. /\ rows = [a \in Applications |-> Queue!AbsentRow]
      /\ pending = [r \in Requests |-> Queue!Idle] /\ Queue!FeedInit
  BY DEF Queue!Init, Queue!DeskInit
<1>2. Queue!AbsentRow \in Queue!Row
  BY DEF Queue!AbsentRow, Queue!Row, Queue!Verdicts
<1> QED
  BY <1>1, <1>2, QueueIdlePending, JourneyAssumption
     DEF QueueInv, Queue!FeedInit, Queue!Verdicts, QueuePending
-----------------------------------------------------------------------------
(* The queue, one request at a time.  A row is behind its application by     *)
(* what is still to be handled, and no more; an assignment that nothing      *)
(* comes between leaves the columns that the events write.                   *)

\* The transaction leaves verdict and client mark of its row as they are.
Bystander(p) ==
    /\ p.op # "insert"
    /\ p.op \in {"save", "write"} => /\ rows[p.id].status = "PRESENT"
                                     /\ Left(p).verdict = rows[p.id].verdict
                                     /\ Left(p).client = rows[p.id].client
                                     /\ Left(p).status = "PRESENT"

\* The consumer's: it does what the message in hand asks for.
Consumes(p) ==
    /\ p.op = "insert" => /\ unrecorded = "scored"
                          /\ p.entity.verdict = Head(scored)[2] /\ ~p.entity.client
                          /\ p.entity.status = "PRESENT"
                          /\ rows[Head(scored)[1]].status = "ABSENT"
    /\ p.op \in {"save", "write"} =>
         /\ rows[p.id].status = "PRESENT" /\ Left(p).status = "PRESENT"
         /\ unrecorded = "scored" => /\ p.id = Head(scored)[1]
                                     /\ Left(p).verdict = Head(scored)[2]
                                     /\ Left(p).client = rows[p.id].client
         /\ unrecorded = "onboarded" => /\ p.id = Head(onboarded)
                                        /\ Left(p).verdict = rows[p.id].verdict
                                        /\ Left(p).client

Announces(a) == \E n \in 1..Len(scored) : scored[n][1] = a
Onboards(a) == \E n \in 1..Len(onboarded) : onboarded[n] = a

\* The last verdict announced is the application's.
TellsVerdict(n) ==
    \/ scored[n][2] = source[scored[n][1]].verdict
    \/ \E m \in (n + 1)..Len(scored) : scored[m][1] = scored[n][1]

MarksOK(a) ==
    /\ rows[a].status = "ABSENT" => ~rows[a].client
    /\ rows[a].client \/ Onboards(a) => source[a].client

Shows(a) ==
    /\ Announces(a) \/ rows[a].verdict = source[a].verdict
    /\ source[a].client => Onboards(a) \/ a \in missed \/ rows[a].client

\* What the consumer saved and has not recorded is in the row.
Saved ==
    /\ unrecorded = "scored" => rows[Head(scored)[1]].verdict = Head(scored)[2]
    /\ unrecorded = "onboarded" => Head(onboarded) \in missed \/ rows[Head(onboarded)].client

FollowsBehind ==
    /\ \A n \in 1..Len(scored) : TellsVerdict(n)
    /\ \A a \in Applications : MarksOK(a)
    /\ \A a \in Applications \ failed : Shows(a)

QueueAlone ==
    /\ FollowsBehind
    /\ pending[Consumer] = Queue!Idle => Saved
    /\ Consumes(pending[Consumer])
    /\ \A r \in Requests \ {Consumer} : Bystander(pending[r])

LEMMA FollowsStays ==
    ASSUME FollowsBehind, rows' = rows,
           UNCHANGED <<source, scored, onboarded, failed>>, missed \subseteq missed'
    PROVE  FollowsBehind'
BY DEF FollowsBehind, TellsVerdict, MarksOK, Shows, Announces, Onboards

\* A request that touches no row.
LEMMA QueueAloneQuiet ==
    ASSUME QueueInv, QueueAlone, NEW r \in Requests, NEW q,
           r # Consumer => Bystander(q),
           r = Consumer => q # Queue!Idle /\ Consumes(q),
           pending' = [pending EXCEPT ![r] = q], rows' = rows, UNCHANGED queue
    PROVE  QueueAlone'
<1>1. UNCHANGED <<source, scored, onboarded, unrecorded, missed, failed>>
  BY DEF queue
<1>2. FollowsBehind' /\ (Saved => Saved')
  BY <1>1, FollowsStays DEF QueueAlone, Saved
<1>3. Consumer \in Requests
  BY JourneyAssumption
<1>4. Consumes(pending'[Consumer])
  BY <1>3 DEF QueueInv, QueueAlone
<1>5. Consumes(pending[Consumer])'
  BY <1>1, <1>4 DEF Consumes, Left
<1>6. ASSUME NEW x \in Requests \ {Consumer} PROVE Bystander(pending[x])'
  <2>1. Bystander(pending'[x])
    BY <1>6 DEF QueueInv, QueueAlone
  <2> QED
    BY <2>1 DEF Bystander, Left
<1>7. pending'[Consumer] = Queue!Idle => Saved'
  BY <1>2, <1>3 DEF QueueInv, QueueAlone
<1> QED
  BY <1>2, <1>5, <1>6, <1>7 DEF QueueAlone

LEMMA QueueCompareAlone ==
    ASSUME QueueInv, QueueAlone, NEW r \in Requests, Queue!Compare(r, {}),
           UNCHANGED Queue!feed
    PROVE  QueueAlone'
<1> DEFINE p == pending[r]
           q == [op |-> "write", id |-> p.id, entity |-> p.entity,
                 changed |-> Queue!Changed(rows[p.id], p.entity, {}), recs |-> p.recs]
<1>1. /\ pending' = [pending EXCEPT ![r] = q] /\ rows' = rows /\ p.op = "save"
      /\ UNCHANGED queue
  BY DEF Queue!Compare, Queue!feed, queue
<1>2. Left(q) = Left(p)
  BY <1>1 DEF Left, Queue!Changed, Changed
<1>3. q.op = "write" /\ q.id = p.id
  OBVIOUS
<1>4. IF r = Consumer THEN Consumes(p) ELSE Bystander(p)
  BY DEF QueueAlone
<1> HIDE DEF p, q
<1>5. r # Consumer => Bystander(q)
  BY <1>1, <1>2, <1>3, <1>4 DEF Bystander
<1>6. r = Consumer => q # Queue!Idle /\ Consumes(q)
  BY <1>1, <1>2, <1>3, <1>4 DEF Consumes, Queue!Idle
<1> QED
  BY <1>1, <1>5, <1>6, QueueAloneQuiet

LEMMA BystanderIdle == Bystander(Queue!Idle) /\ Consumes(Queue!Idle)
BY DEF Bystander, Consumes, Queue!Idle

LEMMA QueueAbortAlone ==
    ASSUME QueueInv, QueueAlone, NEW r \in Requests, r # Consumer, Queue!Abort(r),
           UNCHANGED Queue!feed
    PROVE  QueueAlone'
<1>1. UNCHANGED queue
  BY DEF Queue!feed, queue
<1> QED
  BY <1>1, BystanderIdle, QueueAloneQuiet DEF Queue!Abort

LEMMA QueueAssignAlone ==
    ASSUME QueueInv, QueueAlone, NEW r \in Requests \ {Consumer}, NEW a \in Applications,
           NEW p \in Managers, Queue!Assign(r, a, p)
    PROVE  QueueAlone'
<1> DEFINE entity == [rows[a] EXCEPT !.rm = p]
           q == Queue!Saving(a, entity, {})
<1>1. /\ pending' = [pending EXCEPT ![r] = q] /\ rows' = rows /\ UNCHANGED queue
      /\ rows[a].status = "PRESENT"
  BY DEF Queue!Assign, Queue!Begin, Queue!feed, queue
<1>2. /\ rows[a] \in Queue!Row /\ DOMAIN rows[a] = Queue!Columns
  BY DEF QueueInv, Queue!Row, Queue!Columns
<1>3. /\ entity.status = rows[a].status /\ entity.verdict = rows[a].verdict
      /\ entity.client = rows[a].client
  BY <1>2 DEF Queue!Row
<1> HIDE DEF entity
<1>4. q.op = "save" /\ q.id = a /\ q.entity = entity
  BY DEF Queue!Saving
<1> HIDE DEF q
<1>5. \A c \in Queue!Columns : Left(q)[c] =
        IF entity[c] = UNDEFINED THEN rows[a][c] ELSE entity[c]
  BY <1>2, <1>4, SaveLeaves DEF Left
<1>6. /\ Left(q)["status"] = rows[a].status /\ Left(q)["verdict"] = rows[a].verdict
      /\ Left(q)["client"] = rows[a].client
  BY <1>3, <1>5 DEF Queue!Columns
<1>7. Bystander(q)
  BY <1>1, <1>4, <1>6 DEF Bystander
<1> QED
  BY <1>1, <1>7, QueueAloneQuiet

\* The consumer's step on a message.
LEMMA QueueHandleAlone ==
    ASSUME QueueInv, QueueAlone, NEW q,
           rows' = rows, pending' = [pending EXCEPT ![Consumer] = q],
           UNCHANGED <<source, scored, onboarded, failed>>, missed \subseteq missed',
           q = Queue!Idle => Saved',
           Consumes(q)'
    PROVE  QueueAlone'
<1>1. FollowsBehind'
  BY FollowsStays DEF QueueAlone
<1>2. Consumer \in Requests
  BY JourneyAssumption
<1>3. pending'[Consumer] = q
  BY <1>2 DEF QueueInv
<1>4. Consumes(pending[Consumer])'
  BY <1>3 DEF Consumes, Left
<1>5. ASSUME NEW x \in Requests \ {Consumer} PROVE Bystander(pending[x])'
  <2>1. Bystander(pending'[x])
    BY <1>5 DEF QueueInv, QueueAlone
  <2> QED
    BY <2>1 DEF Bystander, Left
<1> QED
  BY <1>1, <1>3, <1>4, <1>5 DEF QueueAlone

LEMMA QueueScoredAlone ==
    ASSUME QueueInv, QueueAlone, Queue!HandleApplicationScored
    PROVE  QueueAlone'
<1> DEFINE a == Head(scored)[1]
           v == Head(scored)[2]
<1>1. PICK q \in QueuePending :
        /\ scored # <<>> /\ unrecorded' = "scored"
        /\ pending' = [pending EXCEPT ![Consumer] = q]
        /\ UNCHANGED <<rows, source, scored, onboarded, missed, failed>>
        /\ q.entity.verdict = v /\ q.entity.status = "PRESENT"
        /\ IF rows[a].status = "ABSENT"
           THEN q.op = "insert" /\ ~q.entity.client
           ELSE q.op = "save" /\ q.id = a /\ q.entity.client = rows[a].client
  BY ScoredBegins
<1>2. a \in Applications /\ v \in Queue!Verdicts
  BY <1>1, HeadTypes
<1>3. rows[a] \in Queue!Row /\ DOMAIN rows[a] = Queue!Columns
  BY <1>2 DEF QueueInv, Queue!Row, Queue!Columns
<1>4. rows' = rows /\ scored' = scored
  BY <1>1
<1> HIDE DEF a, v
<1>5. q # Queue!Idle
  BY <1>1 DEF Queue!Idle
<1>6. CASE rows[a].status = "ABSENT"
  <2>1. Consumes(q)'
    BY <1>1, <1>4, <1>6 DEF Consumes, a, v
  <2> QED
    BY <1>1, <1>5, <2>1, QueueHandleAlone
<1>7. CASE rows[a].status # "ABSENT"
  <2>1. \A c \in Queue!Columns : Left(q)[c] =
          IF q.entity[c] = UNDEFINED THEN rows[a][c] ELSE q.entity[c]
    BY <1>1, <1>3, <1>7, SaveLeaves DEF Left
  <2>2. v # UNDEFINED
    BY <1>2, ColumnsAssumption DEF Queue!Verdicts
  <2>3. rows[a].status = "PRESENT"
    BY <1>3, <1>7 DEF Queue!Row
  <2>4. Left(q)["verdict"] = v /\ Left(q)["client"] = rows[a].client
    BY <1>1, <1>7, <2>1, <2>2 DEF Queue!Columns
  <2>5. Left(q)["status"] = "PRESENT"
    BY <1>1, <2>1, <2>3 DEF Queue!Columns
  <2>6. Left(q)' = Left(q)
    BY <1>4 DEF Left
  <2>7. Consumes(q)'
    BY <1>1, <1>4, <1>7, <2>3, <2>4, <2>5, <2>6 DEF Consumes, a, v
  <2> QED
    BY <1>1, <1>5, <2>7, QueueHandleAlone
<1> QED
  BY <1>6, <1>7

LEMMA QueueOnboardedAlone ==
    ASSUME QueueInv, QueueAlone, Queue!HandleClientOnboarded
    PROVE  QueueAlone'
<1> DEFINE a == Head(onboarded)
<1>1. PICK q \in QueuePending :
        /\ onboarded # <<>> /\ unrecorded' = "onboarded"
        /\ pending' = [pending EXCEPT ![Consumer] = q]
        /\ UNCHANGED <<rows, source, scored, onboarded, failed>>
        /\ missed \subseteq missed'
        /\ IF rows[a].status = "PRESENT" /\ ~rows[a].client
           THEN /\ q.op = "save" /\ q.id = a /\ q.entity.client
                /\ q.entity.verdict = rows[a].verdict /\ q.entity.status = "PRESENT"
           ELSE q = Queue!Idle /\ (a \in missed' \/ rows[a].client)
  BY OnboardedBegins
<1>2. a \in Applications
  BY <1>1, HeadTypes
<1>3. rows[a] \in Queue!Row /\ DOMAIN rows[a] = Queue!Columns
  BY <1>2 DEF QueueInv, Queue!Row, Queue!Columns
<1>4. rows' = rows /\ onboarded' = onboarded
  BY <1>1
<1> HIDE DEF a
<1>5. CASE q.op = "save"
  <2>1. q # Queue!Idle /\ rows[a].status = "PRESENT"
    BY <1>1, <1>5 DEF Queue!Idle
  <2>2. /\ q.id = a /\ q.entity.client
        /\ q.entity.verdict = rows[a].verdict /\ q.entity.status = "PRESENT"
    BY <1>1, <2>1
  <2>3. \A c \in Queue!Columns : Left(q)[c] =
          IF q.entity[c] = UNDEFINED THEN rows[a][c] ELSE q.entity[c]
    BY <1>3, <1>5, <2>2, SaveLeaves DEF Left
  <2>4. Left(q)["verdict"] = rows[a].verdict /\ Left(q)["status"] = "PRESENT"
    BY <2>1, <2>2, <2>3 DEF Queue!Columns
  <2>5. q.entity \in Queue!Row
    BY <1>5 DEF QueuePending, Queue!Transactions, Queue!Idle
  <2>6. Left(q)["client"] = q.entity["client"]
    <3>1. q.entity["client"] # UNDEFINED
      BY <2>5, ColumnsAssumption DEF Queue!Row
    <3> QED
      BY <2>3, <3>1 DEF Queue!Columns
  <2>7. Left(q)' = Left(q)
    BY <1>4 DEF Left
  <2>8. Consumes(q)'
    BY <1>1, <1>4, <1>5, <2>1, <2>2, <2>4, <2>6, <2>7 DEF Consumes, a
  <2> QED
    BY <1>1, <2>1, <2>8, QueueHandleAlone
<1>6. CASE q.op # "save"
  <2>1. q = Queue!Idle /\ (a \in missed' \/ rows[a].client)
    BY <1>1, <1>6
  <2>2. Saved'
    BY <1>1, <1>4, <2>1 DEF Saved, a
  <2>3. Consumes(q)'
    BY <2>1 DEF Consumes, Queue!Idle
  <2> QED
    BY <1>1, <2>2, <2>3, QueueHandleAlone
<1> QED
  BY <1>5, <1>6

\* A commit: no other row changes, and its own as its request is to change it.
LEMMA QueueCommitAlone ==
    ASSUME QueueInv, QueueAlone, NEW r \in Requests, Queue!Commit(r),
           \A q \in Requests \ {r} : pending[q] = Queue!Idle
    PROVE  QueueAlone'
<1> DEFINE p == pending[r]
           row == Left(p)
<1>1. PICK a \in Applications :
        /\ row \in Queue!Row /\ rows' = [rows EXCEPT ![a] = row]
        /\ \/ p.op = "insert" /\ r = Consumer /\ a = Head(scored)[1]
           \/ p.op = "write" /\ a = p.id
  BY QueueCommitFinds
<1>2. /\ pending' = [pending EXCEPT ![r] = Queue!Idle]
      /\ UNCHANGED <<source, scored, onboarded, unrecorded, missed, failed>>
  BY DEF Queue!Commit, Queue!feed
<1>3. Consumer \in Requests /\ \A x \in Requests : pending'[x] = Queue!Idle
  BY <1>2, JourneyAssumption DEF QueueInv
<1>4. IF r = Consumer THEN Consumes(p) ELSE Bystander(p) /\ Saved
  BY <1>3 DEF QueueAlone
<1>5. r = Consumer => p # Queue!Idle /\ unrecorded # "none"
  BY <1>1 DEF QueueInv, Queue!Idle
<1> HIDE DEF p
<1>6. row = p.entity \/ p.op = "write"
  BY <1>1 DEF Left
<1> HIDE DEF row
<1>7. /\ rows'[a] = row /\ \A x \in Applications \ {a} : rows'[x] = rows[x]
      /\ MarksOK(a) /\ \A x \in Applications \ failed : Shows(x)
  BY <1>1 DEF QueueInv, QueueAlone, FollowsBehind
<1>8. /\ row.status = "PRESENT"
      /\ row.client => rows[a].client \/ Onboards(a)
      /\ rows[a].client => row.client
      /\ Announces(a) \/ row.verdict = rows[a].verdict
      /\ Saved'
  <2>1. CASE r # Consumer
    <3>1. /\ row.verdict = rows[a].verdict /\ row.client = rows[a].client
          /\ row.status = "PRESENT"
      BY <1>1, <1>4, <2>1 DEF Bystander, row
    <3>2. \A x \in Applications :
            rows'[x].verdict = rows[x].verdict /\ rows'[x].client = rows[x].client
      BY <1>7, <3>1
    <3>3. Saved'
      BY <1>2, <1>4, <2>1, <3>2, HeadTypes DEF Saved
    <3> QED
      BY <3>1, <3>3
  <2>2. CASE r = Consumer /\ unrecorded = "scored"
    <3>1. scored # <<>> /\ Len(scored) \in Nat /\ Len(scored) > 0 /\ Head(scored) = scored[1]
      BY <2>2, FirstOf DEF QueueInv
    <3>2. a = Head(scored)[1] /\ row.verdict = Head(scored)[2] /\ row.status = "PRESENT"
      BY <1>1, <1>4, <1>6, <2>2 DEF Consumes, row, Left
    <3>3. Announces(a)
      BY <3>1, <3>2 DEF Announces
    <3>4. row.client <=> rows[a].client
      <4>1. CASE p.op = "insert"
        BY <1>1, <1>4, <1>7, <2>2, <4>1 DEF Consumes, MarksOK, row, Left
      <4>2. CASE p.op # "insert"
        BY <1>1, <1>4, <2>2, <4>2 DEF Consumes, row
      <4> QED
        BY <4>1, <4>2
    <3>5. Saved'
      BY <1>2, <1>7, <2>2, <3>2 DEF Saved
    <3> QED
      BY <3>2, <3>3, <3>4, <3>5
  <2>3. CASE r = Consumer /\ unrecorded = "onboarded"
    <3>1. /\ onboarded # <<>> /\ Len(onboarded) \in Nat /\ Len(onboarded) > 0
          /\ Head(onboarded) = onboarded[1]
      BY <2>3, FirstOf DEF QueueInv
    <3>2. p.op = "write"
      BY <1>1, <1>4, <2>3 DEF Consumes
    <3>3. /\ a = Head(onboarded) /\ row.verdict = rows[a].verdict /\ row.client
          /\ row.status = "PRESENT"
      BY <1>1, <1>4, <2>3, <3>2 DEF Consumes, row
    <3>4. Onboards(a)
      BY <3>1, <3>3 DEF Onboards
    <3>5. Saved'
      BY <1>2, <1>7, <2>3, <3>3 DEF Saved
    <3> QED
      BY <3>3, <3>4, <3>5
  <2> QED
    BY <1>5, <2>1, <2>2, <2>3 DEF QueueInv
<1>9. /\ \A x \in Applications : Announces(x)' <=> Announces(x)
      /\ \A x \in Applications : Onboards(x)' <=> Onboards(x)
  BY <1>2 DEF Announces, Onboards
<1>10. ASSUME NEW x \in Applications PROVE MarksOK(x)'
  <2>1. CASE x = a
    BY <1>2, <1>7, <1>8, <1>9, <2>1 DEF MarksOK
  <2>2. CASE x # a
    <3>1. MarksOK(x)
      BY DEF QueueAlone, FollowsBehind
    <3> QED
      BY <1>2, <1>7, <1>9, <2>2, <3>1 DEF MarksOK
  <2> QED
    BY <2>1, <2>2
<1>11. ASSUME NEW x \in Applications \ failed PROVE Shows(x)'
  BY <1>2, <1>7, <1>8, <1>9 DEF Shows
<1>12. FollowsBehind'
  BY <1>2, <1>10, <1>11 DEF QueueAlone, FollowsBehind, TellsVerdict
<1> QED
  BY <1>3, <1>8, <1>12 DEF QueueAlone, Bystander, Consumes, Queue!Idle
\* What was handled is in the row, or its application is among the failed, and
\* what follows it in its topic is as before.
LEMMA QueueFinishAlone ==
    ASSUME QueueInv, QueueAlone, Queue!RecordProcessed \/ Queue!ConsumerFails
    PROVE  QueueAlone'
<1>1. /\ unrecorded # "none" /\ rows' = rows
      /\ pending' = [pending EXCEPT ![Consumer] = Queue!Idle]
      /\ scored' = IF unrecorded = "scored" THEN Tail(scored) ELSE scored
      /\ onboarded' = IF unrecorded = "onboarded" THEN Tail(onboarded) ELSE onboarded
      /\ unrecorded' = "none" /\ UNCHANGED <<source, missed>>
  BY QueueFinishes DEF Queue!Finish
<1>2. \/ failed' = failed /\ Saved
      \/ failed' = failed \cup {Queue!InHand}
  BY DEF QueueAlone, Queue!RecordProcessed, Queue!ConsumerFails
<1>3. Consumer \in Requests
  BY JourneyAssumption
<1>4. FollowsBehind
  BY DEF QueueAlone
<1>5. /\ pending'[Consumer] = Queue!Idle
      /\ \A r \in Requests \ {Consumer} : pending'[r] = pending[r]
  BY <1>1, <1>3 DEF QueueInv
<1>6. ASSUME NEW r \in Requests \ {Consumer} PROVE Bystander(pending[r])'
  <2>1. Bystander(pending'[r])
    BY <1>5, <1>6 DEF QueueAlone
  <2> QED
    BY <1>1, <2>1 DEF Bystander, Left
<1>7. FollowsBehind'
  <2>1. CASE unrecorded = "scored"
    <3>1. /\ Len(scored) \in Nat /\ Len(scored) > 0 /\ Head(scored) = scored[1]
          /\ scored' = Tail(scored) /\ Len(scored') = Len(scored) - 1
          /\ \A n \in 1..Len(scored') : scored'[n] = scored[n + 1]
          /\ onboarded' = onboarded
      BY <1>1, <2>1, FirstOf DEF QueueInv
    <3>2. ASSUME NEW n \in 1..Len(scored') PROVE TellsVerdict(n)'
      <4>1. n + 1 \in 1..Len(scored) /\ TellsVerdict(n + 1) /\ scored'[n] = scored[n + 1]
        BY <1>4, <3>1 DEF FollowsBehind
      <4>2. CASE scored[n + 1][2] = source[scored[n + 1][1]].verdict
        BY <1>1, <4>1, <4>2 DEF TellsVerdict
      <4>3. ASSUME NEW m \in (n + 2)..Len(scored), scored[m][1] = scored[n + 1][1]
            PROVE  TellsVerdict(n)'
        <5>1. m - 1 \in (n + 1)..Len(scored') /\ m - 1 \in 1..Len(scored') /\ (m - 1) + 1 = m
          BY <3>1
        <5>2. scored'[m - 1] = scored[m]
          BY <3>1, <5>1
        <5> QED
          BY <4>1, <4>3, <5>1, <5>2 DEF TellsVerdict
      <4>4. (n + 1) + 1 = n + 2
        OBVIOUS
      <4> QED
        BY <4>1, <4>2, <4>3, <4>4 DEF TellsVerdict
    <3>3. ASSUME NEW a \in Applications PROVE MarksOK(a)'
      BY <1>1, <1>4, <3>1 DEF FollowsBehind, MarksOK, Onboards
    <3>4. ASSUME NEW a \in Applications \ failed' PROVE Shows(a)'
      <4>1. Shows(a)
        BY <1>2, <1>4 DEF FollowsBehind
      <4>2. CASE rows[a].verdict = source[a].verdict
        BY <1>1, <3>1, <4>1, <4>2 DEF Shows, Onboards
      <4>3. ASSUME NEW n \in 1..Len(scored), scored[n][1] = a PROVE Shows(a)'
        <5>1. CASE n # 1
          <6>1. n - 1 \in 1..Len(scored') /\ (n - 1) + 1 = n
            BY <3>1, <5>1
          <6>2. scored'[n - 1] = scored[n]
            BY <3>1, <6>1
          <6>3. Announces(a)'
            BY <4>3, <6>1, <6>2 DEF Announces
          <6> QED
            BY <1>1, <3>1, <4>1, <6>3 DEF Shows, Onboards
        <5>2. CASE n = 1
          <6>1. Queue!InHand = a
            BY <2>1, <3>1, <4>3, <5>2 DEF Queue!InHand
          <6>2. rows[a].verdict = scored[1][2]
            BY <1>2, <2>1, <3>1, <3>4, <4>3, <5>2, <6>1 DEF Saved
          <6>3. TellsVerdict(1)
            BY <1>4, <3>1 DEF FollowsBehind
          <6>4. CASE scored[1][2] = source[a].verdict
            BY <4>2, <6>2, <6>4
          <6>5. ASSUME NEW m \in 2..Len(scored), scored[m][1] = a PROVE Shows(a)'
            <7>1. m - 1 \in 1..Len(scored') /\ (m - 1) + 1 = m
              BY <3>1
            <7>2. scored'[m - 1] = scored[m]
              BY <3>1, <7>1
            <7>3. Announces(a)'
              BY <6>5, <7>1, <7>2 DEF Announces
            <7> QED
              BY <1>1, <3>1, <4>1, <7>3 DEF Shows, Onboards
          <6> QED
            BY <4>3, <5>2, <6>3, <6>4, <6>5 DEF TellsVerdict
        <5> QED
          BY <5>1, <5>2
      <4> QED
        BY <4>1, <4>2, <4>3 DEF Shows, Announces
    <3> QED
      BY <3>2, <3>3, <3>4 DEF FollowsBehind
  <2>2. CASE unrecorded = "onboarded"
    <3>1. /\ Len(onboarded) \in Nat /\ Len(onboarded) > 0 /\ Head(onboarded) = onboarded[1]
          /\ onboarded' = Tail(onboarded) /\ Len(onboarded') = Len(onboarded) - 1
          /\ \A n \in 1..Len(onboarded') : onboarded'[n] = onboarded[n + 1]
          /\ scored' = scored
      BY <1>1, <2>2, FirstOf DEF QueueInv
    <3>2. ASSUME NEW n \in 1..Len(scored') PROVE TellsVerdict(n)'
      BY <1>1, <1>4, <3>1 DEF FollowsBehind, TellsVerdict
    <3>3. \A a \in Applications : Onboards(a)' => Onboards(a)
      <4>1. ASSUME NEW a, NEW n \in 1..Len(onboarded'), onboarded'[n] = a PROVE Onboards(a)
        <5>1. n + 1 \in 1..Len(onboarded) /\ onboarded[n + 1] = a
          BY <3>1, <4>1
        <5> QED
          BY <5>1 DEF Onboards
      <4> QED
        BY <4>1 DEF Onboards
    <3>4. ASSUME NEW a \in Applications PROVE MarksOK(a)'
      BY <1>1, <1>4, <3>3 DEF FollowsBehind, MarksOK
    <3>5. ASSUME NEW a \in Applications \ failed' PROVE Shows(a)'
      <4>1. Shows(a) /\ (Announces(a)' <=> Announces(a))
        BY <1>2, <1>4, <3>1 DEF FollowsBehind, Announces
      <4>2. CASE ~Onboards(a) \/ a \in missed \/ rows[a].client
        BY <1>1, <4>1, <4>2 DEF Shows
      <4>3. ASSUME NEW n \in 1..Len(onboarded), onboarded[n] = a PROVE Shows(a)'
        <5>1. CASE n # 1
          <6>1. n - 1 \in 1..Len(onboarded') /\ (n - 1) + 1 = n
            BY <3>1, <5>1
          <6>2. onboarded'[n - 1] = a
            BY <3>1, <4>3, <6>1
          <6>3. Onboards(a)'
            BY <6>1, <6>2 DEF Onboards
          <6> QED
            BY <1>1, <4>1, <6>3 DEF Shows
        <5>2. CASE n = 1
          <6>1. Queue!InHand = a
            BY <2>2, <3>1, <4>3, <5>2 DEF Queue!InHand
          <6>2. a \in missed \/ rows[a].client
            BY <1>2, <2>2, <3>1, <3>5, <4>3, <5>2, <6>1 DEF Saved
          <6> QED
            BY <4>2, <6>2
        <5> QED
          BY <5>1, <5>2
      <4> QED
        BY <4>2, <4>3 DEF Onboards
    <3> QED
      BY <3>2, <3>4, <3>5 DEF FollowsBehind
  <2> QED
    BY <1>1, <2>1, <2>2 DEF QueueInv
<1>8. Saved' /\ Consumes(pending[Consumer])'
  BY <1>1, <1>5 DEF Saved, Consumes, Queue!Idle
<1> QED
  BY <1>6, <1>7, <1>8 DEF QueueAlone

LEMMA QueueCrashAlone ==
    ASSUME QueueInv, QueueAlone, Queue!ConsumerCrash
    PROVE  QueueAlone'
<1>1. /\ unrecorded' = "none" /\ pending' = [pending EXCEPT ![Consumer] = Queue!Idle]
      /\ UNCHANGED <<rows, source, scored, onboarded, missed, failed>>
  BY DEF Queue!ConsumerCrash
<1>2. Saved' /\ Consumes(Queue!Idle)'
  BY <1>1 DEF Saved, Consumes, Queue!Idle
<1> QED
  BY <1>1, <1>2, QueueHandleAlone

\* What apps/risk-operation adds to a topic is behind what is in hand.
LEMMA QueueAddAlone ==
    ASSUME QueueInv, QueueAlone, UNCHANGED <<rows, pending, unrecorded, missed>>,
           FollowsBehind',
           unrecorded = "scored" => Head(scored') = Head(scored),
           unrecorded = "onboarded" => Head(onboarded') = Head(onboarded)
    PROVE  QueueAlone'
<1>1. Saved => Saved'
  BY DEF Saved
<1>2. Consumes(pending[Consumer])'
  <2>1. Consumes(pending[Consumer])
    BY DEF QueueAlone
  <2> QED
    BY <2>1 DEF Consumes, Left
<1>3. \A r \in Requests \ {Consumer} : Bystander(pending[r])'
  BY DEF QueueAlone, Bystander, Left
<1> QED
  BY <1>1, <1>2, <1>3 DEF QueueAlone

LEMMA QueueScoreAlone ==
    ASSUME QueueInv, QueueAlone, NEW a \in Applications, NEW passed \in BOOLEAN,
           Queue!Score(a, passed)
    PROVE  QueueAlone'
<1> DEFINE v == source[a].verdict + 1
           message == <<a, v>>
<1>1. /\ source[a].verdict \in {0, 1}
      /\ source' = [source EXCEPT ![a].verdict = v, ![a].passed = passed]
      /\ scored' = Append(scored, message)
      /\ UNCHANGED <<rows, pending, onboarded, unrecorded, missed, failed>>
  BY DEF QueueInv, Queue!Score, Queue!deskVars
<1>2. message \in Applications \X Queue!Verdicts
  BY <1>1 DEF Queue!Verdicts
<1>3. message[1] = a /\ message[2] = v
  OBVIOUS
<1>4. /\ source'[a].verdict = v /\ source'[a].client = source[a].client
      /\ \A x \in Applications \ {a} : source'[x] = source[x]
  BY <1>1 DEF QueueInv
<1> HIDE DEF message, v
<1>5. /\ Len(scored) \in Nat /\ Len(scored') = Len(scored) + 1
      /\ scored'[Len(scored) + 1] = message
      /\ \A n \in 1..Len(scored) : scored'[n] = scored[n]
      /\ scored # <<>> => Head(scored') = Head(scored)
  BY <1>1, <1>2, AddedTo DEF QueueInv
<1>6. FollowsBehind
  BY DEF QueueAlone
<1>7. ASSUME NEW n \in 1..Len(scored') PROVE TellsVerdict(n)'
  <2>1. CASE n = Len(scored) + 1
    BY <1>3, <1>4, <1>5, <2>1 DEF TellsVerdict
  <2>2. CASE n \in 1..Len(scored) /\ scored[n][1] = a
    <3>1. Len(scored) + 1 \in (n + 1)..Len(scored')
      BY <1>5, <2>2
    <3> QED
      BY <1>3, <1>5, <2>2, <3>1 DEF TellsVerdict
  <2>3. CASE n \in 1..Len(scored) /\ scored[n][1] # a
    <3>1. TellsVerdict(n) /\ scored'[n] = scored[n] /\ scored[n][1] \in Applications
      BY <1>5, <1>6, <2>3 DEF FollowsBehind, QueueInv
    <3>2. CASE scored[n][2] = source[scored[n][1]].verdict
      BY <1>4, <2>3, <3>1, <3>2 DEF TellsVerdict
    <3>3. ASSUME NEW m \in (n + 1)..Len(scored), scored[m][1] = scored[n][1]
          PROVE  TellsVerdict(n)'
      <4>1. m \in 1..Len(scored) /\ m \in (n + 1)..Len(scored')
        BY <1>5
      <4> QED
        BY <1>5, <3>1, <3>3, <4>1 DEF TellsVerdict
    <3> QED
      BY <3>1, <3>2, <3>3 DEF TellsVerdict
  <2> QED
    BY <1>5, <2>1, <2>2, <2>3
<1>8. ASSUME NEW x \in Applications PROVE MarksOK(x)'
  <2>1. source'[x].client = source[x].client
    BY <1>4
  <2> QED
    BY <1>1, <1>6, <2>1 DEF FollowsBehind, MarksOK, Onboards
<1>9. ASSUME NEW x \in Applications \ failed' PROVE Shows(x)'
  <2>1. Shows(x) /\ source'[x].client = source[x].client
    BY <1>1, <1>4, <1>6 DEF FollowsBehind
  <2>2. Announces(x) => Announces(x)'
    <3>1. ASSUME NEW n \in 1..Len(scored), scored[n][1] = x PROVE Announces(x)'
      <4>1. n \in 1..Len(scored') /\ scored'[n] = scored[n]
        BY <1>5
      <4> QED
        BY <3>1, <4>1 DEF Announces
    <3> QED
      BY <3>1 DEF Announces
  <2>3. x = a => Announces(x)'
    <3>1. Len(scored) + 1 \in 1..Len(scored')
      BY <1>5
    <3> QED
      BY <1>3, <1>5, <3>1 DEF Announces
  <2>4. x # a => source'[x].verdict = source[x].verdict
    BY <1>4
  <2> QED
    BY <1>1, <2>1, <2>2, <2>3, <2>4 DEF Shows, Onboards
<1>10. FollowsBehind'
  BY <1>7, <1>8, <1>9 DEF FollowsBehind
<1> QED
  BY <1>1, <1>5, <1>10, QueueAddAlone DEF QueueInv

LEMMA QueueOnboardAlone ==
    ASSUME QueueInv, QueueAlone, NEW a \in Applications, Queue!Onboard(a)
    PROVE  QueueAlone'
<1>1. /\ source' = [source EXCEPT ![a].client = TRUE] /\ onboarded' = Append(onboarded, a)
      /\ UNCHANGED <<rows, pending, scored, unrecorded, missed, failed>>
  BY DEF Queue!Onboard, Queue!deskVars
<1>2. /\ Len(onboarded) \in Nat /\ Len(onboarded') = Len(onboarded) + 1
      /\ onboarded'[Len(onboarded) + 1] = a
      /\ \A n \in 1..Len(onboarded) : onboarded'[n] = onboarded[n]
      /\ onboarded # <<>> => Head(onboarded') = Head(onboarded)
  BY <1>1, AddedTo DEF QueueInv
<1>3. /\ source'[a].client /\ \A x \in Applications : source'[x].verdict = source[x].verdict
      /\ \A x \in Applications \ {a} : source'[x] = source[x]
  BY <1>1 DEF QueueInv
<1>4. FollowsBehind
  BY DEF QueueAlone
<1>5. \A x \in Applications : Onboards(x)' <=> Onboards(x) \/ x = a
  <2>1. Len(onboarded) + 1 \in 1..Len(onboarded')
    BY <1>2
  <2>2. \A n \in 1..Len(onboarded') : n \in 1..Len(onboarded) \/ n = Len(onboarded) + 1
    BY <1>2
  <2>3. \A n \in 1..Len(onboarded) : n \in 1..Len(onboarded')
    BY <1>2
  <2> QED
    BY <1>2, <2>1, <2>2, <2>3 DEF Onboards
<1>6. ASSUME NEW n \in 1..Len(scored') PROVE TellsVerdict(n)'
  <2>1. TellsVerdict(n) /\ scored[n][1] \in Applications
    BY <1>1, <1>4 DEF FollowsBehind, QueueInv
  <2> QED
    BY <1>1, <1>3, <2>1 DEF TellsVerdict
<1>7. ASSUME NEW x \in Applications PROVE MarksOK(x)'
  BY <1>1, <1>3, <1>4, <1>5 DEF FollowsBehind, MarksOK
<1>8. ASSUME NEW x \in Applications \ failed' PROVE Shows(x)'
  BY <1>1, <1>3, <1>4, <1>5 DEF FollowsBehind, Shows, Announces
<1>9. FollowsBehind'
  BY <1>6, <1>7, <1>8 DEF FollowsBehind
<1> QED
  BY <1>1, <1>2, <1>9, QueueAddAlone DEF QueueInv

LEMMA QueueOtherAlone ==
    ASSUME QueueInv, QueueAlone, Queue!Other
    PROVE  QueueAlone'
BY QueueFinishAlone, QueueCrashAlone, QueueOnboardAlone, QueueScoreAlone DEF Queue!Other

LEMMA QueueStepAlone ==
    ASSUME QueueInv, QueueAlone, NEW r \in Requests, Queue!Step(r),
           \A q \in Requests \ {r} : pending[q] = Queue!Idle
    PROVE  QueueAlone'
BY QueueCompareAlone, QueueCommitAlone, QueueScoredAlone, QueueOnboardedAlone,
   QueueAssignAlone, QueueAbortAlone DEF Queue!Step

LEMMA QueueAloneInit == Queue!Init => QueueAlone
<1> SUFFICES ASSUME Queue!Init PROVE QueueAlone
  OBVIOUS
<1>1. /\ rows = [a \in Applications |-> Queue!AbsentRow]
      /\ pending = [r \in Requests |-> Queue!Idle] /\ Queue!FeedInit
  BY DEF Queue!Init, Queue!DeskInit
<1>2. Consumer \in Requests
  BY JourneyAssumption
<1>3. FollowsBehind
  BY <1>1 DEF FollowsBehind, TellsVerdict, MarksOK, Shows, Onboards, Queue!FeedInit,
              Queue!AbsentRow
<1>4. Saved
  BY <1>1 DEF Saved, Queue!FeedInit
<1> QED
  BY <1>1, <1>2, <1>3, <1>4, BystanderIdle DEF QueueAlone

\* With both topics empty there is nothing a row could be behind by.
LEMMA QueueCatchesUp == QueueInv /\ QueueAlone => Queue!ProjectionFollows
<1> SUFFICES ASSUME QueueInv, QueueAlone, scored = <<>>, onboarded = <<>>,
                    NEW a \in Applications \ failed
             PROVE  Queue!Caught(a)
  BY DEF Queue!ProjectionFollows
<1>1. ~Announces(a) /\ ~Onboards(a)
  BY DEF Announces, Onboards
<1> QED
  BY <1>1 DEF QueueAlone, FollowsBehind, Shows, MarksOK, Queue!Caught
-----------------------------------------------------------------------------
(* What the graph is told of invoices, and the index that refuses a number   *)
(* filed twice with an issuer; both hold however requests overlap.           *)

Event == [from : Trades!Status, to : Trades!Status]

\* A node does not show more than was told, and what was told is still to be
\* handled or not behind what its node has shown, if none was forgotten.
Recounted(i) ==
    /\ node[i] <= farthest[i] /\ farthest[i] <= Len(history[i])
    /\ rows[i].status # "ABSENT" => Len(history[i]) > 0
    /\ i \notin forgotten => \A n \in 1..Len(history[i]) : <<i, n>> \in untold \/ n <= farthest[i]

Ledger ==
    /\ history \in [Invoices -> Seq(Event)]
    /\ node \in [Invoices -> Nat] /\ farthest \in [Invoices -> Nat]
    /\ \A i \in Invoices : Recounted(i)
    /\ \A e \in untold : \E i \in Invoices : \E n \in 1..Len(history[i]) : e = <<i, n>>
    /\ forgotten \subseteq Invoices

NumbersDiffer ==
    \A i, j \in Trades!Live : i # j =>
      rows[i].issuer # rows[j].issuer \/ rows[i].number # rows[j].number

\* A change of status keeps the number and tells of statuses.
InvoiceTx(p) ==
    p.op \in {"save", "write"} =>
      p.entity.number = rows[p.id].number /\ p.recs \subseteq Trades!Status

GraphInv ==
    /\ commits \in 0..TradeCommits /\ Ledger /\ NumbersDiffer
    /\ \A r \in Clerks : InvoiceTx(pending[r])

told == <<history, untold, node, farthest, forgotten>>

LEMMA LedgerStays ==
    ASSUME Ledger, rows' = rows, UNCHANGED told
    PROVE  Ledger'
BY DEF Ledger, Recounted, told

\* An event that is added is still to be handled.
LEMMA TellKeeps ==
    ASSUME Ledger, NEW i \in Invoices, NEW from \in Trades!Status, NEW to \in Trades!Status,
           Trades!Tell(i, from, to), \A x \in Invoices \ {i} : rows'[x] = rows[x]
    PROVE  Ledger'
<1> DEFINE event == [from |-> from, to |-> to]
<1>1. /\ history' = [history EXCEPT ![i] = Append(history[i], event)]
      /\ untold' = untold \cup {<<i, Len(history[i]) + 1>>}
      /\ UNCHANGED <<node, farthest, forgotten>>
  BY DEF Trades!Tell, Trades!nodes
<1>2. event \in Event /\ history[i] \in Seq(Event)
  BY DEF Event, Ledger
<1> HIDE DEF event
<1>3. /\ Len(history[i]) \in Nat /\ Append(history[i], event) \in Seq(Event)
      /\ Len(Append(history[i], event)) = Len(history[i]) + 1
  BY <1>2, AddedTo
<1>4. /\ history' \in [Invoices -> Seq(Event)]
      /\ Len(history'[i]) = Len(history[i]) + 1
      /\ \A x \in Invoices \ {i} : history'[x] = history[x]
  BY <1>1, <1>3 DEF Ledger
<1>5. ASSUME NEW x \in Invoices, x # i PROVE Recounted(x)'
  <2>1. Recounted(x) /\ rows'[x] = rows[x] /\ history'[x] = history[x]
    BY <1>4, <1>5 DEF Ledger
  <2> QED
    BY <1>1, <2>1 DEF Recounted
<1>6. Recounted(i)'
  <2>1. /\ Recounted(i) /\ node[i] \in Nat /\ farthest[i] \in Nat
    BY DEF Ledger
  <2>2. \A n \in 1..Len(history'[i]) : n \in 1..Len(history[i]) \/ n = Len(history[i]) + 1
    BY <1>3, <1>4
  <2>3. node'[i] <= farthest'[i] /\ farthest'[i] <= Len(history'[i]) /\ Len(history'[i]) > 0
    BY <1>1, <1>3, <1>4, <2>1 DEF Recounted
  <2>4. ASSUME i \notin forgotten', NEW n \in 1..Len(history'[i])
        PROVE  <<i, n>> \in untold' \/ n <= farthest'[i]
    BY <1>1, <2>1, <2>2, <2>4 DEF Recounted
  <2> QED
    BY <2>3, <2>4 DEF Recounted
<1>7. ASSUME NEW e \in untold'
      PROVE  \E x \in Invoices : \E n \in 1..Len(history'[x]) : e = <<x, n>>
  <2>1. CASE e \in untold
    <3>1. PICK x \in Invoices : \E n \in 1..Len(history[x]) : e = <<x, n>>
      BY <2>1 DEF Ledger
    <3>2. \A n \in 1..Len(history[x]) : n \in 1..Len(history'[x])
      <4>1. CASE x = i
        BY <1>3, <1>4, <4>1
      <4>2. CASE x # i
        BY <1>4, <4>2
      <4> QED
        BY <4>1, <4>2
    <3> QED
      BY <3>1, <3>2
  <2>2. CASE e = <<i, Len(history[i]) + 1>>
    <3>1. Len(history[i]) + 1 \in 1..Len(history'[i])
      BY <1>3, <1>4
    <3> QED
      BY <2>2, <3>1
  <2> QED
    BY <1>1, <2>1, <2>2
<1> QED
  BY <1>1, <1>4, <1>5, <1>6, <1>7 DEF Ledger

LEMMA InvoiceTxGrows ==
    ASSUME NetworkInv, NEW q \in Clerks, InvoiceTx(pending[q]), pending'[q] = pending[q],
           \A x \in Invoices : rows[x].status # "ABSENT" => rows'[x].number = rows[x].number
    PROVE  InvoiceTx(pending[q])'
<1>1. pending[q].op \in {"save", "write"} =>
        pending[q].id \in Invoices /\ rows[pending[q].id].status # "ABSENT"
  BY DEF NetworkInv, Flight
<1> QED
  BY <1>1 DEF InvoiceTx

\* A step of a request that touches no row and no event.
LEMMA GraphRequestKeeps ==
    ASSUME NetworkInv, GraphInv, NEW r \in Clerks, NEW p, InvoiceTx(p),
           pending' = [pending EXCEPT ![r] = p], rows' = rows, commits' = commits,
           UNCHANGED told
    PROVE  GraphInv'
<1>1. ASSUME NEW q \in Clerks PROVE InvoiceTx(pending[q])'
  <2>1. InvoiceTx(pending'[q])
    BY DEF NetworkInv, GraphInv
  <2> QED
    BY <2>1 DEF InvoiceTx
<1>2. Ledger'
  BY LedgerStays DEF GraphInv
<1> QED
  BY <1>1, <1>2 DEF GraphInv, NumbersDiffer, Trades!Live

LEMMA GraphCompareKeeps ==
    ASSUME NetworkInv, GraphInv, NEW r \in Clerks, Trades!Compare(r, {}), UNCHANGED told
    PROVE  GraphInv'
<1> DEFINE p == pending[r]
           q == [op |-> "write", id |-> p.id, entity |-> p.entity,
                 changed |-> Trades!Changed(rows[p.id], p.entity, {}), recs |-> p.recs]
<1>1. /\ p.op = "save" /\ pending' = [pending EXCEPT ![r] = q] /\ rows' = rows
      /\ commits' = commits
  BY DEF Trades!Compare
<1>2. InvoiceTx(p)
  BY DEF GraphInv
<1>3. q.op = "write" /\ q.id = p.id /\ q.entity = p.entity /\ q.recs = p.recs
  OBVIOUS
<1> HIDE DEF p, q
<1>4. InvoiceTx(q)
  BY <1>1, <1>2, <1>3 DEF InvoiceTx
<1> QED
  BY <1>1, <1>4, GraphRequestKeeps

LEMMA InvoiceTxIdle == InvoiceTx(Trades!Idle)
BY DEF InvoiceTx, Trades!Idle

LEMMA GraphQuietKeeps ==
    ASSUME NetworkInv, GraphInv, NEW r \in Clerks,
           \/ Trades!Abort(r) /\ UNCHANGED told
           \/ \E side \in Trades!Sides : Trades!FileInvoice(r, side)
           \/ \E side \in Trades!Sides, number \in Numbers :
                Trades!ResolveDebtor(r, side, number)
    PROVE  GraphInv'
<1>1. CASE Trades!Abort(r) /\ UNCHANGED told
  BY <1>1, GraphRequestKeeps, InvoiceTxIdle DEF Trades!Abort
<1>2. ASSUME NEW side \in Trades!Sides, Trades!FileInvoice(r, side) PROVE GraphInv'
  <2>1. PICK found : Trades!Begin(r, [op |-> "debtor", issuer |-> found])
    BY <1>2 DEF Trades!FileInvoice
  <2>2. InvoiceTx([op |-> "debtor", issuer |-> found])
    BY DEF InvoiceTx
  <2>3. UNCHANGED told
    BY <1>2 DEF Trades!FileInvoice, Trades!tradeVars, told
  <2> QED
    BY <2>1, <2>2, <2>3, GraphRequestKeeps DEF Trades!Begin
<1>3. ASSUME NEW side \in Trades!Sides, NEW number \in Numbers,
             Trades!ResolveDebtor(r, side, number)
      PROVE  GraphInv'
  <2> DEFINE q(found) == [op |-> "file", issuer |-> pending[r].issuer, debtor |-> found,
                          number |-> number]
  <2>1. PICK found : pending' = [pending EXCEPT ![r] = q(found)]
    BY <1>3 DEF Trades!ResolveDebtor
  <2>2. InvoiceTx(q(found))
    BY DEF InvoiceTx
  <2>3. rows' = rows /\ commits' = commits /\ UNCHANGED told
    BY <1>3 DEF Trades!ResolveDebtor, Trades!tradeVars, told
  <2> HIDE DEF q
  <2> QED
    BY <2>1, <2>2, <2>3, GraphRequestKeeps
<1> QED
  BY <1>1, <1>2, <1>3

LEMMA GraphUpdateKeeps ==
    ASSUME NetworkInv, GraphInv, NEW r \in Clerks, NEW i \in Invoices,
           NEW to \in Trades!Status, Trades!UpdateStatus(r, i, to)
    PROVE  GraphInv'
<1> DEFINE p == Trades!Saving(i, Trades!Becoming(rows[i], to), {rows[i].status})
<1>1. /\ Trades!Begin(r, p) /\ UNCHANGED told
  BY DEF Trades!UpdateStatus, Trades!tradeVars, told
<1>2. rows[i] \in Trades!Row
  BY DEF NetworkInv
<1>3. Trades!Becoming(rows[i], to).number = rows[i].number /\ rows[i].status \in Trades!Status
  BY <1>2 DEF Trades!Becoming, Trades!Row
<1>4. /\ p.op = "save" /\ p.id = i /\ p.entity = Trades!Becoming(rows[i], to)
      /\ p.recs = {rows[i].status}
  BY DEF Trades!Saving
<1> HIDE DEF p
<1>5. InvoiceTx(p)
  BY <1>3, <1>4 DEF InvoiceTx
<1> QED
  BY <1>1, <1>5, GraphRequestKeeps DEF Trades!Begin

LEMMA GraphCommitKeeps ==
    ASSUME NetworkInv, GraphInv, NEW r \in Clerks, NEW i \in Invoices,
           NEW factoring \in BOOLEAN, NEW named \in BOOLEAN,
           Trades!CommitInvoice(r, i, factoring, named)
    PROVE  GraphInv'
<1> DEFINE p == pending[r]
           both == Trades!Enter(Trades!Enter(orgs, p.issuer), p.debtor)
           issuer == Trades!IdOf(Trades!Enter(orgs, p.issuer), p.issuer)
           debtor == Trades!IdOf(both, p.debtor)
           row == Trades!Filing(issuer, debtor, p.number, factoring, named)
<1>1. /\ rows[i].status = "ABSENT" /\ commits < TradeCommits /\ commits' = commits + 1
      /\ ~Trades!Filed(issuer, p.number) /\ rows' = [rows EXCEPT ![i] = row]
      /\ pending' = [pending EXCEPT ![r] = Trades!Idle]
      /\ Trades!Tell(i, "ABSENT", "UPLOADED")
  BY DEF Trades!CommitInvoice, Trades!NextId
<1>2. row.issuer = issuer /\ row.number = p.number
  BY DEF Trades!Filing, Trades!AbsentRow
<1> HIDE DEF p, both, issuer, debtor, row
<1>3. rows'[i] = row /\ \A x \in Invoices \ {i} : rows'[x] = rows[x]
  BY <1>1 DEF NetworkInv
<1>4. Ledger'
  <2>1. "ABSENT" \in Trades!Status /\ "UPLOADED" \in Trades!Status
    BY DEF Trades!Status, Trades!Allowed
  <2> QED
    BY <1>1, <1>3, <2>1, TellKeeps DEF GraphInv
<1>5. ASSUME NEW q \in Clerks PROVE InvoiceTx(pending[q])'
  <2>1. CASE q = r
    BY <1>1, <2>1 DEF NetworkInv, InvoiceTx, Trades!Idle
  <2>2. CASE q # r
    <3>1. pending'[q] = pending[q]
      BY <1>1, <2>2 DEF NetworkInv
    <3> QED
      BY <1>1, <1>3, <3>1, InvoiceTxGrows DEF GraphInv
  <2> QED
    BY <2>1, <2>2
<1>6. ASSUME NEW x \in Invoices \ {i}, rows[x].status # "ABSENT"
      PROVE  rows[x].issuer # issuer \/ rows[x].number # p.number
  BY <1>1, <1>6 DEF Trades!Filed
<1>7. NumbersDiffer'
  BY <1>2, <1>3, <1>6 DEF GraphInv, NumbersDiffer, Trades!Live
<1>8. commits' \in 0..TradeCommits
  BY <1>1, JourneyAssumption DEF GraphInv
<1> QED
  BY <1>4, <1>5, <1>7, <1>8 DEF GraphInv

\* What a change of status finds.
LEMMA StatusFinds ==
    ASSUME NetworkInv, GraphInv, NEW r \in Clerks, Trades!CommitStatus(r)
    PROVE  \E i \in Invoices :
             /\ pending[r].op = "write" /\ i = pending[r].id /\ rows[i].status # "ABSENT"
             /\ rows' = [rows EXCEPT ![i] = Left(pending[r])]
             /\ Left(pending[r]) \in Trades!Row /\ Left(pending[r]).status # "ABSENT"
             /\ Left(pending[r]).issuer = rows[i].issuer
             /\ Left(pending[r]).number = rows[i].number
             /\ pending[r].entity \in Trades!Row
             /\ pending' = [pending EXCEPT ![r] = Trades!Idle]
             /\ \E from \in pending[r].recs : Trades!Tell(i, from, pending[r].entity.status)
<1> DEFINE p == pending[r]
           row == rows[p.id]
           new == Trades!Merge(row, p.entity, p.changed)
<1>1. /\ p.op = "write" /\ rows' = Trades!Written(r, p.id)
      /\ pending' = [pending EXCEPT ![r] = Trades!Idle]
      /\ \E from \in p.recs : Trades!Tell(p.id, from, p.entity.status)
  BY DEF Trades!CommitStatus
<1>2. /\ p.id \in Invoices /\ row \in Trades!Row /\ row.status # "ABSENT"
      /\ p.entity \in Trades!Row /\ p.entity.status # "ABSENT"
      /\ Parties(p.entity) = Parties(row)
      /\ p.entity.number = row.number
  BY <1>1 DEF NetworkInv, Flight, GraphInv, InvoiceTx
<1>3. Left(p) = new /\ rows' = [rows EXCEPT ![p.id] = new]
  BY <1>1 DEF Left, Merge, Trades!Merge, Trades!Written
<1>4. new \in Trades!Row /\ new.status # "ABSENT" /\ Parties(new) = Parties(row)
  BY <1>2, InvoiceMergeType
<1>5. new.number = row.number
  BY <1>2 DEF Trades!Merge, Trades!Row
<1>6. new.issuer = row.issuer
  BY <1>4 DEF Parties
<1> HIDE DEF p, row, new
<1> QED
  BY <1>1, <1>2, <1>3, <1>4, <1>5, <1>6 DEF p, row

LEMMA GraphStatusKeeps ==
    ASSUME NetworkInv, GraphInv, NEW r \in Clerks, Trades!CommitStatus(r)
    PROVE  GraphInv'
<1> DEFINE p == pending[r]
           new == Left(p)
<1>1. PICK i \in Invoices :
        /\ p.op = "write" /\ i = p.id /\ rows[i].status # "ABSENT"
        /\ rows' = [rows EXCEPT ![i] = new] /\ new \in Trades!Row
        /\ new.issuer = rows[i].issuer /\ new.number = rows[i].number
        /\ p.entity \in Trades!Row
        /\ pending' = [pending EXCEPT ![r] = Trades!Idle]
        /\ \E from \in p.recs : Trades!Tell(i, from, p.entity.status)
  BY StatusFinds
<1>2. p.recs \subseteq Trades!Status
  BY <1>1 DEF GraphInv, InvoiceTx
<1>3. commits < TradeCommits /\ commits' = commits + 1
  BY DEF Trades!CommitStatus
<1> HIDE DEF p, new
<1>4. rows'[i] = new /\ \A x \in Invoices \ {i} : rows'[x] = rows[x]
  BY <1>1 DEF NetworkInv
<1>5. Ledger'
  <2>1. p.entity.status \in Trades!Status
    BY <1>1 DEF Trades!Row
  <2> QED
    BY <1>1, <1>2, <1>4, <2>1, TellKeeps DEF GraphInv
<1>6. ASSUME NEW q \in Clerks PROVE InvoiceTx(pending[q])'
  <2>1. CASE q = r
    BY <1>1, <2>1 DEF NetworkInv, InvoiceTx, Trades!Idle
  <2>2. CASE q # r
    <3>1. pending'[q] = pending[q]
      BY <1>1, <2>2 DEF NetworkInv
    <3>2. \A x \in Invoices : rows'[x].number = rows[x].number
      BY <1>1, <1>4
    <3> QED
      BY <3>1, <3>2, InvoiceTxGrows DEF GraphInv
  <2> QED
    BY <2>1, <2>2
<1>7. NumbersDiffer'
  BY <1>1, <1>4 DEF GraphInv, NumbersDiffer, Trades!Live
<1>8. commits' \in 0..TradeCommits
  BY <1>3, JourneyAssumption DEF GraphInv
<1> QED
  BY <1>5, <1>6, <1>7, <1>8 DEF GraphInv

LEMMA GraphOtherKeeps ==
    ASSUME NetworkInv, GraphInv, Trades!Other
    PROVE  GraphInv' /\ rows' = rows /\ pending' = pending /\ history' = history
<1>1. ASSUME NEW from \in Trades!OrgIds, NEW to \in Trades!OrgIds, Trades!Relate(from, to)
      PROVE  GraphInv' /\ rows' = rows /\ pending' = pending /\ history' = history
  <2>1. /\ UNCHANGED <<rows, pending>> /\ UNCHANGED told
        /\ commits < TradeCommits /\ commits' = commits + 1
    BY <1>1 DEF Trades!Relate, Trades!nodes, told
  <2>2. Ledger' /\ commits' \in 0..TradeCommits
    BY <2>1, LedgerStays, JourneyAssumption DEF GraphInv
  <2> QED
    BY <2>1, <2>2 DEF GraphInv, NumbersDiffer, Trades!Live, InvoiceTx, told
<1>2. ASSUME NEW e \in untold, Trades!UpsertInvoice(e[1], e[2]) \/ Trades!MarkOnly(e[1], e[2])
      PROVE  GraphInv' /\ rows' = rows /\ pending' = pending /\ history' = history
  <2> PICK i \in Invoices : \E n \in 1..Len(history[i]) : e = <<i, n>>
    BY DEF GraphInv, Ledger
  <2>1. PICK n \in 1..Len(history[i]) : e = <<i, n>>
    OBVIOUS
  <2>2. /\ e[1] = i /\ e[2] = n /\ Len(history[i]) \in Nat /\ n \in Nat
    BY <2>1 DEF GraphInv, Ledger
  <2>3. /\ UNCHANGED <<rows, pending, commits, history>> /\ untold' = untold \ {<<i, n>>}
        /\ \/ /\ node' = [node EXCEPT ![i] = n] /\ forgotten' = forgotten
              /\ farthest' = [farthest EXCEPT ![i] = IF n > farthest[i] THEN n ELSE farthest[i]]
           \/ /\ node' = node /\ farthest' = farthest
              /\ forgotten' = forgotten \cup {i}
    BY <1>2, <2>2 DEF Trades!UpsertInvoice, Trades!MarkOnly, Trades!Seen, Trades!deskVars
  <2>4. node' \in [Invoices -> Nat] /\ farthest' \in [Invoices -> Nat]
    BY <2>2, <2>3 DEF GraphInv, Ledger
  <2>5. ASSUME NEW x \in Invoices, x # i PROVE Recounted(x)'
    <3>1. /\ Recounted(x) /\ node'[x] = node[x] /\ farthest'[x] = farthest[x]
          /\ forgotten \subseteq forgotten'
      BY <2>3, <2>5 DEF GraphInv, Ledger
    <3>2. \A m : <<x, m>> \in untold => <<x, m>> \in untold'
      BY <2>3, <2>5
    <3> QED
      BY <2>3, <3>1, <3>2 DEF Recounted
  <2>6. Recounted(i)'
    <3>1. Recounted(i) /\ node[i] \in Nat /\ farthest[i] \in Nat
      BY DEF GraphInv, Ledger
    <3>2. CASE forgotten' = forgotten \cup {i} /\ node' = node /\ farthest' = farthest
      BY <2>3, <3>1, <3>2 DEF Recounted
    <3>3. CASE /\ node' = [node EXCEPT ![i] = n] /\ forgotten' = forgotten
               /\ farthest' = [farthest EXCEPT ![i] = IF n > farthest[i] THEN n
                                                      ELSE farthest[i]]
      <4>1. /\ node'[i] = n /\ farthest'[i] \in Nat /\ n <= farthest'[i]
            /\ farthest[i] <= farthest'[i]
            /\ farthest'[i] = n \/ farthest'[i] = farthest[i]
        BY <2>2, <3>1, <3>3 DEF GraphInv, Ledger
      <4>2. farthest'[i] <= Len(history[i])
        BY <2>1, <2>2, <3>1, <4>1 DEF Recounted
      <4>3. ASSUME i \notin forgotten', NEW m \in 1..Len(history[i])
            PROVE  <<i, m>> \in untold' \/ m <= farthest'[i]
        <5>1. CASE m = n
          BY <4>1, <5>1
        <5>2. CASE m # n
          BY <2>2, <2>3, <3>1, <3>3, <4>1, <4>3, <5>2 DEF Recounted
        <5> QED
          BY <5>1, <5>2
      <4> QED
        BY <2>3, <3>1, <4>1, <4>2, <4>3 DEF Recounted
    <3> QED
      BY <2>3, <3>2, <3>3
  <2>7. Ledger'
    BY <2>3, <2>4, <2>5, <2>6 DEF GraphInv, Ledger
  <2> QED
    BY <2>3, <2>7 DEF GraphInv, NumbersDiffer, Trades!Live, InvoiceTx
<1> QED
  BY <1>1, <1>2 DEF Trades!Other

LEMMA GraphStepKeeps ==
    ASSUME NetworkInv, GraphInv, NEW r \in Clerks, Trades!Step(r)
    PROVE  GraphInv'
<1>1. CASE (Trades!Compare(r, {}) \/ Trades!Abort(r)) /\ UNCHANGED Trades!tradeVars
  <2>1. UNCHANGED told
    BY <1>1 DEF Trades!tradeVars, told
  <2> QED
    BY <1>1, <2>1, GraphCompareKeeps, GraphQuietKeeps
<1>2. CASE \E side \in Trades!Sides : \/ Trades!FileInvoice(r, side)
                                      \/ \E number \in Numbers : Trades!ResolveDebtor(r, side, number)
  BY <1>2, GraphQuietKeeps
<1> QED
  BY <1>1, <1>2, GraphCommitKeeps, GraphUpdateKeeps, GraphStatusKeeps DEF Trades!Step
LEMMA GraphInit ==
    ASSUME Trades!Init
    PROVE  GraphInv
<1>1. pending = [r \in Clerks |-> Trades!Idle] /\ commits = 0
  BY DEF Trades!Init
<1>2. \A r \in Clerks : InvoiceTx(pending[r])
  BY <1>1, InvoiceTxIdle
<1>3. Trades!AbsentRow.status = "ABSENT"
  BY DEF Trades!AbsentRow
<1>4. ASSUME Trades!Empty, rows = [i \in Invoices |-> Trades!AbsentRow]
      PROVE  Ledger /\ NumbersDiffer
  BY <1>3, <1>4 DEF Trades!Empty, Ledger, Recounted, NumbersDiffer, Trades!Live
<1>5. ASSUME NEW i \in Invoices, NEW a, NEW b, NEW number, NEW factoring,
             Trades!Approved(i, a, b, number, factoring)
      PROVE  Ledger /\ NumbersDiffer
  <2>1. /\ \A x \in Invoices \ {i} : rows[x] = Trades!AbsentRow
        /\ history = [x \in Invoices |-> IF x = i THEN Trades!Approval ELSE <<>>]
        /\ node = [x \in Invoices |-> Len(history[x])] /\ farthest = node
        /\ untold = {} /\ forgotten = {}
    BY <1>5 DEF Trades!Approved
  <2>2. /\ Trades!Approval \in Seq(Event) /\ Len(Trades!Approval) = 3
        /\ <<>> \in Seq(Event) /\ Len(<<>>) = 0
    BY DEF Trades!Approval, Event, Trades!Status, Trades!Allowed
  <2>3. /\ history \in [Invoices -> Seq(Event)] /\ Len(history[i]) = 3
        /\ \A x \in Invoices : Len(history[x]) \in Nat
    BY <2>1, <2>2
  <2>4. ASSUME NEW x \in Invoices PROVE Recounted(x)
    <3>1. rows[x].status # "ABSENT" => x = i
      BY <1>3, <2>1
    <3>2. /\ node[x] = Len(history[x]) /\ farthest[x] = Len(history[x])
          /\ Len(history[x]) \in Nat
      BY <2>1, <2>3
    <3> QED
      BY <2>3, <3>1, <3>2 DEF Recounted
  <2>5. NumbersDiffer
    BY <1>3, <2>1 DEF NumbersDiffer, Trades!Live
  <2> QED
    BY <2>1, <2>3, <2>4, <2>5 DEF Ledger
<1> QED
  BY <1>1, <1>2, <1>4, <1>5, JourneyAssumption DEF GraphInv, Trades!Init, Trades!FirstId

LEMMA TradeTypes == NetworkInv /\ GraphInv => Trades!TypeOK
<1> SUFFICES ASSUME NetworkInv, GraphInv PROVE Trades!TypeOK
  OBVIOUS
<1>1. \A r \in Clerks : pending[r].op \in {"idle", "debtor", "file", "save", "write"}
  BY DEF NetworkInv, Flight
<1>2. \A o \in Trades!OrgIds : orgs[o] \in Organisation
  BY DEF NetworkInv, Trades!OrgIds
<1>3. ASSUME NEW i \in Invoices
      PROVE  /\ history[i] \in Seq([from : Trades!Status, to : Trades!Status])
             /\ node[i] <= farthest[i] /\ farthest[i] <= Len(history[i])
  BY DEF GraphInv, Ledger, Recounted, Event
<1>4. ASSUME NEW e \in untold PROVE e[1] \in Invoices /\ e[2] \in DOMAIN history[e[1]]
  <2>1. PICK i \in Invoices : \E n \in 1..Len(history[i]) : e = <<i, n>>
    BY DEF GraphInv, Ledger
  <2>2. history[i] \in Seq(Event)
    BY DEF GraphInv, Ledger
  <2>3. DOMAIN history[i] = 1..Len(history[i])
    BY <2>2
  <2> QED
    BY <2>1, <2>3
<1> QED
  BY <1>1, <1>2, <1>3, <1>4 DEF NetworkInv, GraphInv, Ledger, Trades!TypeOK, Organisation

-----------------------------------------------------------------------------
(* The invoices, one request at a time.  An organisation that a request is   *)
(* to enter is not in the table, and what is told of an invoice is one walk  *)
(* that ends at its row.                                                     *)

Distinct(table) ==
    \A a, b \in DOMAIN table : a # b =>
      /\ table[a].name # table[b].name
      /\ table[a].registration = NONE \/ table[a].registration # table[b].registration

\* Nobody of the table is whom the side names.
New(table, side) ==
    side.id = 0 => \A o \in DOMAIN table :
      /\ table[o].name # side.name
      /\ side.registration = NONE \/ table[o].registration # side.registration

Walks(h) ==
    \A n \in 2..Len(h) : h[n].from = h[n - 1].to /\ h[n].to \in Trades!Allowed[h[n].from]

Passes(h, status) == \E n \in 1..Len(h) : h[n].to = status

Tells(row, h) ==
    IF row.status = "ABSENT" THEN h = <<>>
    ELSE /\ Walks(h) /\ row.status = h[Len(h)].to
         /\ row.settled = Passes(h, "PAID")
         /\ row.transferred = (row.factoring /\ Passes(h, "FINANCED"))

\* A change of status: from the status of the row, to one that follows it.
Follows(p, row, left) ==
    /\ p.recs = {row.status} /\ p.entity.status \in Trades!Allowed[row.status]
    /\ left.status = p.entity.status /\ left.factoring = row.factoring
    /\ left.settled = (row.settled \/ left.status = "PAID")
    /\ left.transferred = (row.transferred \/ (left.status = "FINANCED" /\ row.factoring))

InvoiceProposes(p) ==
    /\ p.op \in {"debtor", "file"} => New(orgs, p.issuer)
    /\ p.op = "file" => New(Trades!Enter(orgs, p.issuer), p.debtor)
    /\ p.op \in {"save", "write"} => Follows(p, rows[p.id], Left(p))

TradeAlone ==
    /\ Distinct(orgs)
    /\ \A i \in Invoices : Tells(rows[i], history[i])
    /\ \A r \in Clerks : InvoiceProposes(pending[r])

\* Tables with the same names and registrations, whatever their personas.
SameParties(old, new) ==
    /\ new \in Seq(Organisation) /\ Len(new) = Len(old)
    /\ \A o \in 1..Len(old) : new[o].name = old[o].name
                              /\ new[o].registration = old[o].registration

LEMMA SamePartiesDistinct ==
    ASSUME NEW old \in Seq(Organisation), NEW new, SameParties(old, new), Distinct(old)
    PROVE  Distinct(new)
<1>1. DOMAIN new = 1..Len(old) /\ DOMAIN old = 1..Len(old)
  BY DEF SameParties
<1> QED
  BY <1>1 DEF SameParties, Distinct

LEMMA SamePartiesNew ==
    ASSUME NEW old \in Seq(Organisation), NEW new, SameParties(old, new), NEW side,
           New(old, side)
    PROVE  New(new, side)
<1>1. DOMAIN new = 1..Len(old) /\ DOMAIN old = 1..Len(old)
  BY DEF SameParties
<1> QED
  BY <1>1 DEF SameParties, New

LEMMA PersonasSameParties ==
    ASSUME NEW table \in Seq(Organisation), NEW from \in 1..Len(table), NEW to \in 1..Len(table)
    PROVE  SameParties(table, Trades!WithPersonas(table, from, to))
<1> DEFINE supplier == [table[from] EXCEPT !.supplier = TRUE]
           one == [table EXCEPT ![from] = supplier]
           buyer == [one[to] EXCEPT !.buyer = TRUE]
           two == [one EXCEPT ![to] = buyer]
<1>1. Trades!WithPersonas(table, from, to) = two
  BY DEF Trades!WithPersonas
<1>2. table[from] \in Organisation
  OBVIOUS
<1>3. /\ supplier \in Organisation /\ supplier.name = table[from].name
      /\ supplier.registration = table[from].registration
  BY <1>2 DEF Organisation
<1> HIDE DEF supplier
<1>4. one \in Seq(Organisation) /\ Len(one) = Len(table)
  BY <1>3
<1>5. \A o \in 1..Len(table) : one[o] = IF o = from THEN supplier ELSE table[o]
  OBVIOUS
<1> HIDE DEF one
<1>6. one[to] \in Organisation
  BY <1>4
<1>7. /\ buyer \in Organisation /\ buyer.name = one[to].name
      /\ buyer.registration = one[to].registration
  BY <1>6 DEF Organisation
<1> HIDE DEF buyer
<1>8. two \in Seq(Organisation) /\ Len(two) = Len(table)
  BY <1>4, <1>7
<1>9. \A o \in 1..Len(table) : two[o] = IF o = to THEN buyer ELSE one[o]
  BY <1>4
<1> HIDE DEF two
<1> QED
  BY <1>1, <1>3, <1>5, <1>7, <1>8, <1>9 DEF SameParties

\* Entering a new organisation.
LEMMA EnterDistinct ==
    ASSUME NEW table \in Seq(Organisation), NEW side, Distinct(table), New(table, side),
           side.id = 0 => side.name \in Names /\ side.registration \in Registrations \cup {NONE}
    PROVE  Trades!Enter(table, side) \in Seq(Organisation) /\ Distinct(Trades!Enter(table, side))
<1>1. CASE side.id # 0
  BY <1>1 DEF Trades!Enter
<1>2. CASE side.id = 0
  <2> DEFINE org == Trades!Org(side.name, side.registration)
             new == Append(table, org)
  <2>1. org \in Organisation /\ org.name = side.name /\ org.registration = side.registration
    BY <1>2 DEF Organisation, Trades!Org
  <2>2. Trades!Enter(table, side) = new
    BY <1>2 DEF Trades!Enter
  <2> HIDE DEF org
  <2>3. /\ new \in Seq(Organisation) /\ Len(table) \in Nat /\ Len(new) = Len(table) + 1
        /\ new[Len(table) + 1] = org /\ \A o \in 1..Len(table) : new[o] = table[o]
    BY <2>1, AddedTo
  <2>4. DOMAIN new = 1..(Len(table) + 1) /\ DOMAIN table = 1..Len(table)
    BY <2>3
  <2> HIDE DEF new
  <2>5. ASSUME NEW a \in DOMAIN new, NEW b \in DOMAIN new, a # b
        PROVE  /\ new[a].name # new[b].name
               /\ new[a].registration = NONE \/ new[a].registration # new[b].registration
    <3>1. a \in 1..Len(table) \/ a = Len(table) + 1
      BY <2>3, <2>4
    <3>2. b \in 1..Len(table) \/ b = Len(table) + 1
      BY <2>3, <2>4
    <3>3. CASE a \in 1..Len(table) /\ b \in 1..Len(table)
      BY <2>3, <2>4, <2>5, <3>3 DEF Distinct
    <3>4. CASE a \in 1..Len(table) /\ b = Len(table) + 1
      BY <1>2, <2>1, <2>3, <2>4, <3>4 DEF New
    <3>5. CASE a = Len(table) + 1 /\ b \in 1..Len(table)
      BY <1>2, <2>1, <2>3, <2>4, <3>5 DEF New
    <3> QED
      BY <2>5, <3>1, <3>2, <3>3, <3>4, <3>5
  <2>6. Distinct(new)
    BY <2>5 DEF Distinct
  <2> QED
    BY <2>2, <2>3, <2>6
<1> QED
  BY <1>1, <1>2

\* A table with other personas is entered alike.
LEMMA EnterSameParties ==
    ASSUME NEW old \in Seq(Organisation), NEW new, SameParties(old, new), NEW side,
           side.id = 0 => side.name \in Names /\ side.registration \in Registrations \cup {NONE}
    PROVE  /\ Trades!Enter(old, side) \in Seq(Organisation)
           /\ SameParties(Trades!Enter(old, side), Trades!Enter(new, side))
<1>1. CASE side.id # 0
  BY <1>1 DEF Trades!Enter
<1>2. CASE side.id = 0
  <2> DEFINE org == Trades!Org(side.name, side.registration)
  <2>1. org \in Organisation
    BY <1>2 DEF Organisation, Trades!Org
  <2>2. Trades!Enter(old, side) = Append(old, org) /\ Trades!Enter(new, side) = Append(new, org)
    BY <1>2 DEF Trades!Enter
  <2> HIDE DEF org
  <2>3. new \in Seq(Organisation) /\ Len(new) = Len(old)
    BY DEF SameParties
  <2>4. /\ Append(old, org) \in Seq(Organisation) /\ Len(Append(old, org)) = Len(old) + 1
        /\ Append(old, org)[Len(old) + 1] = org /\ Len(old) \in Nat
        /\ \A o \in 1..Len(old) : Append(old, org)[o] = old[o]
    BY <2>1, AddedTo
  <2>5. /\ Append(new, org) \in Seq(Organisation) /\ Len(Append(new, org)) = Len(new) + 1
        /\ Append(new, org)[Len(new) + 1] = org
        /\ \A o \in 1..Len(new) : Append(new, org)[o] = new[o]
    BY <2>1, <2>3, AddedTo
  <2>6. \A o \in 1..(Len(old) + 1) : o \in 1..Len(old) \/ o = Len(old) + 1
    BY <2>4
  <2> QED
    BY <2>2, <2>3, <2>4, <2>5, <2>6 DEF SameParties
<1> QED
  BY <1>1, <1>2

\* The organisation that is found, or nobody.
LEMMA ResolvedIsNew ==
    ASSUME NEW table \in Seq(Organisation), NEW side, NEW found \in Trades!Resolved(table, side)
    PROVE  New(table, found)
<1>1. CASE found = side
  BY <1>1 DEF Trades!Resolved, Trades!ByRegistration, Trades!ByName, Trades!Known, New
<1>2. ASSUME NEW o \in DOMAIN table, found = Trades!Known(o) PROVE New(table, found)
  <2>1. o # 0
    BY <1>2
  <2> QED
    BY <1>2, <2>1 DEF Trades!Known, New
<1> QED
  BY <1>1, <1>2 DEF Trades!Resolved, Trades!ByRegistration, Trades!ByName
LEMMA InvoiceIdleProposes == InvoiceProposes(Trades!Idle)
BY DEF InvoiceProposes, Trades!Idle

\* A step of a request that touches no table and tells of nothing.
LEMMA TradeAloneQuiet ==
    ASSUME NetworkInv, TradeAlone, NEW r \in Clerks, NEW p, InvoiceProposes(p),
           pending' = [pending EXCEPT ![r] = p],
           rows' = rows, orgs' = orgs, history' = history
    PROVE  TradeAlone'
<1>1. ASSUME NEW q \in Clerks PROVE InvoiceProposes(pending[q])'
  <2>1. InvoiceProposes(pending'[q])
    BY DEF NetworkInv, TradeAlone
  <2> QED
    BY <2>1 DEF InvoiceProposes, Left
<1> QED
  BY <1>1 DEF TradeAlone

LEMMA InvoiceCompareAlone ==
    ASSUME NetworkInv, TradeAlone, NEW r \in Clerks, Trades!Compare(r, {}),
           orgs' = orgs, history' = history
    PROVE  TradeAlone'
<1> DEFINE p == pending[r]
           q == [op |-> "write", id |-> p.id, entity |-> p.entity,
                 changed |-> Trades!Changed(rows[p.id], p.entity, {}), recs |-> p.recs]
<1>1. pending' = [pending EXCEPT ![r] = q] /\ rows' = rows /\ p.op = "save"
  BY DEF Trades!Compare
<1>2. Left(q) = Left(p)
  BY <1>1 DEF Left, Trades!Changed, Changed
<1>3. q.op = "write" /\ q.id = p.id /\ q.recs = p.recs /\ q.entity = p.entity
  OBVIOUS
<1>4. InvoiceProposes(p)
  BY DEF TradeAlone
<1> HIDE DEF p, q
<1>5. InvoiceProposes(q)
  BY <1>1, <1>2, <1>3, <1>4 DEF InvoiceProposes, Follows
<1> QED
  BY <1>1, <1>5, TradeAloneQuiet

LEMMA FileAlone ==
    ASSUME NetworkInv, TradeAlone, NEW r \in Clerks, NEW side \in Trades!Sides,
           Trades!FileInvoice(r, side)
    PROVE  TradeAlone'
<1> DEFINE q(found) == [op |-> "debtor", issuer |-> found]
<1>1. PICK found \in Trades!Resolved(orgs, side) : Trades!Begin(r, q(found))
  BY DEF Trades!FileInvoice
<1>2. New(orgs, found)
  BY <1>1, ResolvedIsNew DEF NetworkInv
<1>3. q(found).op = "debtor" /\ q(found).issuer = found
  OBVIOUS
<1> HIDE DEF q
<1>4. InvoiceProposes(q(found))
  BY <1>2, <1>3 DEF InvoiceProposes
<1>5. /\ pending' = [pending EXCEPT ![r] = q(found)]
      /\ rows' = rows /\ orgs' = orgs /\ history' = history
  BY <1>1 DEF Trades!Begin, Trades!FileInvoice, Trades!tradeVars
<1> QED
  BY <1>4, <1>5, TradeAloneQuiet

LEMMA DebtorAlone ==
    ASSUME NetworkInv, TradeAlone, NEW r \in Clerks, NEW side \in Trades!Sides,
           NEW number \in Numbers, Trades!ResolveDebtor(r, side, number)
    PROVE  TradeAlone'
<1> DEFINE issuer == pending[r].issuer
           q(found) == [op |-> "file", issuer |-> issuer, debtor |-> found,
                        number |-> number]
<1>1. pending[r].op = "debtor"
  BY DEF Trades!ResolveDebtor
<1>2. issuer \in Trades!Sides /\ New(orgs, issuer)
  BY <1>1 DEF NetworkInv, Flight, TradeAlone, InvoiceProposes
<1>3. PICK found \in Trades!Resolved(Trades!Enter(orgs, issuer), side) :
        pending' = [pending EXCEPT ![r] = q(found)]
  BY DEF Trades!ResolveDebtor
<1>4. Trades!Enter(orgs, issuer) \in Seq(Organisation)
  BY <1>2, SidesAreThere, EnterDistinct DEF NetworkInv, TradeAlone
<1>5. New(Trades!Enter(orgs, issuer), found)
  BY <1>3, <1>4, ResolvedIsNew
<1>6. q(found).op = "file" /\ q(found).issuer = issuer /\ q(found).debtor = found
  OBVIOUS
<1> HIDE DEF q, issuer
<1>7. InvoiceProposes(q(found))
  BY <1>2, <1>5, <1>6 DEF InvoiceProposes
<1>8. rows' = rows /\ orgs' = orgs /\ history' = history
  BY DEF Trades!ResolveDebtor, Trades!tradeVars
<1> QED
  BY <1>3, <1>7, <1>8, TradeAloneQuiet

\* What a save of the changed entity leaves.
LEMMA BecomingFollows ==
    ASSUME NetworkInv, NEW i \in Invoices, NEW to \in Trades!Status,
           to \in Trades!Allowed[rows[i].status]
    PROVE  InvoiceProposes(Trades!Saving(i, Trades!Becoming(rows[i], to), {rows[i].status}))
<1> DEFINE row == rows[i]
           entity == Trades!Becoming(row, to)
           p == Trades!Saving(i, entity, {row.status})
<1>1. row \in Trades!Row
  BY DEF NetworkInv
<1>2. DOMAIN row = Trades!Columns
  BY <1>1 DEF Trades!Row, Trades!Columns
<1>3. p.op = "save" /\ p.id = i /\ p.entity = entity /\ p.recs = {row.status}
  BY DEF Trades!Saving
<1>4. /\ entity.status = to /\ entity.factoring = row.factoring
      /\ entity.settled = (row.settled \/ to = "PAID")
      /\ entity.transferred = (row.transferred \/ (to = "FINANCED" /\ row.factoring))
  BY <1>1 DEF Trades!Becoming, Trades!Row
<1>5. /\ row.settled \in BOOLEAN /\ row.transferred \in BOOLEAN /\ row.factoring \in BOOLEAN
  BY <1>1 DEF Trades!Row
<1> HIDE DEF entity, p
<1>6. Left(p) = Merge(row, entity, Changed(row, entity, {}))
  BY <1>3 DEF Left
<1> HIDE DEF row
<1>7. /\ entity.status # UNDEFINED /\ entity.settled # UNDEFINED
      /\ entity.transferred # UNDEFINED /\ entity.factoring # UNDEFINED
  <2>1. entity.settled \in BOOLEAN /\ entity.transferred \in BOOLEAN
    BY <1>4
  <2> QED
    BY <1>4, <1>5, <2>1, ColumnsAssumption
<1>8. /\ "status" \in DOMAIN row /\ "settled" \in DOMAIN row
      /\ "transferred" \in DOMAIN row /\ "factoring" \in DOMAIN row
  BY <1>2 DEF Trades!Columns
<1>9. /\ Left(p)["status"] = entity.status /\ Left(p)["settled"] = entity.settled
      /\ Left(p)["transferred"] = entity.transferred
      /\ Left(p)["factoring"] = entity.factoring
  BY <1>6, <1>7, <1>8, SaveLeaves
<1>10. Follows(p, row, Left(p))
  BY <1>3, <1>4, <1>9 DEF Follows, row
<1> QED
  BY <1>3, <1>10 DEF InvoiceProposes, row, p, entity

LEMMA UpdateAlone ==
    ASSUME NetworkInv, TradeAlone, NEW r \in Clerks, NEW i \in Invoices,
           NEW to \in Trades!Status, Trades!UpdateStatus(r, i, to)
    PROVE  TradeAlone'
<1>1. /\ to \in Trades!Allowed[rows[i].status]
      /\ pending' = [pending EXCEPT ![r] =
           Trades!Saving(i, Trades!Becoming(rows[i], to), {rows[i].status})]
      /\ rows' = rows /\ orgs' = orgs /\ history' = history
  BY DEF Trades!UpdateStatus, Trades!Begin, Trades!tradeVars
<1> QED
  BY <1>1, BecomingFollows, TradeAloneQuiet

\* What comes last is all that a longer history adds.
LEMMA WalksOn ==
    ASSUME NEW h \in Seq(Event), NEW event \in Event, Len(h) > 0, Walks(h),
           event.from = h[Len(h)].to, event.to \in Trades!Allowed[event.from]
    PROVE  /\ Walks(Append(h, event)) /\ Append(h, event)[Len(Append(h, event))].to = event.to
           /\ \A s : Passes(Append(h, event), s) = (Passes(h, s) \/ event.to = s)
<1> DEFINE new == Append(h, event)
<1>1. /\ Len(h) \in Nat /\ Len(new) = Len(h) + 1 /\ new[Len(h) + 1] = event
      /\ \A n \in 1..Len(h) : new[n] = h[n]
  BY AddedTo
<1> HIDE DEF new
<1>2. ASSUME NEW n \in 2..Len(new)
      PROVE  new[n].from = new[n - 1].to /\ new[n].to \in Trades!Allowed[new[n].from]
  <2>1. CASE n = Len(new)
    <3>1. n - 1 = Len(h) /\ Len(h) \in 1..Len(h)
      BY <1>1, <2>1
    <3> QED
      BY <1>1, <2>1, <3>1
  <2>2. CASE n # Len(new)
    <3>1. n \in 2..Len(h) /\ n \in 1..Len(h) /\ n - 1 \in 1..Len(h)
      BY <1>1, <2>2
    <3> QED
      BY <1>1, <3>1 DEF Walks
  <2> QED
    BY <2>1, <2>2
<1>3. ASSUME NEW s PROVE Passes(new, s) = (Passes(h, s) \/ event.to = s)
  <2>1. \A n \in 1..Len(new) : n \in 1..Len(h) \/ n = Len(h) + 1
    BY <1>1
  <2>2. Len(h) + 1 \in 1..Len(new) /\ \A n \in 1..Len(h) : n \in 1..Len(new)
    BY <1>1
  <2> QED
    BY <1>1, <2>1, <2>2 DEF Passes
<1>4. Walks(new) /\ new[Len(new)].to = event.to
  BY <1>1, <1>2 DEF Walks
<1> QED
  BY <1>3, <1>4 DEF new

LEMMA StatusAlone ==
    ASSUME NetworkInv, GraphInv, TradeAlone, NEW r \in Clerks, Trades!CommitStatus(r),
           \A q \in Clerks \ {r} : pending[q] = Trades!Idle
    PROVE  TradeAlone'
<1> DEFINE p == pending[r]
           new == Left(p)
<1>1. PICK i \in Invoices :
        /\ p.op = "write" /\ i = p.id /\ rows[i].status # "ABSENT"
        /\ rows' = [rows EXCEPT ![i] = new] /\ new.status # "ABSENT"
        /\ pending' = [pending EXCEPT ![r] = Trades!Idle]
        /\ \E from \in p.recs : Trades!Tell(i, from, p.entity.status)
  BY StatusFinds
<1>2. Follows(p, rows[i], new)
  BY <1>1 DEF TradeAlone, InvoiceProposes
<1>3. new \in Trades!Row /\ p.entity \in Trades!Row /\ rows[i] \in Trades!Row
  BY StatusFinds, <1>1 DEF NetworkInv
<1> DEFINE event == [from |-> rows[i].status, to |-> new.status]
           h == history[i]
           told1 == Append(h, event)
<1>4. history' = [history EXCEPT ![i] = told1]
  BY <1>1, <1>2 DEF Trades!Tell, Follows
<1>5. h \in Seq(Event) /\ event \in Event /\ Len(h) > 0
  BY <1>1, <1>3 DEF GraphInv, Ledger, Recounted, Event, Trades!Row
<1>6. Tells(rows[i], h)
  BY DEF TradeAlone
<1> HIDE DEF h
<1>7. /\ Walks(told1) /\ told1[Len(told1)].to = new.status
      /\ \A s : Passes(told1, s) = (Passes(h, s) \/ new.status = s)
  <2>1. Walks(h) /\ rows[i].status = h[Len(h)].to
    BY <1>1, <1>6 DEF Tells
  <2>2. new.status \in Trades!Allowed[rows[i].status]
    BY <1>2 DEF Follows
  <2>3. event.from = h[Len(h)].to /\ event.to \in Trades!Allowed[event.from]
        /\ event.to = new.status
    BY <2>1, <2>2
  <2> HIDE DEF event, new, p
  <2> QED
    BY <1>5, <2>1, <2>3, WalksOn
<1>8. Tells(new, told1)
  <2> HIDE DEF p, told1, event
  <2>1. /\ rows[i].settled = Passes(h, "PAID")
        /\ rows[i].transferred = (rows[i].factoring /\ Passes(h, "FINANCED"))
    BY <1>1, <1>6 DEF Tells
  <2>2. /\ new.factoring = rows[i].factoring
        /\ new.settled = (rows[i].settled \/ new.status = "PAID")
        /\ new.transferred = (rows[i].transferred \/ (new.status = "FINANCED" /\ rows[i].factoring))
    BY <1>2 DEF Follows
  <2> HIDE DEF new
  <2>3. new.settled = Passes(told1, "PAID")
    BY <1>7, <2>1, <2>2
  <2>4. new.transferred = (new.factoring /\ Passes(told1, "FINANCED"))
    BY <1>7, <2>1, <2>2
  <2> QED
    BY <1>1, <1>7, <2>3, <2>4 DEF Tells
<1> HIDE DEF p, new, told1
<1>9. ASSUME NEW x \in Invoices PROVE Tells(rows'[x], history'[x])
  <2>1. CASE x = i
    BY <1>1, <1>4, <1>8, <2>1 DEF NetworkInv, GraphInv, Ledger
  <2>2. CASE x # i
    <3>1. rows'[x] = rows[x] /\ history'[x] = history[x]
      BY <1>1, <1>4, <2>2 DEF NetworkInv, GraphInv, Ledger
    <3> QED
      BY <3>1 DEF TradeAlone
  <2> QED
    BY <2>1, <2>2
<1>10. ASSUME NEW q \in Clerks PROVE InvoiceProposes(pending[q])'
  <2>1. pending'[q] = Trades!Idle
    BY <1>1 DEF NetworkInv
  <2> QED
    BY <2>1 DEF InvoiceProposes, Trades!Idle
<1>11. orgs' = orgs
  BY DEF Trades!CommitStatus
<1> QED
  BY <1>9, <1>10, <1>11 DEF TradeAlone, Tells, Walks, Passes
LEMMA InvoiceAlone ==
    ASSUME NetworkInv, GraphInv, TradeAlone, NEW r \in Clerks, NEW i \in Invoices,
           NEW factoring \in BOOLEAN, NEW named \in BOOLEAN,
           Trades!CommitInvoice(r, i, factoring, named),
           \A q \in Clerks \ {r} : pending[q] = Trades!Idle
    PROVE  TradeAlone'
<1> DEFINE p == pending[r]
           entered == Trades!Enter(orgs, p.issuer)
           both == Trades!Enter(entered, p.debtor)
           issuer == Trades!IdOf(entered, p.issuer)
           debtor == Trades!IdOf(both, p.debtor)
           row == Trades!Filing(issuer, debtor, p.number, factoring, named)
           event == [from |-> "ABSENT", to |-> "UPLOADED"]
<1>1. /\ p.op = "file" /\ rows[i].status = "ABSENT"
      /\ orgs' = Trades!WithPersonas(both, issuer, debtor)
      /\ rows' = [rows EXCEPT ![i] = row]
      /\ pending' = [pending EXCEPT ![r] = Trades!Idle]
      /\ history' = [history EXCEPT ![i] = Append(history[i], event)]
  BY DEF Trades!CommitInvoice, Trades!NextId, Trades!Tell
<1>2. /\ row.status = "UPLOADED" /\ ~row.settled /\ ~row.transferred
      /\ row.settled \in BOOLEAN /\ row.transferred \in BOOLEAN
  BY DEF Trades!Filing, Trades!AbsentRow
<1>3. /\ p.issuer \in Trades!Sides /\ p.debtor \in Trades!Sides
      /\ New(orgs, p.issuer) /\ New(entered, p.debtor)
  BY <1>1 DEF NetworkInv, Flight, TradeAlone, InvoiceProposes
<1>4. /\ p.issuer.id = 0 => p.issuer.name \in Names
                            /\ p.issuer.registration \in Registrations \cup {NONE}
      /\ p.issuer.id # 0 => p.issuer.id \in 1..Len(orgs)
      /\ p.debtor.id = 0 => p.debtor.name \in Names
                            /\ p.debtor.registration \in Registrations \cup {NONE}
      /\ p.debtor.id # 0 => p.debtor.id \in 1..Len(orgs)
  BY <1>3, SidesAreThere
<1> HIDE DEF p, row
<1>5. /\ entered \in Seq(Organisation) /\ Distinct(entered)
      /\ Grows(orgs, entered) /\ issuer \in 1..Len(entered)
  BY <1>3, <1>4, EnterDistinct, EnterGrows DEF NetworkInv, TradeAlone
<1> HIDE DEF entered, issuer
<1>6. Len(orgs) \in Nat /\ Len(entered) \in Nat /\ Len(orgs) <= Len(entered)
  BY <1>5 DEF NetworkInv, Grows
<1>7. /\ both \in Seq(Organisation) /\ Distinct(both)
      /\ Grows(entered, both) /\ debtor \in 1..Len(both)
  BY <1>3, <1>4, <1>5, <1>6, EnterDistinct, EnterGrows
<1> HIDE DEF both, debtor
<1>8. Len(both) \in Nat /\ issuer \in 1..Len(both)
  BY <1>5, <1>6, <1>7 DEF Grows
<1>9. Distinct(orgs')
  BY <1>1, <1>7, <1>8, PersonasSameParties, SamePartiesDistinct
<1>10. Tells(row, Append(history[i], event))
  <2>1. history[i] = <<>>
    BY <1>1 DEF TradeAlone, Tells
  <2> DEFINE h == Append(history[i], event)
  <2>2. h = <<event>> /\ Len(h) = 1 /\ h[1] = event
    BY <2>1
  <2>3. event.to = "UPLOADED"
    OBVIOUS
  <2> HIDE DEF h, event
  <2>4. /\ Walks(h) /\ h[Len(h)].to = "UPLOADED"
        /\ Passes(h, "PAID") = FALSE /\ Passes(h, "FINANCED") = FALSE
    BY <2>2, <2>3 DEF Walks, Passes
  <2>5. row.settled = FALSE /\ row.transferred = FALSE
    BY <1>2
  <2> QED
    BY <1>2, <2>4, <2>5 DEF Tells, h
<1> DEFINE h == Append(history[i], event)
<1> HIDE DEF event, h
<1>11. ASSUME NEW x \in Invoices PROVE Tells(rows'[x], history'[x])
  <2>1. CASE x = i
    BY <1>1, <1>10, <2>1 DEF NetworkInv, GraphInv, Ledger
  <2>2. CASE x # i
    <3>1. rows'[x] = rows[x] /\ history'[x] = history[x]
      BY <1>1, <2>2 DEF NetworkInv, GraphInv, Ledger
    <3> QED
      BY <3>1 DEF TradeAlone
  <2> QED
    BY <2>1, <2>2
<1>12. ASSUME NEW q \in Clerks PROVE InvoiceProposes(pending[q])'
  <2>1. pending'[q] = Trades!Idle
    BY <1>1 DEF NetworkInv
  <2> QED
    BY <2>1 DEF InvoiceProposes, Trades!Idle
<1> QED
  BY <1>9, <1>11, <1>12 DEF TradeAlone, Tells, Walks, Passes

LEMMA TradeStepAlone ==
    ASSUME NetworkInv, GraphInv, TradeAlone, NEW r \in Clerks, Trades!Step(r),
           \A q \in Clerks \ {r} : pending[q] = Trades!Idle
    PROVE  TradeAlone'
<1>1. CASE (Trades!Compare(r, {}) \/ Trades!Abort(r)) /\ UNCHANGED Trades!tradeVars
  <2>1. orgs' = orgs /\ history' = history
    BY <1>1 DEF Trades!tradeVars
  <2>2. CASE Trades!Abort(r)
    <3>1. pending' = [pending EXCEPT ![r] = Trades!Idle] /\ rows' = rows
      BY <2>2 DEF Trades!Abort
    <3> QED
      BY <2>1, <3>1, InvoiceIdleProposes, TradeAloneQuiet
  <2> QED
    BY <1>1, <2>1, <2>2, InvoiceCompareAlone
<1>2. ASSUME NEW side \in Trades!Sides,
             \/ Trades!FileInvoice(r, side)
             \/ \E number \in Numbers : Trades!ResolveDebtor(r, side, number)
      PROVE  TradeAlone'
  BY <1>2, FileAlone, DebtorAlone
<1> QED
  BY <1>1, <1>2, InvoiceAlone, UpdateAlone, StatusAlone DEF Trades!Step

\* A relationship gives personas, which are no part of who an organisation is.
LEMMA TradeOtherAlone ==
    ASSUME NetworkInv, GraphInv, TradeAlone, Trades!Other
    PROVE  TradeAlone'
<1>1. rows' = rows /\ pending' = pending /\ history' = history
  BY GraphOtherKeeps
<1>2. orgs' = orgs \/ SameParties(orgs, orgs')
  <2>1. ASSUME NEW from \in Trades!OrgIds, NEW to \in Trades!OrgIds, Trades!Relate(from, to)
        PROVE  SameParties(orgs, orgs')
    BY <2>1, PersonasSameParties DEF Trades!Relate, Trades!OrgIds, NetworkInv
  <2>2. ASSUME NEW e \in untold,
               Trades!UpsertInvoice(e[1], e[2]) \/ Trades!MarkOnly(e[1], e[2])
        PROVE  orgs' = orgs
    BY <2>2 DEF Trades!UpsertInvoice, Trades!MarkOnly
  <2> QED
    BY <2>1, <2>2 DEF Trades!Other
<1>3. CASE orgs' = orgs
  BY <1>1, <1>3 DEF TradeAlone, InvoiceProposes, Left
<1>4. CASE SameParties(orgs, orgs')
  <2>1. Distinct(orgs')
    BY <1>4, SamePartiesDistinct DEF NetworkInv, TradeAlone
  <2>2. ASSUME NEW r \in Clerks PROVE InvoiceProposes(pending[r])'
    <3> DEFINE p == pending[r]
    <3>1. InvoiceProposes(p) /\ Flight(r)
      BY DEF TradeAlone, NetworkInv
    <3>2. p.op \in {"debtor", "file"} => New(orgs', p.issuer)
      BY <1>4, <3>1, SamePartiesNew DEF NetworkInv, InvoiceProposes
    <3>3. ASSUME p.op = "file" PROVE New(Trades!Enter(orgs', p.issuer), p.debtor)
      <4>1. /\ New(Trades!Enter(orgs, p.issuer), p.debtor) /\ p.issuer \in Trades!Sides
        BY <3>1, <3>3 DEF InvoiceProposes, Flight
      <4>2. /\ Trades!Enter(orgs, p.issuer) \in Seq(Organisation)
            /\ SameParties(Trades!Enter(orgs, p.issuer), Trades!Enter(orgs', p.issuer))
        BY <1>4, <4>1, SidesAreThere, EnterSameParties DEF NetworkInv
      <4> QED
        BY <4>1, <4>2, SamePartiesNew
    <3>4. p.op \in {"save", "write"} => Follows(p, rows'[p.id], Left(p)')
      BY <1>1, <3>1 DEF InvoiceProposes, Left
    <3>5. pending'[r] = p
      BY <1>1
    <3> QED
      BY <3>2, <3>3, <3>4, <3>5 DEF InvoiceProposes, Left, Follows, New, Trades!Enter
  <2> QED
    BY <1>1, <2>1, <2>2 DEF TradeAlone
<1> QED
  BY <1>2, <1>3, <1>4

LEMMA TradeAloneInit == Trades!Init => TradeAlone
<1> SUFFICES ASSUME Trades!Init PROVE TradeAlone
  OBVIOUS
<1>1. \A r \in Clerks : InvoiceProposes(pending[r])
  BY InvoiceIdleProposes DEF Trades!Init
<1>2. Tells(Trades!AbsentRow, <<>>)
  BY DEF Tells, Trades!AbsentRow
<1>3. CASE /\ Trades!Empty /\ rows = [i \in Invoices |-> Trades!AbsentRow]
           /\ orgs \in {<<>>, <<Trades!Org(Trades!AName, NONE)>>}
  <2>1. Distinct(orgs)
    BY <1>3 DEF Distinct
  <2>2. \A i \in Invoices : rows[i] = Trades!AbsentRow /\ history[i] = <<>>
    BY <1>3 DEF Trades!Empty
  <2> QED
    BY <1>1, <1>2, <2>1, <2>2 DEF TradeAlone
<1>4. ASSUME NEW i \in Invoices, NEW a, NEW b, NEW number, NEW factoring \in BOOLEAN, a # b,
             Trades!Approved(i, a, b, number, factoring)
      PROVE  TradeAlone
  <2> DEFINE first == [Trades!Org(a, NONE) EXCEPT !.supplier = TRUE]
             second == [Trades!Org(b, NONE) EXCEPT !.buyer = TRUE]
             row == [Trades!Filing(1, 2, number, factoring, FALSE) EXCEPT
                       !.status = "APPROVED_FOR_FINANCE"]
  <2>1. /\ first.name = a /\ second.name = b
        /\ first.registration = NONE /\ second.registration = NONE
    BY DEF Trades!Org
  <2>2. /\ orgs = <<first, second>>
        /\ rows = [x \in Invoices |-> IF x = i THEN row ELSE Trades!AbsentRow]
        /\ history = [x \in Invoices |-> IF x = i THEN Trades!Approval ELSE <<>>]
    BY <1>4 DEF Trades!Approved
  <2>3. Distinct(orgs)
    <3> HIDE DEF first, second
    <3>1. DOMAIN orgs = 1..2 /\ orgs[1] = first /\ orgs[2] = second
      BY <2>2
    <3> QED
      BY <1>4, <2>1, <3>1 DEF Distinct
  <2>4. Tells(row, Trades!Approval)
    <3>1. row.status = "APPROVED_FOR_FINANCE" /\ row.settled = FALSE /\ row.transferred = FALSE
      BY DEF Trades!Filing, Trades!AbsentRow
    <3> DEFINE h == Trades!Approval
    <3>2. /\ Len(h) = 3 /\ h[1].to = "UPLOADED" /\ h[2].to = "VALIDATED"
          /\ h[3].to = "APPROVED_FOR_FINANCE"
          /\ h[2].from = "UPLOADED" /\ h[3].from = "VALIDATED"
      BY DEF Trades!Approval
    <3>3. /\ "VALIDATED" \in Trades!Allowed["UPLOADED"]
          /\ "APPROVED_FOR_FINANCE" \in Trades!Allowed["VALIDATED"]
      BY DEF Trades!Allowed
    <3> HIDE DEF h, row
    <3>4. Walks(h)
      <4>1. \A n \in 2..3 : n = 2 \/ n = 3
        OBVIOUS
      <4> QED
        BY <3>2, <3>3, <4>1 DEF Walks
    <3>5. Passes(h, "PAID") = FALSE /\ Passes(h, "FINANCED") = FALSE
      <4>1. \A n \in 1..3 : n = 1 \/ n = 2 \/ n = 3
        OBVIOUS
      <4> QED
        BY <3>2, <4>1 DEF Passes
    <3> QED
      BY <3>1, <3>2, <3>4, <3>5 DEF Tells, h
  <2> HIDE DEF row
  <2>5. \A x \in Invoices : Tells(rows[x], history[x])
    BY <1>2, <2>2, <2>4
  <2> QED
    BY <1>1, <2>3, <2>5 DEF TradeAlone
<1> QED
  BY <1>3, <1>4 DEF Trades!Init, Trades!FirstId
\* Organisations are entered once, invoices filed once, their life is told, and
\* the graph shows what it was told last.
LEMMA TradeAgrees ==
    NetworkInv /\ GraphInv /\ TradeAlone => Trades!FiledOnce /\ Trades!LifeIsTold
<1> SUFFICES ASSUME NetworkInv, GraphInv, TradeAlone
             PROVE  Trades!FiledOnce /\ Trades!LifeIsTold
  OBVIOUS
<1>1. DOMAIN orgs = Trades!OrgIds
  BY DEF NetworkInv, Trades!OrgIds
<1>2. ASSUME NEW i \in Trades!Live, NEW j \in Trades!Live, i # j
      PROVE  \/ orgs[rows[i].issuer].name # orgs[rows[j].issuer].name
             \/ rows[i].number # rows[j].number
  <2>1. /\ rows[i].issuer \in Trades!OrgIds /\ rows[j].issuer \in Trades!OrgIds
    BY DEF NetworkInv, Backed, Trades!Live
  <2>2. rows[i].issuer # rows[j].issuer \/ rows[i].number # rows[j].number
    BY <1>2 DEF GraphInv, NumbersDiffer
  <2> QED
    BY <1>1, <2>1, <2>2 DEF TradeAlone, Distinct
<1>3. Trades!FiledOnce
  BY <1>1, <1>2 DEF TradeAlone, Distinct, Trades!FiledOnce
<1>4. ASSUME NEW i \in Trades!Live
      PROVE  /\ \A n \in 2..Len(history[i]) :
                  /\ history[i][n].from = history[i][n - 1].to
                  /\ history[i][n].to \in Trades!Allowed[history[i][n].from]
             /\ rows[i].status = history[i][Len(history[i])].to
             /\ rows[i].settled <=> "PAID" \in Trades!Told(i)
             /\ rows[i].transferred <=> rows[i].factoring /\ "FINANCED" \in Trades!Told(i)
  <2>1. Tells(rows[i], history[i]) /\ rows[i].status # "ABSENT"
    BY DEF TradeAlone, Trades!Live
  <2>2. \A s : Passes(history[i], s) <=> s \in Trades!Told(i)
    BY DEF Passes, Trades!Told
  <2> QED
    BY <2>1, <2>2 DEF Tells, Walks
<1>5. Trades!LifeIsTold
  BY <1>4 DEF Trades!LifeIsTold
<1> QED
  BY <1>3, <1>5

LEMMA GraphCatchesUp == GraphInv /\ TradeAlone => Trades!GraphFollows
<1> SUFFICES ASSUME GraphInv, TradeAlone, NEW i \in Trades!Live,
                    \A e \in untold : e[1] # i, i \notin forgotten, node[i] = farthest[i]
             PROVE  node[i] > 0 /\ history[i][node[i]].to = rows[i].status
  BY DEF Trades!GraphFollows
<1>1. /\ Recounted(i) /\ history[i] \in Seq(Event) /\ node[i] \in Nat /\ farthest[i] \in Nat
      /\ i \in Invoices /\ rows[i].status # "ABSENT"
  BY DEF GraphInv, Ledger, Trades!Live
<1> DEFINE last == Len(history[i])
<1>2. /\ last \in Nat /\ last > 0 /\ farthest[i] <= last
      /\ \A n \in 1..last : <<i, n>> \in untold \/ n <= farthest[i]
  BY <1>1 DEF Recounted
<1> HIDE DEF last
<1>3. last <= farthest[i]
  <2>1. <<i, last>> \notin untold
    OBVIOUS
  <2>2. last \in 1..last
    BY <1>2
  <2> QED
    BY <1>2, <2>1, <2>2
<1>4. node[i] = last
  BY <1>1, <1>2, <1>3
<1> QED
  BY <1>1, <1>2, <1>4 DEF TradeAlone, Tells, last
-----------------------------------------------------------------------------
(* The journey: what its parts keep, together.                               *)

\* What a run may leave behind or lose, beside the invariants of the windows
\* and the documents.
WindowTyped ==
    /\ messages \subseteq Window!Message
    /\ lapsedBy \in Window!Windows \cup {0}
    /\ repeated \cup dropped \subseteq Window!Windows

FaultsTyped == abandoned \subseteq Docs /\ faults \in 0..MaxFaults

LEMMA MsgType ==
    ASSUME NEW w \in Window!Windows, NEW kind \in {"START", "CANCEL", "BREACHED"}
    PROVE  Window!Msg(kind, w) \in Window!Message
BY DEF Window!Msg, Window!Message

LEMMA WindowTypedKeeps ==
    ASSUME WindowInv, WindowTyped, Window!Next
    PROVE  WindowTyped'
<1>1. window \in Window!Windows
  BY DEF WindowInv
<1>2. CASE Window!Answer
  BY <1>1, <1>2, MsgType DEF WindowTyped, Window!Answer, Window!faults
<1>3. CASE Window!Refresh
  <2>1. window + 1 \in Window!Windows
    BY <1>1, <1>3, JourneyAssumption DEF Window!Windows, Window!Refresh
  <2> QED
    BY <1>3, <2>1, MsgType DEF WindowTyped, Window!Refresh, Window!faults
<1>4. CASE Window!Close
  BY <1>4 DEF WindowTyped, Window!Close, Window!faults
<1>5. ASSUME NEW w \in Window!Windows, Window!Handled(w) PROVE WindowTyped'
  BY <1>5 DEF WindowTyped, Window!Handled, Window!OnStart, Window!OnCancel, Window!OnBreach,
              Window!Lapse, Window!faults
<1>6. ASSUME NEW w \in Window!Windows, Window!Breach(w) PROVE WindowTyped'
  BY <1>6, MsgType DEF WindowTyped, Window!Breach, Window!faults
<1>7. ASSUME NEW w \in Window!Windows,
             Window!OnBreachUnrecorded(w) \/ Window!OnBreachFails(w)
      PROVE  WindowTyped'
  BY <1>7 DEF WindowTyped, Window!OnBreachUnrecorded, Window!OnBreachFails, Window!Lapse
<1> QED
  BY <1>2, <1>3, <1>4, <1>5, <1>6, <1>7 DEF Window!Next

LEMMA FaultsTypedKeeps ==
    ASSUME FilesInv, FaultsTyped, FileStep
    PROVE  FaultsTyped'
<1>1. ASSUME NEW i \in Instances, Files!Die(i) PROVE FaultsTyped'
  <2>1. /\ faults < MaxFaults /\ faults' = faults + 1
        /\ abandoned' = IF cron[i].phase = "read" THEN abandoned \cup {Files!InHand(i)}
                        ELSE abandoned
    BY <1>1 DEF Files!Die
  <2>2. cron[i].phase = "read" => Files!InHand(i) \in Docs
    BY InHandIsInBatch
  <2>3. MaxFaults \in Nat
    BY JourneyAssumption
  <2>4. faults' \in 0..MaxFaults
    BY <2>1, <2>3 DEF FaultsTyped
  <2> DEFINE d == Files!InHand(i)
             reading == cron[i].phase = "read"
  <2>5. abandoned' = IF reading THEN abandoned \cup {d} ELSE abandoned
    BY <2>1
  <2>6. reading => d \in Docs
    BY <2>2
  <2> HIDE DEF d, reading
  <2> QED
    BY <2>4, <2>5, <2>6 DEF FaultsTyped
<1>2. ASSUME NEW i \in Instances, Files!Run(i) PROVE FaultsTyped'
  BY <1>2 DEF FaultsTyped, Files!Run, Files!Wake, Files!Claim, Files!Extract, Files!Fail,
              Files!Ends
<1>3. ASSUME NEW d \in Docs, NEW class \in Files!Classes, Files!Upload(d, class)
      PROVE  FaultsTyped'
  BY <1>3 DEF FaultsTyped, Files!Upload
<1>4. ASSUME NEW r \in Requests, Files!Request(r) PROVE FaultsTyped'
  BY <1>4 DEF FaultsTyped, Files!Request, Files!Commit, Files!Abort, Files!Begin,
              Files!ApplyValidationData, Files!ClearDiscrepancies, Files!ReconcileInvoice,
              Files!Archive
<1> QED
  BY <1>1, <1>2, <1>3, <1>4 DEF FileStep, Files!Other

LEMMA WindowTypes == WindowInv /\ WindowTyped => Window!TypeOK
BY DEF WindowInv, WindowTyped, Window!TypeOK

LEMMA FilesTypes == FilesInv /\ FaultsTyped => Files!TypeOK
<1> SUFFICES ASSUME FilesInv, FaultsTyped PROVE Files!TypeOK
  OBVIOUS
<1>1. Job \subseteq {Files!NoJob} \cup [to : Files!Status, doc : Docs, submits : {0, 1}]
  BY DEF Job, Files!Status
<1> QED
  BY <1>1 DEF FilesInv, FilesTyped, FaultsTyped, Files!TypeOK

\* What holds of each part, and what is added where its requests take turns.
CardsHold == CardInv /\ (alone => CardAlone)
QueueHolds == QueueInv /\ (alone => QueueAlone)
TradeHolds == NetworkInv /\ GraphInv /\ (alone => TradeAlone)

LEMMA CardsHoldOn ==
    ASSUME CardsHold, alone' = alone, CardStep
    PROVE  CardsHold'
<1>1. CASE Cards!Other
  BY <1>1, CardOtherKeeps, CardOtherAlone DEF CardsHold
<1>2. ASSUME NEW r \in Requests, Turn(r), Cards!Step(r) PROVE CardsHold'
  <2>1. CardInv'
    BY <1>2, CardStepKeeps DEF CardsHold
  <2>2. ASSUME alone PROVE CardAlone'
    <3>1. DOMAIN pending = Requests
      BY DEF CardsHold, CardInv, CardTable
    <3>2. \A q \in Requests \ {r} : pending[q] = Cards!Idle
      BY <1>2, <2>2, <3>1 DEF Turn, Idle, Cards!Idle
    <3> QED
      BY <1>2, <2>2, <3>2, CardStepAlone DEF CardsHold
  <2> QED
    BY <2>1, <2>2 DEF CardsHold
<1> QED
  BY <1>1, <1>2 DEF CardStep

LEMMA QueueHoldsOn ==
    ASSUME QueueHolds, alone' = alone, QueueStep
    PROVE  QueueHolds'
<1>1. QueueInv'
  BY QueueStepKeeps DEF QueueHolds
<1>2. CASE Queue!Other
  BY <1>1, <1>2, QueueOtherAlone DEF QueueHolds
<1>3. ASSUME NEW r \in Requests, Turn(r), Queue!Step(r) PROVE QueueHolds'
  <2>1. ASSUME alone PROVE QueueAlone'
    <3>1. DOMAIN pending = Requests
      BY DEF QueueHolds, QueueInv
    <3>2. \A q \in Requests \ {r} : pending[q] = Queue!Idle
      BY <1>3, <2>1, <3>1 DEF Turn, Idle, Queue!Idle
    <3> QED
      BY <1>3, <2>1, <3>2, QueueStepAlone DEF QueueHolds
  <2> QED
    BY <1>1, <2>1 DEF QueueHolds
<1> QED
  BY <1>2, <1>3 DEF QueueStep

LEMMA TradeHoldsOn ==
    ASSUME TradeHolds, alone' = alone, TradeStep
    PROVE  TradeHolds'
<1>1. NetworkInv'
  BY TradeKeeps DEF TradeHolds
<1>2. CASE Trades!Other
  BY <1>1, <1>2, GraphOtherKeeps, TradeOtherAlone DEF TradeHolds
<1>3. ASSUME NEW r \in Clerks, Turn(r), Trades!Step(r) PROVE TradeHolds'
  <2>1. GraphInv'
    BY <1>3, GraphStepKeeps DEF TradeHolds
  <2>2. ASSUME alone PROVE TradeAlone'
    <3>1. DOMAIN pending = Clerks
      BY DEF TradeHolds, NetworkInv
    <3>2. \A q \in Clerks \ {r} : pending[q] = Trades!Idle
      BY <1>3, <2>2, <3>1 DEF Turn, Idle, Trades!Idle
    <3> QED
      BY <1>3, <2>2, <3>2, TradeStepAlone DEF TradeHolds
  <2> QED
    BY <1>1, <2>1, <2>2 DEF TradeHolds
<1> QED
  BY <1>2, <1>3 DEF TradeStep

LEMMA CardsHoldStill ==
    ASSUME CardsHold, alone' = alone, UNCHANGED deskVars, UNCHANGED cards
    PROVE  CardsHold'
<1>1. CardInv'
  BY DEF CardsHold, CardInv, CardTable, Topic, CardTxOK, Archives, Publishes, deskVars, cards
<1>2. ASSUME alone PROVE CardAlone'
  BY <1>2 DEF CardsHold, CardAlone, CardProposes, LastAnnounced, Left, Archives, Publishes,
              Cards!OnePublished, Cards!AssignedAsAnnounced, Cards!IsPublished, deskVars, cards
<1> QED
  BY <1>1, <1>2 DEF CardsHold

LEMMA QueueHoldsStill ==
    ASSUME QueueHolds, alone' = alone, UNCHANGED deskVars, UNCHANGED queue
    PROVE  QueueHolds'
<1>1. QueueInv'
  BY DEF QueueHolds, QueueInv, deskVars, queue
<1>2. ASSUME alone PROVE QueueAlone'
  <2>1. FollowsBehind'
    BY <1>2, FollowsStays DEF QueueHolds, QueueAlone, deskVars, queue
  <2> QED
    BY <1>2, <2>1 DEF QueueHolds, QueueAlone, Saved, Consumes, Bystander, Left, deskVars, queue
<1> QED
  BY <1>1, <1>2 DEF QueueHolds

LEMMA TradeHoldsStill ==
    ASSUME TradeHolds, alone' = alone, UNCHANGED deskVars, UNCHANGED trade
    PROVE  TradeHolds'
<1>1. NetworkInv'
  BY NetworkStays DEF TradeHolds, deskVars, trade
<1>2. GraphInv'
  <2>1. UNCHANGED told
    BY DEF trade, told
  <2>2. Ledger'
    BY <2>1, LedgerStays DEF TradeHolds, GraphInv, deskVars
  <2> QED
    BY <2>2 DEF TradeHolds, GraphInv, NumbersDiffer, Trades!Live, InvoiceTx, deskVars
<1>3. ASSUME alone PROVE TradeAlone'
  BY <1>3 DEF TradeHolds, TradeAlone, InvoiceProposes, Left, deskVars, trade
<1> QED
  BY <1>1, <1>2, <1>3 DEF TradeHolds

JourneyInv ==
    /\ part \in PartNames /\ alone \in BOOLEAN
    /\ part = "cards" => CardsHold
    /\ part = "queue" => QueueHolds
    /\ part = "trade" => TradeHolds
    /\ WindowInv /\ WindowTyped
    /\ FilesInv /\ FaultsTyped

LEMMA JourneyInit == Init => JourneyInv
<1> SUFFICES ASSUME Init PROVE JourneyInv
  OBVIOUS
<1>1. part \in PartNames /\ alone \in BOOLEAN
  BY JourneyAssumption DEF Init
<1>2. WindowInv /\ FilesInv
  BY WindowInit, FilesInit DEF Init
<1>3. WindowTyped
  <2>1. 1 \in Window!Windows
    BY JourneyAssumption DEF Window!Windows
  <2> QED
    BY <2>1, MsgType DEF Init, Window!Init, WindowTyped
<1>4. FaultsTyped
  BY JourneyAssumption DEF Init, Files!Init, FaultsTyped
<1>5. part = "cards" => CardsHold
  BY CardsInit, CardAloneInit DEF Init, CardsHold
<1>6. part = "queue" => QueueHolds
  BY QueueInit, QueueAloneInit DEF Init, QueueHolds
<1>7. part = "trade" => TradeHolds
  BY TradeInit, GraphInit, TradeAloneInit DEF Init, TradeHolds
<1> QED
  BY <1>1, <1>2, <1>3, <1>4, <1>5, <1>6, <1>7 DEF JourneyInv

LEMMA JourneyKeeps == JourneyInv /\ [Next]_vars => JourneyInv'
<1> SUFFICES ASSUME JourneyInv, [Next]_vars PROVE JourneyInv'
  OBVIOUS
<1>1. part' = part /\ alone' = alone
  BY DEF Next, vars
<1>2. WindowInv' /\ WindowTyped'
  <2>1. CASE Window!Next
    BY <2>1, WindowNext, WindowTypedKeeps DEF JourneyInv
  <2>2. CASE UNCHANGED sent
    BY <2>2, WindowStays DEF JourneyInv, WindowTyped, sent
  <2> QED
    BY <2>1, <2>2 DEF Next, vars
<1>3. FilesInv' /\ FaultsTyped'
  <2>1. CASE FileStep
    <3>1. FilesInv'
      BY <1>1, <2>1, FilesOther, FilesRequest DEF FileStep, JourneyInv
    <3> QED
      BY <2>1, <3>1, FaultsTypedKeeps DEF JourneyInv
  <2>2. CASE UNCHANGED files
    BY <1>1, <2>2, FilesStay DEF JourneyInv, FaultsTyped, files
  <2> QED
    BY <2>1, <2>2 DEF Next, vars
<1>4. part = "cards" => CardsHold'
  <2>1. part = "cards" => CardStep \/ (UNCHANGED deskVars /\ UNCHANGED cards)
    BY DEF Next, vars
  <2> QED
    BY <1>1, <2>1, CardsHoldOn, CardsHoldStill DEF JourneyInv
<1>5. part = "queue" => QueueHolds'
  <2>1. part = "queue" => QueueStep \/ (UNCHANGED deskVars /\ UNCHANGED queue)
    BY DEF Next, vars
  <2> QED
    BY <1>1, <2>1, QueueHoldsOn, QueueHoldsStill DEF JourneyInv
<1>6. part = "trade" => TradeHolds'
  <2>1. part = "trade" => TradeStep \/ (UNCHANGED deskVars /\ UNCHANGED trade)
    BY DEF Next, vars
  <2> QED
    BY <1>1, <2>1, TradeHoldsOn, TradeHoldsStill DEF JourneyInv
<1> QED
  BY <1>1, <1>2, <1>3, <1>4, <1>5, <1>6 DEF JourneyInv

\* What is saved, announced, mirrored, queued, filed and told is of its type,
\* whatever part is at work and however its requests overlap.
THEOREM TypesHold == Spec => []TypeOK
<1>1. JourneyInv => TypeOK
  <2> SUFFICES ASSUME JourneyInv PROVE TypeOK
    OBVIOUS
  <2>1. part \in {"cards", "queue", "window", "files", "trade"}
    BY DEF JourneyInv, PartNames
  <2>2. part = "cards" => Cards!TypeOK
    BY CardTypes DEF JourneyInv, CardsHold
  <2>3. part = "queue" => Queue!TypeOK
    BY QueueTypes DEF JourneyInv, QueueHolds
  <2>4. Window!TypeOK /\ Files!TypeOK
    BY WindowTypes, FilesTypes DEF JourneyInv
  <2>5. part = "trade" => Trades!TypeOK
    BY TradeTypes DEF JourneyInv, TradeHolds
  <2> QED
    BY <2>1, <2>2, <2>3, <2>4, <2>5 DEF TypeOK
<1> QED
  BY <1>1, JourneyInit, JourneyKeeps, PTL DEF Spec

\* Where requests take turns, one card of a product is published and what a
\* client is assigned was announced, an organisation is entered and an invoice
\* filed once, and what is told of an invoice is one walk that ends at its row.
THEOREM RowsAgreeInTurn == Spec => []RowsAgree
<1>1. JourneyInv => RowsAgree
  <2> SUFFICES ASSUME JourneyInv PROVE RowsAgree
    OBVIOUS
  <2>1. part = "cards" /\ alone => Cards!OnePublished /\ Cards!AssignedAsAnnounced
    BY DEF JourneyInv, CardsHold, CardAlone
  <2>2. part = "trade" => Trades!NetworkIsBacked
    BY DEF JourneyInv, TradeHolds, NetworkInv, Backed, Trades!NetworkIsBacked, Trades!Live
  <2>3. part = "trade" /\ alone => Trades!FiledOnce /\ Trades!LifeIsTold
    BY TradeAgrees DEF JourneyInv, TradeHolds
  <2> QED
    BY <2>1, <2>2, <2>3 DEF RowsAgree
<1> QED
  BY <1>1, JourneyInit, JourneyKeeps, PTL DEF Spec

\* Where requests take turns, the mirror of the rate cards, the queue of
\* applicants and the graph of invoices show their source once the events are
\* handled, in whatever order, unless one was lost or overtook another.
THEOREM CopiesFollowInTurn == Spec => []CopiesFollow
<1>1. JourneyInv => CopiesFollow
  <2> SUFFICES ASSUME JourneyInv, alone PROVE CopiesFollow
    BY DEF CopiesFollow
  <2>1. part = "cards" => Cards!MirrorFollows
    BY CardMirrors DEF JourneyInv, CardsHold
  <2>2. part = "queue" => Queue!ProjectionFollows
    BY QueueCatchesUp DEF JourneyInv, QueueHolds
  <2>3. part = "trade" => Trades!GraphFollows
    BY GraphCatchesUp DEF JourneyInv, TradeHolds
  <2> QED
    BY <2>1, <2>2, <2>3 DEF CopiesFollow
<1> QED
  BY <1>1, JourneyInit, JourneyKeeps, PTL DEF Spec
===============================================================================
