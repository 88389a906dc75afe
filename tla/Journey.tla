-------------------------------- MODULE Journey --------------------------------
(***************************************************************************)
(* What surrounds an application's way from submission to contract, one    *)
(* part of it at work in a behaviour: the rate cards and their mirror, the *)
(* queue of applicants, the acceptance window of an offer, the documents,  *)
(* and the invoices and their graph.  Alone, requests are handled one at a *)
(* time; consumers, crons and the order of messages are as free as ever.   *)
(***************************************************************************)
EXTENDS Desk

CONSTANTS
    Parts,                        \* the parts of an instance
    Overlapping,                  \* those whose requests may overlap
    Params, Rated, CardCommits,   \* of RateCard
    Consumer, MaxTrouble, Applications, Managers, QueueCommits,
                                  \* of IntakeProjection
    MaxWindows, MaxFaults,        \* of AcceptanceWindow
    Docs, Instances, BatchSize,   \* of Documents, with MaxFaults
    Clerks, Names, Registrations, Numbers, Invoices, TradeCommits, MaxBehind
                                  \* of Trade

PartNames == {"cards", "queue", "window", "files", "trade"}

ASSUME JourneyAssumption ==
    /\ Parts \subseteq PartNames
    /\ MaxWindows \in Nat \ {0}
    /\ Docs \subseteq Nat /\ BatchSize \in Nat \ {0} /\ MaxFaults \in Nat
    /\ Applications \subseteq Ids /\ Managers \subseteq Persons
    /\ Consumer \in Requests /\ Clerks \subseteq Requests
    /\ Invoices \subseteq Ids /\ MaxBehind \in Nat /\ Names # {} /\ NONE \notin Names
    /\ CardCommits \in Nat /\ QueueCommits \in Nat /\ TradeCommits \in Nat

VARIABLES
    part, alone,
    product, active, published, wire, mirror, newest, lost, assignments,
    source, scored, onboarded, unrecorded, missed, failed,
    offer, window, timers, messages, lapsedBy, repeated, dropped,
    doc, cron, job, reads, submitted, abandoned, faults,
    orgs, network, history, untold, node, farthest, forgotten

Cards  == INSTANCE RateCard WITH MaxCommits <- CardCommits
Queue  == INSTANCE IntakeProjection WITH
              Ids <- Applications, Persons <- Managers, MaxCommits <- QueueCommits
Window == INSTANCE AcceptanceWindow
Files  == INSTANCE Documents
Trades == INSTANCE Trade WITH
              Ids <- Invoices, Requests <- Clerks, MaxCommits <- TradeCommits

\* A column that an entity leaves out holds none of the values of a column.
ASSUME ColumnsAssumption ==
    /\ UNDEFINED \notin Cards!Status \cup Trades!Status
    /\ UNDEFINED \notin BOOLEAN /\ UNDEFINED \notin Nat

cards  == <<product, active, published, wire, mirror, newest, lost, assignments>>
queue  == <<source, scored, onboarded, unrecorded, missed, failed>>
sent   == <<offer, window, timers, messages, lapsedBy, repeated, dropped>>
files  == <<doc, cron, job, reads, submitted, abandoned, faults>>
trade  == <<orgs, network, history, untold, node, farthest, forgotten>>

vars == <<part, alone, deskVars, cards, queue, sent, files, trade>>

Init ==
    /\ part \in Parts
    /\ alone \in {TRUE, part \notin Overlapping}
    /\ CASE part = "cards" -> Cards!Init
         [] part = "trade" -> Trades!Init
         [] OTHER -> Queue!Init
    /\ part # "cards" => Cards!CardInit
    /\ part \in {"cards", "trade"} => Queue!FeedInit
    /\ part # "trade" => Trades!NoTrade
    /\ Window!Init /\ Files!Init

Turn(r) ==
    alone => /\ \A q \in DOMAIN pending \ {r} : pending[q] = Idle
             /\ \A q \in Requests \ {r} : job[q] = Files!NoJob

CardStep  == Cards!Other \/ \E r \in Requests : Turn(r) /\ Cards!Step(r)
QueueStep == Queue!Other \/ \E r \in Requests : Turn(r) /\ Queue!Step(r)
FileStep  == Files!Other \/ \E r \in Requests : Turn(r) /\ Files!Request(r)
TradeStep == Trades!Other \/ \E r \in Clerks : Turn(r) /\ Trades!Step(r)

Next ==
    /\ UNCHANGED <<part, alone>>
    /\ \/ /\ part = "cards" /\ CardStep
          /\ UNCHANGED <<queue, sent, files, trade>>
       \/ /\ part = "queue" /\ QueueStep
          /\ UNCHANGED <<cards, sent, files, trade>>
       \/ /\ part = "window" /\ Window!Next
          /\ UNCHANGED <<deskVars, cards, queue, files, trade>>
       \/ /\ part = "files" /\ FileStep
          /\ UNCHANGED <<deskVars, cards, queue, sent, trade>>
       \/ /\ part = "trade" /\ TradeStep
          /\ UNCHANGED <<cards, queue, sent, files>>

\* Messages are delivered, crons run and what they call answers or fails.
Fairness ==
    /\ \A w \in 1..MaxWindows :
         /\ WF_sent(part = "window" /\ Window!OnStart(w))
         /\ WF_sent(part = "window" /\ Window!OnBreach(w))
         /\ WF_sent(part = "window" /\ Window!Breach(w))
    /\ \A i \in Instances : WF_files(part = "files" /\ Files!Run(i))

Spec == Init /\ [][Next]_vars /\ Fairness

-----------------------------------------------------------------------------
\* Every variable holds a value the code can give it.
TypeOK ==
    CASE part = "cards"  -> Cards!TypeOK
      [] part = "queue"  -> Queue!TypeOK
      [] part = "window" -> Window!TypeOK
      [] part = "files"  -> Files!TypeOK
      [] part = "trade"  -> Trades!TypeOK

\* Where requests are handled one at a time, one card of a product is published
\* and clients are assigned what was announced, and invoices are filed once and
\* told of as they live; the trade network holds whatever overlaps.
RowsAgree ==
    /\ part = "cards" /\ alone => Cards!OnePublished /\ Cards!AssignedAsAnnounced
    /\ part = "trade" => Trades!NetworkIsBacked
    /\ part = "trade" /\ alone => Trades!FiledOnce /\ Trades!LifeIsTold

\* The copies that events keep, the mirror of rate cards, the queue of
\* applicants and the graph of invoices, show their source once the events are
\* handled.
CopiesFollow ==
    alone => /\ part = "cards" => Cards!MirrorFollows
             /\ part = "queue" => Queue!ProjectionFollows
             /\ part = "trade" => Trades!GraphFollows

\* An offer lapses by its own window's deadline.
LapseIsOwn == Window!LapseIsOwn

\* No document is extracted twice, nor, by requests that do not overlap, an
\* invoice submitted twice.
ReadOnce == Files!ReadOnce /\ (alone => Files!SubmittedOnce)

\* No offer stays out and no document waits for ever.
WorkEnds ==
    /\ part = "window" => Window!WindowEnds
    /\ part = "files" => Files!EveryUploadIsRead

-----------------------------------------------------------------------------
(* What comments say, which overlapping requests or messages out of order    *)
(* break: see MCJourney_races.cfg.                                           *)

\* master-rate-card.entity.ts: "exactly one version per product is PUBLISHED at
\* a time".
OnePublished == part = "cards" => Cards!OnePublished

\* offers.controller.ts: the consumer "keeps the rate-card mirror fresh".
MirrorIsFresh == part = "cards" /\ alone => Cards!MirrorIsFresh

\* web-intake.service.ts: the queue is a projection of the events.
ProjectionIsFaithful == part = "queue" /\ alone => Queue!ProjectionIsFaithful

\* web-intake.service.ts: "assignment is the CRM-owned column here", the others
\* follow risk-operation whatever is assigned meanwhile.
AssignmentIsApart == part = "queue" => Queue!ProjectionFollows

\* offers.service.ts: refresh of a lapsed offer starts another acceptance
\* window, and only its own breach lapses the offer again.
WindowIsWhole == Window!WindowIsWhole

\* documents.service.ts: an invoice that is not "in the reconciliation queue" is
\* refused, so that it is submitted once.
SubmittedOnce == Files!SubmittedOnce

\* invoice-trade-network.service.ts: one organisation of a name, however requests
\* overlap; the code says that it does not give that guarantee.
FiledOnce == part = "trade" => Trades!FiledOnce

\* graph-sync.service.ts: "the graph-side equivalent of the processed_event
\* idempotency table", whose rows are written with the work they record.
SeenIsWritten == part = "trade" /\ alone => Trades!SeenIsWritten

\* invoice.service.ts: CLOSED and REJECTED are "terminal state".
TerminalStays == [][part = "trade" => Trades!TerminalStays]_vars

\* documents.service.ts: archived "is a metadata state".
ArchivedStays ==
    [][alone => \A d \in Docs : Files!Is(d, "ARCHIVED") => doc'[d].status = "ARCHIVED"]_vars
=============================================================================
