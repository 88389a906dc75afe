---------------------------- MODULE IntakeProjection ----------------------------
(***************************************************************************)
(* applicant_intake, the queue of new applicants that                      *)
(* apps/customer-relationship-management projects from APPLICATION_SCORED  *)
(* and CLIENT_ONBOARDED, and in which supervisors assign applicants.  One  *)
(* partition per topic keeps each topic in order; nothing orders the two.  *)
(* A row's id is its application's; the consumer is a request of the desk  *)
(* like the assignments, and may overlap them.                             *)
(***************************************************************************)
EXTENDS Desk, Sequences

CONSTANTS
    Consumer,   \* the request that is the Kafka consumer
    MaxTrouble  \* bound on handlers that fail or die

VARIABLES
    source,     \* application -> its state in apps/risk-operation
    scored,     \* APPLICATION_SCORED: <<application, verdict>> in order
    onboarded,  \* CLIENT_ONBOARDED: applications in order
    unrecorded, \* the consumer has saved and not yet recorded the message
    missed,     \* onboarded applications whose event found no row
    failed      \* applications an event of which was dropped

feed == <<source, scored, onboarded, unrecorded, missed, failed>>
vars == <<deskVars, feed>>

\* The verdicts of an application: none, its first one, its override.
Verdicts == 0..2

Row == [status : {"ABSENT", "PRESENT"}, verdict : Verdicts, client : BOOLEAN,
        rm : Persons \cup {NONE}]
Columns == {"status", "verdict", "client", "rm"}
AbsentRow == [status |-> "ABSENT", verdict |-> 0, client |-> FALSE, rm |-> NONE]

FeedInit ==
    /\ source = [a \in Ids |-> [verdict |-> 0, passed |-> FALSE, client |-> FALSE]]
    /\ scored = <<>> /\ onboarded = <<>> /\ unrecorded = "none"
    /\ missed = {} /\ failed = {}

Init == DeskInit(AbsentRow) /\ FeedInit

-----------------------------------------------------------------------------
(* apps/risk-operation: a verdict, an override of a failed one, an          *)
(* onboarding after a pass.  The relay sends the rows in order.             *)

Score(a, passed) ==
    /\ \/ source[a].verdict = 0
       \/ source[a].verdict = 1 /\ ~source[a].passed /\ passed
    /\ source' = [source EXCEPT ![a].verdict = @ + 1, ![a].passed = passed]
    /\ scored' = Append(scored, <<a, source[a].verdict + 1>>)
    /\ UNCHANGED <<deskVars, onboarded, unrecorded, missed, failed>>

Onboard(a) ==
    /\ source[a].passed /\ ~source[a].client
    /\ source' = [source EXCEPT ![a].client = TRUE]
    /\ onboarded' = Append(onboarded, a)
    /\ UNCHANGED <<deskVars, scored, unrecorded, missed, failed>>

-----------------------------------------------------------------------------
(* The consumer: it looks the row up, saves it, and records the message.    *)

\* Mutant: an event for a row that is there is skipped.
ScoredOnlyNew ==
    /\ scored # <<>> /\ unrecorded = "none"
    /\ LET a == Head(scored)[1] IN
         IF rows[a].status = "ABSENT"
         THEN Begin(Consumer, [op |-> "insert", recs |-> {}, entity |->
                [AbsentRow EXCEPT !.status = "PRESENT", !.verdict = Head(scored)[2]]])
         ELSE Begin(Consumer, Saving(a, rows[a], {}))
    /\ unrecorded' = "scored"
    /\ UNCHANGED <<source, scored, onboarded, missed, failed>>

HandleApplicationScored ==
    /\ scored # <<>> /\ unrecorded = "none"
    /\ LET a == Head(scored)[1] IN
         IF rows[a].status = "ABSENT"
         THEN Begin(Consumer, [op |-> "insert", recs |-> {}, entity |->
                [AbsentRow EXCEPT !.status = "PRESENT", !.verdict = Head(scored)[2]]])
         ELSE Begin(Consumer, Saving(a, [rows[a] EXCEPT !.verdict = Head(scored)[2]], {}))
    /\ unrecorded' = "scored"
    /\ UNCHANGED <<source, scored, onboarded, missed, failed>>

\* Without a row, or with a client's, there is nothing to save.
HandleClientOnboarded ==
    /\ onboarded # <<>> /\ unrecorded = "none" /\ pending[Consumer] = Idle
    /\ LET a == Head(onboarded) IN
         /\ IF rows[a].status = "PRESENT" /\ ~rows[a].client
            THEN Begin(Consumer, Saving(a, [rows[a] EXCEPT !.client = TRUE], {}))
            ELSE UNCHANGED deskVars
         /\ missed' = IF rows[a].status = "ABSENT" THEN missed \cup {a} ELSE missed
    /\ unrecorded' = "onboarded"
    /\ UNCHANGED <<source, scored, onboarded, failed>>

\* The message is done with.
Finish ==
    /\ scored' = IF unrecorded = "scored" THEN Tail(scored) ELSE scored
    /\ onboarded' = IF unrecorded = "onboarded" THEN Tail(onboarded) ELSE onboarded
    /\ unrecorded' = "none"
    /\ UNCHANGED <<source, missed>>

RecordProcessed ==
    /\ unrecorded # "none" /\ pending[Consumer] = Idle
    /\ Finish
    /\ UNCHANGED <<deskVars, failed>>

InHand == IF unrecorded = "scored" THEN Head(scored)[1] ELSE Head(onboarded)

\* The save fails and the handler's catch lets the message go.
ConsumerFails ==
    /\ unrecorded # "none" /\ pending[Consumer] # Idle
    /\ commits < MaxCommits /\ Cardinality(failed) < MaxTrouble
    /\ Finish
    /\ failed' = failed \cup {InHand}
    /\ pending' = [pending EXCEPT ![Consumer] = Idle]
    /\ UNCHANGED <<rows, records, commits>>

\* The process dies, before or after its save: the message comes again.
ConsumerCrash ==
    /\ unrecorded # "none"
    /\ unrecorded' = "none"
    /\ pending' = [pending EXCEPT ![Consumer] = Idle]
    /\ UNCHANGED <<rows, records, commits, source, scored, onboarded, missed, failed>>

-----------------------------------------------------------------------------
Assign(r, a, p) ==
    /\ rows[a].status = "PRESENT"
    /\ Begin(r, Saving(a, [rows[a] EXCEPT !.rm = p], {}))
    /\ UNCHANGED feed

Commit(r) ==
    /\ \E a \in Ids :
         /\ \/ pending[r].op = "insert" /\ a = Head(scored)[1]
            \/ pending[r].op = "write" /\ a = pending[r].id
         /\ rows' = Written(r, a)
    /\ commits < MaxCommits /\ commits' = commits + 1
    /\ pending' = [pending EXCEPT ![r] = Idle]
    /\ UNCHANGED <<records, feed>>

Step(r) ==
    \/ Compare(r, {}) /\ UNCHANGED feed
    \/ Commit(r)
    \/ r = Consumer /\ (HandleApplicationScored \/ HandleClientOnboarded)
    \/ r # Consumer /\ \E a \in Ids, p \in Persons : Assign(r, a, p)
    \/ r # Consumer /\ Abort(r) /\ UNCHANGED feed

Other ==
    \/ RecordProcessed \/ ConsumerFails \/ ConsumerCrash
    \/ \E a \in Ids : Onboard(a) \/ \E passed \in BOOLEAN : Score(a, passed)

Next == Other \/ \E r \in Requests : Step(r)

Spec == Init /\ [][Next]_vars

-----------------------------------------------------------------------------
\* Every variable holds a value the code can give it.
TypeOK ==
    /\ rows \in [Ids -> Row]
    /\ pending \in [Requests -> Transactions(Row, Row, {}, Columns)]
    /\ source \in [Ids -> [verdict : Verdicts, passed : BOOLEAN, client : BOOLEAN]]
    /\ scored \in Seq(Ids \X Verdicts) /\ onboarded \in Seq(Ids)
    /\ unrecorded \in {"none", "scored", "onboarded"}
    /\ missed \cup failed \subseteq Ids

\* Once both topics are empty, a row shows the last verdict of its application,
\* and its client mark unless CLIENT_ONBOARDED came before the row did: however
\* often the consumer dies, unless a handler failed or an assignment overlapped.
Caught(a) ==
    /\ rows[a].verdict = source[a].verdict
    /\ rows[a].client => source[a].client
    /\ source[a].client /\ a \notin missed => rows[a].client

ProjectionFollows ==
    scored = <<>> /\ onboarded = <<>> /\ (\A r \in Requests : pending[r] = Idle) =>
        \A a \in Ids \ failed : Caught(a)

\* web-intake.service.ts: the queue is "a projection of APPLICATION_SCORED
\* events" and of CLIENT_ONBOARDED.
ProjectionIsFaithful ==
    scored = <<>> /\ onboarded = <<>> /\ (\A r \in Requests : pending[r] = Idle) =>
        \A a \in Ids : rows[a].client <=> source[a].client
=============================================================================
