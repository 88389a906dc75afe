-------------------------------- MODULE RateCard --------------------------------
(***************************************************************************)
(* The rate cards of one product of apps/product-configurator, the         *)
(* assignments that snapshot them, and the mirror of the published card    *)
(* that apps/risk-operation keeps from RATE_CARD_PUBLISHED and takes the   *)
(* defaults of its offers from.  The topic has two partitions and its      *)
(* messages no key, so events are handled in any order.                    *)
(***************************************************************************)
EXTENDS Desk, Sequences

CONSTANTS
    Params,     \* the parameters a card can have
    Rated,      \* those with an interest rate
    MaxTrouble  \* bound on handlers that fail or die

VARIABLES
    product,      \* the product: not there, standard or bespoke
    active,       \* whether it is active
    published,    \* the RATE_CARD_PUBLISHED events, as recorded
    wire,         \* those of them the consumer has not finished with
    mirror,       \* rate_card_mirror: the event it was written from, 0 for none
    newest,       \* the newest event the mirror was ever written from
    lost,         \* events whose handler failed
    assignments   \* client_product_assignment

cardVars == <<product, active, published, wire, mirror, newest, lost, assignments>>
vars == <<deskVars, cardVars>>
topic == <<mirror, newest, lost>>

Status == {"ABSENT", "DRAFT", "PUBLISHED", "ARCHIVED"}
Row == [status : Status, version : Nat, params : Params \cup {NONE}]
Columns == {"status", "version", "params"}
AbsentRow == [status |-> "ABSENT", version |-> 0, params |-> NONE]

\* Audit rows: the action and the card it is about.
Record == [action : {"CREATE", "UPDATE", "PUBLISH", "ARCHIVE"}, card : Ids \cup {NONE}]
Audit(action, c) == {[action |-> action, card |-> c]}

Announced(version, params) == [version |-> version, params |-> params]

CardInit ==
    /\ product = "none" /\ active = TRUE
    /\ published = <<>> /\ wire = {} /\ mirror = 0 /\ newest = 0 /\ lost = {}
    /\ assignments = {}

Init == DeskInit(AbsentRow) /\ CardInit

\* RATE_CARD_PUBLISHED is recorded with the change it tells of.
Announce(event) ==
    /\ published' = Append(published, event)
    /\ wire' = wire \cup {Len(published) + 1}

-----------------------------------------------------------------------------
CreateStandard ==
    /\ product = "none"
    /\ product' = "standard"
    /\ UNCHANGED <<deskVars, active, published, wire, topic, assignments>>

\* Mutant: the mirror is not told of a bespoke card.
BespokeUnannounced(params) ==
    /\ product = "none" /\ product' = "bespoke"
    /\ rows' = [rows EXCEPT ![1] = [status |-> "PUBLISHED", version |-> 1,
                                    params |-> params]]
    /\ UNCHANGED <<records, pending, commits, active, published, wire, topic,
                   assignments>>

\* The product and its first card, published, in one transaction.
CreateBespoke(params) ==
    /\ product = "none" /\ product' = "bespoke"
    /\ rows' = [rows EXCEPT ![1] = [status |-> "PUBLISHED", version |-> 1,
                                    params |-> params]]
    /\ Announce(Announced(1, params))
    /\ UNCHANGED <<records, pending, commits, active, topic, assignments>>

\* ProductsService.update.
SetActive ==
    /\ product # "none"
    /\ active' = ~active
    /\ UNCHANGED <<deskVars, product, published, wire, topic, assignments>>

Latest == CHOOSE n \in {0} \cup {rows[c].version : c \in Ids} :
             \A c \in Ids : rows[c].version <= n

CreateDraft(r, params) ==
    /\ product # "none"
    /\ Begin(r, Inserting([status |-> "DRAFT", version |-> Latest + 1,
                           params |-> params], Audit("CREATE", NONE)))
    /\ UNCHANGED cardVars

\* Mutant: a published card can be edited.
UpdatePublished(r, c, params) ==
    /\ rows[c].status \in {"DRAFT", "PUBLISHED"}
    /\ Begin(r, Saving(c, [rows[c] EXCEPT !.params = params], Audit("UPDATE", c)))
    /\ UNCHANGED cardVars

UpdateDraft(r, c, params) ==
    /\ rows[c].status = "DRAFT"
    /\ Begin(r, Saving(c, [rows[c] EXCEPT !.params = params], Audit("UPDATE", c)))
    /\ UNCHANGED cardVars

IsPublished(c) == rows[c].status = "PUBLISHED"

\* Mutant: the card published before is left as it is.
PublishBeside(r, c) ==
    /\ rows[c].status = "DRAFT"
    /\ Begin(r, Saving(c, [rows[c] EXCEPT !.status = "PUBLISHED"], Audit("PUBLISH", c)))
    /\ UNCHANGED cardVars

\* The card found published, if there is one, is archived with it.
Publish(r, c) ==
    /\ rows[c].status = "DRAFT"
    /\ \E current \in SUBSET {x \in Ids : IsPublished(x)} :
         /\ Cardinality(current) = IF \E x \in Ids : IsPublished(x) THEN 1 ELSE 0
         /\ Begin(r, Saving(c, [rows[c] EXCEPT !.status = "PUBLISHED"],
                            Audit("PUBLISH", c)
                              \cup UNION {Audit("ARCHIVE", x) : x \in current}))
    /\ UNCHANGED cardVars

Recorded(r, action) == {c \in Ids : \E x \in pending[r].recs :
                                      x.action = action /\ x.card = c}

\* Unique constraint unique_product_version.
VersionsDiffer(table) ==
    \A c, d \in {x \in Ids : table[x].status # "ABSENT"} :
        table[c].version = table[d].version => c = d

Commit(r, c) ==
    /\ commits < MaxCommits
    /\ \/ pending[r].op = "insert" /\ c \in NextId
       \/ pending[r].op = "write" /\ c = pending[r].id
    /\ rows' = [x \in Ids |-> IF x \in Recorded(r, "ARCHIVE")
                              THEN [rows[x] EXCEPT !.status = "ARCHIVED"]
                              ELSE Written(r, c)[x]]
    /\ VersionsDiffer(rows')
    /\ IF Recorded(r, "PUBLISH") = {} THEN UNCHANGED <<published, wire>>
       ELSE Announce(Announced(rows'[c].version, rows'[c].params))
    /\ records' = [records EXCEPT ![c] = @ \cup pending[r].recs]
    /\ pending' = [pending EXCEPT ![r] = Idle]
    /\ commits' = commits + 1
    /\ UNCHANGED <<product, active, topic, assignments>>

\* AssignmentsService.create copies the card it finds published.
Assign(c) ==
    /\ product # "none" /\ active
    /\ IsPublished(c) /\ rows[c].params \in Rated
    /\ assignments' = assignments \cup {Announced(rows[c].version, rows[c].params)}
    /\ UNCHANGED <<deskVars, product, active, published, wire, topic>>

-----------------------------------------------------------------------------
(* The consumer in apps/risk-operation. *)

Upsert(e) ==
    /\ mirror' = e
    /\ newest' = IF e > newest THEN e ELSE newest
    /\ UNCHANGED <<deskVars, product, active, published, lost, assignments>>

UpsertMirror(e) == e \in wire /\ wire' = wire \ {e} /\ Upsert(e)

\* It dies between the mirror and processed_event: the message comes again.
UpsertAgain(e) ==
    /\ e \in wire /\ UNCHANGED wire
    /\ mirror # e
    /\ Upsert(e)

\* The upsert fails and the handler's catch lets the message go.
UpsertFails(e) ==
    /\ e \in wire /\ wire' = wire \ {e}
    /\ Cardinality(lost) < MaxTrouble
    /\ lost' = lost \cup {e}
    /\ UNCHANGED <<deskVars, product, active, published, mirror, newest, assignments>>

Handle == \E e \in wire : UpsertMirror(e) \/ UpsertAgain(e) \/ UpsertFails(e)

Step(r) ==
    \/ (Compare(r, {}) \/ Abort(r)) /\ UNCHANGED cardVars
    \/ \E c \in Ids : Commit(r, c) \/ Publish(r, c)
    \/ \E params \in Params :
         CreateDraft(r, params) \/ \E c \in Ids : UpdateDraft(r, c, params)

Other ==
    \/ CreateStandard \/ SetActive \/ Handle
    \/ \E params \in Params : CreateBespoke(params)
    \/ \E c \in Ids : Assign(c)

Next == Other \/ \E r \in Requests : Step(r)

Spec == Init /\ [][Next]_vars

-----------------------------------------------------------------------------
\* Every variable holds a value the code can give it.
TypeOK ==
    /\ rows \in [Ids -> Row]
    /\ records \in [Ids -> SUBSET Record]
    /\ pending \in [Requests -> Transactions(Row, Row, Record, Columns)]
    /\ commits \in Nat
    /\ product \in {"none", "standard", "bespoke"} /\ active \in BOOLEAN
    /\ published \in Seq([version : Nat, params : Params])
    /\ wire \cup lost \cup ({mirror, newest} \ {0}) \subseteq 1..Len(published)
    /\ assignments \subseteq [version : Nat, params : Params]

\* master-rate-card.entity.ts: "exactly one version per product is PUBLISHED at
\* a time".  It holds of requests that do not overlap, and of no others.
OnePublished == \A c, d \in Ids : IsPublished(c) /\ IsPublished(d) => c = d

\* What a client is assigned is what was announced under that version: it holds
\* of requests that do not overlap, as a published card is not edited.
AssignedAsAnnounced ==
    \A a \in assignments : \E e \in 1..Len(published) : published[e] = a

\* The mirror that offers take their defaults from holds the published card
\* once the topic is empty, unless an older event overtook a newer one or a
\* handler failed: of requests that do not overlap.
MirrorFollows ==
    wire = {} /\ lost = {} /\ mirror = newest =>
        \A c \in Ids : IsPublished(c) =>
            mirror > 0 /\ published[mirror] = Announced(rows[c].version, rows[c].params)

\* offers.controller.ts: the consumer "keeps the rate-card mirror fresh".
MirrorIsFresh ==
    wire = {} =>
        \A c \in Ids : IsPublished(c) =>
            mirror > 0 /\ published[mirror] = Announced(rows[c].version, rows[c].params)
=============================================================================
