--------------------------------- MODULE Trade ---------------------------------
(***************************************************************************)
(* The invoices of one funder in apps/trade-directory, the organisations   *)
(* and SUPPLIES_TO relationships that filing them builds up, and the       *)
(* invoice nodes that apps/knowledge-graph keeps of                        *)
(* INVOICE_STATUS_CHANGED.  The rows of the desk are the invoices.         *)
(*                                                                         *)
(* Filing an invoice looks for its issuer, then for its debtor, and        *)
(* commits; a status is changed by the desk's load and save.  Invoices are *)
(* filed by staff and by the consumer of INVOICE_EXTRACTION_VALIDATED,     *)
(* whose refusals are logged: to it a message that comes again is another  *)
(* filing of the same number.                                              *)
(***************************************************************************)
EXTENDS Desk, Sequences

CONSTANTS
    Names,          \* names of organisations
    Registrations,  \* their business registration numbers
    Numbers,        \* invoice numbers
    MaxTrouble,     \* bound on events the graph marks and does not write
    MaxBehind       \* bound on events the graph has yet to handle

VARIABLES
    orgs,       \* the organisations, in the order of their ids
    network,    \* the relationships: <<from, to>>
    history,    \* invoice -> its INVOICE_STATUS_CHANGED events, as recorded
    untold,     \* <<invoice, position>> of those the graph has not handled
    node,       \* invoice -> position of the event its node shows, 0 for none
    farthest,   \* invoice -> the last position its node ever showed
    forgotten   \* invoices of events marked as seen and never written

tradeVars == <<orgs, network, history, untold, node, farthest, forgotten>>
nodes == <<node, farthest, forgotten>>
vars == <<deskVars, tradeVars>>

Allowed ==
    [UPLOADED             |-> {"VALIDATED", "REJECTED"},
     VALIDATED            |-> {"APPROVED_FOR_FINANCE", "REJECTED"},
     APPROVED_FOR_FINANCE |-> {"PRESENTED", "FINANCED", "REJECTED"},
     PRESENTED            |-> {"FINANCED", "CLOSED"},
     FINANCED             |-> {"PARTIALLY_PAID", "PAID", "OVERDUE"},
     PARTIALLY_PAID       |-> {"PAID", "OVERDUE"},
     OVERDUE              |-> {"PARTIALLY_PAID", "PAID"},
     PAID                 |-> {"CLOSED"},
     CLOSED               |-> {},
     REJECTED             |-> {}]

Status == {"ABSENT"} \cup DOMAIN Allowed
Row == [status : Status, issuer : Nat, debtor : Nat, number : Numbers \cup {NONE},
        factoring : BOOLEAN, named : BOOLEAN, settled : BOOLEAN, transferred : BOOLEAN]
Columns == DOMAIN [status |-> 0, issuer |-> 0, debtor |-> 0, number |-> 0,
                   factoring |-> 0, named |-> 0, settled |-> 0, transferred |-> 0]
AbsentRow == [status |-> "ABSENT", issuer |-> 0, debtor |-> 0, number |-> NONE,
              factoring |-> FALSE, named |-> FALSE, settled |-> FALSE,
              transferred |-> FALSE]

Org(name, registration) ==
    [name |-> name, registration |-> registration, supplier |-> FALSE, buyer |-> FALSE]
OrgIds == 1..Len(orgs)

\* A side of an invoice as the request gives it: an id, or a new organisation,
\* which is what the consumer of INVOICE_EXTRACTION_VALIDATED always gives.
Sides == [id : OrgIds, name : {NONE}, registration : {NONE}]
           \cup [id : {0}, name : Names, registration : Registrations \cup {NONE}]

Filing(issuer, debtor, number, factoring, named) ==
    [AbsentRow EXCEPT !.status = "UPLOADED", !.issuer = issuer, !.debtor = debtor,
                      !.number = number, !.factoring = factoring, !.named = named]

AName == CHOOSE name \in Names : TRUE
FirstId == {i \in Ids : \A x \in Ids : i <= x}
Approval == <<[from |-> "ABSENT", to |-> "UPLOADED"], [from |-> "UPLOADED", to |-> "VALIDATED"],
              [from |-> "VALIDATED", to |-> "APPROVED_FOR_FINANCE"]>>

Empty ==
    /\ network = {} /\ untold = {} /\ forgotten = {}
    /\ history = [i \in Ids |-> <<>>]
    /\ node = [i \in Ids |-> 0] /\ farthest = [i \in Ids |-> 0]

\* An invoice of the first two organisations, told of as far as its approval.
Approved(i, a, b, number, factoring) ==
    /\ orgs = <<[Org(a, NONE) EXCEPT !.supplier = TRUE],
                [Org(b, NONE) EXCEPT !.buyer = TRUE]>>
    /\ rows = [x \in Ids |->
                 IF x = i THEN [Filing(1, 2, number, factoring, FALSE) EXCEPT
                                  !.status = "APPROVED_FOR_FINANCE"]
                 ELSE AbsentRow]
    /\ network = {<<1, 2>>}
    /\ history = [x \in Ids |-> IF x = i THEN Approval ELSE <<>>]
    /\ node = [x \in Ids |-> Len(history[x])] /\ farthest = node
    /\ untold = {} /\ forgotten = {}

\* A directory that is empty, one with an organisation that onboarded, and one
\* in the middle of its life.
Init ==
    /\ records = [i \in Ids |-> {}]
    /\ pending = [r \in Requests |-> Idle]
    /\ commits = 0
    /\ \/ /\ Empty
          /\ rows = [i \in Ids |-> AbsentRow]
          /\ orgs \in {<<>>, <<Org(AName, NONE)>>}
       \/ \E i \in FirstId, b \in Names, number \in Numbers, factoring \in BOOLEAN :
            b # AName /\ Approved(i, AName, b, number, factoring)

NoTrade == Empty /\ orgs = <<>>

-----------------------------------------------------------------------------
(* Filing an invoice. *)

ByRegistration(table, side) ==
    {o \in DOMAIN table : /\ side.registration # NONE
                          /\ table[o].registration = side.registration}
ByName(table, side) == {o \in DOMAIN table : table[o].name = side.name}

Known(o) == [id |-> o, name |-> NONE, registration |-> NONE]

\* Mutant: a new organisation is not looked for by its name.
ResolvedByNumber(table, side) ==
    IF side.id # 0 \/ ByRegistration(table, side) = {} THEN {side}
    ELSE {Known(o) : o \in ByRegistration(table, side)}

\* What a side is resolved to: itself, or an organisation that is there already.
Resolved(table, side) ==
    IF side.id # 0 THEN {side}
    ELSE IF ByRegistration(table, side) # {}
         THEN {Known(o) : o \in ByRegistration(table, side)}
    ELSE IF ByName(table, side) # {} THEN {Known(o) : o \in ByName(table, side)}
    ELSE {side}

Enter(table, side) ==
    IF side.id # 0 THEN table ELSE Append(table, Org(side.name, side.registration))
IdOf(table, side) == IF side.id # 0 THEN side.id ELSE Len(table)

Filed(issuer, number) ==
    \E i \in Ids : rows[i].status # "ABSENT" /\ rows[i].issuer = issuer
                   /\ rows[i].number = number

\* What a request brings is chosen where it is first used.
FileInvoice(r, issuer) ==
    /\ NextId # {} /\ commits < MaxCommits   \* the bounds
    /\ \E found \in Resolved(orgs, issuer) :
         Begin(r, [op |-> "debtor", issuer |-> found])
    /\ UNCHANGED tradeVars

\* The debtor, looked for among the organisations and the issuer that the same
\* transaction has entered; the sides must differ and the invoice be new.
ResolveDebtor(r, debtor, number) ==
    /\ pending[r].op = "debtor"
    /\ LET issuer == pending[r].issuer
           entered == Enter(orgs, issuer)
       IN  \E found \in Resolved(entered, debtor) :
             /\ found.id # IdOf(entered, issuer)
             /\ ~Filed(issuer.id, number)
             /\ pending' = [pending EXCEPT ![r] =
                   [op |-> "file", issuer |-> issuer, debtor |-> found,
                    number |-> number]]
    /\ UNCHANGED <<rows, records, commits, tradeVars>>

\* Mutant: only the issuer gets its persona.
SupplierOnly(table, from, to) == [table EXCEPT ![from].supplier = TRUE]

\* PersonaAssignmentService locks the organisations' rows and reads them again.
WithPersonas(table, from, to) ==
    [table EXCEPT ![from].supplier = TRUE, ![to].buyer = TRUE]

\* INVOICE_STATUS_CHANGED is recorded with the change it tells of.
Tell(i, from, to) ==
    /\ Cardinality(untold) < MaxBehind
    /\ history' = [history EXCEPT ![i] = Append(@, [from |-> from, to |-> to])]
    /\ untold' = untold \cup {<<i, Len(history[i]) + 1>>}
    /\ UNCHANGED nodes

\* The transaction commits, unless the invoice's unique index refuses it.  A
\* relationship inserted meanwhile aborts it: its id cannot be read again.
CommitInvoice(r, i, factoring, named) ==
    LET p == pending[r]
        entered == Enter(orgs, p.issuer)
        both == Enter(entered, p.debtor)
        issuer == IdOf(entered, p.issuer)
        debtor == IdOf(both, p.debtor)
    IN  /\ p.op = "file" /\ commits < MaxCommits /\ i \in NextId
        /\ named => network # {}
        /\ ~Filed(issuer, p.number)
        /\ orgs' = WithPersonas(both, issuer, debtor)
        /\ network' = IF named THEN network ELSE network \cup {<<issuer, debtor>>}
        /\ rows' = [rows EXCEPT ![i] = Filing(issuer, debtor, p.number, factoring, named)]
        /\ Tell(i, "ABSENT", "UPLOADED")
        /\ pending' = [pending EXCEPT ![r] = Idle]
        /\ commits' = commits + 1
        /\ UNCHANGED records

\* RelationshipService.create.
Relate(from, to) ==
    /\ from # to
    /\ <<from, to>> \notin network
    /\ commits < MaxCommits
    /\ network' = network \cup {<<from, to>>}
    /\ orgs' = WithPersonas(orgs, from, to)
    /\ commits' = commits + 1
    /\ UNCHANGED <<rows, records, pending, history, untold, nodes>>

-----------------------------------------------------------------------------
(* The invoice's life. *)

\* Mutant: the date of settlement is not written.
Undated(row, to) ==
    [row EXCEPT !.status = to,
                !.transferred = @ \/ (to = "FINANCED" /\ row.factoring)]

Becoming(row, to) ==
    [row EXCEPT !.status = to,
                !.settled = @ \/ to = "PAID",
                !.transferred = @ \/ (to = "FINANCED" /\ row.factoring)]

\* Mutant: the transition is not checked.
SetAnyStatus(r, i, to) ==
    /\ rows[i].status # "ABSENT" /\ rows[i].status # to
    /\ Begin(r, Saving(i, Becoming(rows[i], to), {rows[i].status}))
    /\ UNCHANGED tradeVars

UpdateStatus(r, i, to) ==
    /\ rows[i].status # "ABSENT" /\ to \in Allowed[rows[i].status]
    /\ Begin(r, Saving(i, Becoming(rows[i], to), {rows[i].status}))
    /\ UNCHANGED tradeVars

\* The event tells of the entity, whatever the row holds.
CommitStatus(r) ==
    LET p == pending[r] IN
      /\ p.op = "write" /\ commits < MaxCommits
      /\ rows' = Written(r, p.id)
      /\ \E from \in p.recs : Tell(p.id, from, p.entity.status)
      /\ pending' = [pending EXCEPT ![r] = Idle]
      /\ commits' = commits + 1
      /\ UNCHANGED <<records, orgs, network>>

-----------------------------------------------------------------------------
(* The knowledge graph: an event is marked as seen, then its node written.  *)
(* The topic's messages have no key, so they are handled in any order.      *)

Seen(i, n) == <<i, n>> \in untold /\ untold' = untold \ {<<i, n>>}

\* Mutant: a node that is there is not written again.
WriteOnce(i, n) ==
    /\ Seen(i, n)
    /\ node' = [node EXCEPT ![i] = IF @ = 0 THEN n ELSE @]
    /\ farthest' = [farthest EXCEPT ![i] = IF @ = 0 THEN n ELSE @]
    /\ UNCHANGED <<deskVars, orgs, network, history, forgotten>>

UpsertInvoice(i, n) ==
    /\ Seen(i, n)
    /\ node' = [node EXCEPT ![i] = n]
    /\ farthest' = [farthest EXCEPT ![i] = IF n > @ THEN n ELSE @]
    /\ UNCHANGED <<deskVars, orgs, network, history, forgotten>>

\* The write fails or the process dies before it: the event, delivered again or
\* not, counts as processed.
MarkOnly(i, n) ==
    /\ Seen(i, n)
    /\ Cardinality(forgotten) < MaxTrouble
    /\ forgotten' = forgotten \cup {i}
    /\ UNCHANGED <<deskVars, orgs, network, history, node, farthest>>

Step(r) ==
    \/ (Compare(r, {}) \/ Abort(r)) /\ UNCHANGED tradeVars
    \/ \E side \in Sides : FileInvoice(r, side)
                          \/ \E number \in Numbers : ResolveDebtor(r, side, number)
    \/ \E i \in Ids, factoring, named \in BOOLEAN : CommitInvoice(r, i, factoring, named)
    \/ \E i \in Ids, to \in Status : UpdateStatus(r, i, to)
    \/ CommitStatus(r)

Other ==
    \/ \E from, to \in OrgIds : Relate(from, to)
    \/ \E e \in untold : UpsertInvoice(e[1], e[2]) \/ MarkOnly(e[1], e[2])

-----------------------------------------------------------------------------
Live == {i \in Ids : rows[i].status # "ABSENT"}

\* Every variable holds a value the code can give it.
TypeOK ==
    /\ rows \in [Ids -> Row] /\ commits \in 0..MaxCommits
    /\ \A r \in Requests : pending[r].op \in {"idle", "debtor", "file", "save", "write"}
    /\ \A o \in OrgIds : orgs[o] \in [name : Names, registration : Registrations \cup {NONE},
                                      supplier : BOOLEAN, buyer : BOOLEAN]
    /\ network \subseteq OrgIds \X OrgIds
    /\ \A i \in Ids : /\ history[i] \in Seq([from : Status, to : Status])
                      /\ node[i] <= farthest[i] /\ farthest[i] <= Len(history[i])
    /\ \A e \in untold : e[1] \in Ids /\ e[2] \in DOMAIN history[e[1]]
    /\ forgotten \subseteq Ids

\* invoice-trade-network.service.ts: "the trade network builds itself up as
\* invoices flow through it": the parties of every invoice differ and have their
\* personas, as those of every relationship do, and unless the request named a
\* relationship there is one between them.
NetworkIsBacked ==
    /\ \A i \in Live :
         LET from == rows[i].issuer  to == rows[i].debtor IN
           /\ from # to
           /\ orgs[from].supplier /\ orgs[to].buyer
           /\ ~rows[i].named => <<from, to>> \in network
    /\ \A p \in network : orgs[p[1]].supplier /\ orgs[p[2]].buyer

\* An organisation is entered once, and so an invoice is filed once with whoever
\* issued it: "correct for the sequential case but not a concurrency guarantee".
FiledOnce ==
    /\ \A a, b \in OrgIds : a # b =>
         /\ orgs[a].name # orgs[b].name
         /\ orgs[a].registration = NONE \/ orgs[a].registration # orgs[b].registration
    /\ \A i, j \in Live : i # j =>
         \/ orgs[rows[i].issuer].name # orgs[rows[j].issuer].name
         \/ rows[i].number # rows[j].number

Told(i) == {history[i][n].to : n \in 1..Len(history[i])}

\* What was told of an invoice is one walk along the allowed transitions that
\* ends at its status, and its dates say what the walk passed.
LifeIsTold ==
    \A i \in Live :
        /\ \A n \in 2..Len(history[i]) :
             LET e == history[i][n] IN
               e.from = history[i][n - 1].to /\ e.to \in Allowed[e.from]
        /\ rows[i].status = history[i][Len(history[i])].to
        /\ rows[i].settled <=> "PAID" \in Told(i)
        /\ rows[i].transferred <=> rows[i].factoring /\ "FINANCED" \in Told(i)

\* The node of an invoice shows its status once its events are handled, unless
\* one was marked and not written or overtook another.
GraphFollows ==
    \A i \in Live :
        (\A e \in untold : e[1] # i) /\ i \notin forgotten /\ node[i] = farthest[i] =>
            node[i] > 0 /\ history[i][node[i]].to = rows[i].status

\* graph-sync.service.ts: what a ProcessedEvent node records has been projected.
SeenIsWritten ==
    \A i \in Live : (\A e \in untold : e[1] # i) => farthest[i] = Len(history[i])

\* ALLOWED_TRANSITIONS: "terminal state".
TerminalStays ==
    \A i \in Live : rows[i].status \in {"CLOSED", "REJECTED"} =>
        rows'[i].status = rows[i].status
=============================================================================
