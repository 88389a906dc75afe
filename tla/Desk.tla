--------------------------------- MODULE Desk ---------------------------------
(***************************************************************************)
(* What the maker-checker desks of the back office have in common: how a   *)
(* request that got through its guards changes its row.                    *)
(*                                                                         *)
(* A handler loads the entity, checks its guards, changes the entity in    *)
(* memory and saves it later; nothing locks the row or compares a version  *)
(* in between.  The ORM's save selects the row again, compares, and        *)
(* updates the columns in which the entity differs from it: a column that  *)
(* is undefined in the entity is skipped, a null is written.  So a request *)
(* is the handler's step, which leaves a transaction in pending; Compare,  *)
(* the select of the save; and Commit, the update with the rows that the   *)
(* transaction inserts beside it.                                          *)
(***************************************************************************)
EXTENDS Naturals, FiniteSets

CONSTANTS
    Ids,         \* ids of the desk's table, in the order they are given out
    Requests,    \* handlers in flight
    Persons,     \* staff
    MaxCommits,  \* bound on the transactions of a run
    NONE,        \* SQL null
    UNDEFINED    \* a column the entity leaves out

ASSUME DeskAssumption ==
    /\ Ids \subseteq Nat
    /\ MaxCommits \in Nat
    /\ NONE # UNDEFINED
    /\ NONE \notin Persons /\ UNDEFINED \notin Persons

VARIABLES
    rows,     \* id -> row
    records,  \* id -> rows inserted beside it: audit, outbox, child entities
    pending,  \* request -> the transaction it is about to run
    commits   \* transactions so far

deskVars == <<rows, records, pending, commits>>

Idle == [op |-> "idle"]

Saving(id, entity, recs)  == [op |-> "save", id |-> id, entity |-> entity, recs |-> recs]
Inserting(entity, recs)   == [op |-> "insert", entity |-> entity, recs |-> recs]

Begin(r, p) ==
    /\ pending[r] = Idle
    /\ pending' = [pending EXCEPT ![r] = p]
    /\ UNCHANGED <<rows, records, commits>>

\* Mutant: an undefined column is written.
ChangedAll(row, entity, replaced) ==
    {c \in DOMAIN row : entity[c] # row[c] \/ c \in replaced}

\* The columns in which the entity differs from the row, and those of replaced,
\* which are child tables rewritten whatever they held.
Changed(row, entity, replaced) ==
    {c \in DOMAIN row : /\ entity[c] # UNDEFINED
                        /\ entity[c] # row[c] \/ c \in replaced}

Merge(row, entity, changed) ==
    [c \in DOMAIN row |-> IF c \in changed THEN entity[c] ELSE row[c]]

Compare(r, replaced) ==
    /\ pending[r].op = "save"
    /\ LET p == pending[r] IN
         pending' = [pending EXCEPT ![r] =
                       [op |-> "write", id |-> p.id, entity |-> p.entity,
                        changed |-> Changed(rows[p.id], p.entity, replaced),
                        recs |-> p.recs]]
    /\ UNCHANGED <<rows, records, commits>>

\* The id the sequence hands out next.
NextId == {i \in Ids : rows[i].status = "ABSENT" /\
                       \A x \in Ids : x < i => rows[x].status # "ABSENT"}

\* The table once the request's transaction has written it.
Written(r, id) ==
    [rows EXCEPT ![id] =
       IF pending[r].op = "insert" THEN pending[r].entity
       ELSE Merge(rows[id], pending[r].entity, pending[r].changed)]

\* The transaction commits.
CommitRow(r, id) ==
    /\ commits < MaxCommits
    /\ \/ pending[r].op = "insert" /\ id \in NextId
       \/ pending[r].op = "write" /\ id = pending[r].id
    /\ rows' = Written(r, id)
    /\ records' = [records EXCEPT ![id] = @ \cup pending[r].recs]
    /\ pending' = [pending EXCEPT ![r] = Idle]
    /\ commits' = commits + 1

\* The transaction fails or the process dies.
Abort(r) ==
    /\ pending[r] # Idle
    /\ pending' = [pending EXCEPT ![r] = Idle]
    /\ UNCHANGED <<rows, records, commits>>

DeskInit(absentRow) ==
    /\ rows = [i \in Ids |-> absentRow]
    /\ records = [i \in Ids |-> {}]
    /\ pending = [r \in Requests |-> Idle]
    /\ commits = 0

\* What pending may hold, given the rows of the table, the entities (rows, with
\* columns left out) and the records.
Transactions(Row, Entity, Record, Columns) ==
    {Idle} \cup [op : {"insert"}, entity : Row, recs : SUBSET Record]
           \cup [op : {"save"}, id : Ids, entity : Entity, recs : SUBSET Record]
           \cup [op : {"write"}, id : Ids, entity : Entity,
                 changed : SUBSET Columns, recs : SUBSET Record]
=============================================================================
