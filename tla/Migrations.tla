----------------------------- MODULE Migrations -----------------------------
(* Operators who run `alembic upgrade` and `alembic downgrade` against one   *)
(* database, some of them at once, while an application of this commit       *)
(* stores idempotency records.  env.py runs a whole command in one           *)
(* transaction and takes no lock of its own: what keeps two commands apart   *)
(* are the locks of the DDL and the row of alembic_version, which every      *)
(* migration moves on and which must still say where the command began.      *)
EXTENDS SchemaHistory, FiniteSets

CONSTANTS
  Operators,  \* processes that run alembic
  Targets     \* revisions a command may be given

ASSUME TargetsAssumption == Targets \subseteq 0..Newest

VARIABLES
  revision,   \* alembic_version.version_num; 0 stands for no row
  schema,     \* the committed objects
  stored,     \* is there a row in idempotency_records?
  op          \* the command of each operator

vars == <<revision, schema, stored, op>>

Records == "idempotency_records"
Idle    == [pc |-> "idle", at |-> 0, goal |-> 0, claimed |-> FALSE,
            made |-> {}, gone |-> {}]

TypeOK ==
  /\ revision \in 0..Newest
  /\ stored \in BOOLEAN
  /\ \A o \in Operators :
       /\ op[o].pc \in {"idle", "ddl", "version", "commit"}
       /\ {op[o].at, op[o].goal} \subseteq 0..Newest
       /\ op[o].made \cap op[o].gone = {}

Init ==
  /\ revision = 0
  /\ schema = {}
  /\ stored = FALSE
  /\ op = [o \in Operators |-> Idle]

---------------------------------------------------------------------------
\* What a transaction sees: what is committed, with its own changes.
View(o) == (schema \ op[o].gone) \cup op[o].made

Others(o)  == Operators \ {o}
Touched(o) == {x[2] : x \in op[o].made \cup op[o].gone}

Upgrading(o) == op[o].goal > op[o].at
NextScript(o) ==
  IF Upgrading(o) THEN Migration[op[o].at + 1].up ELSE Migration[op[o].at].down

\* DDL waits for the tables that another open transaction has changed.
Waits(o, script) ==
  \E p \in Others(o) :
    Touched(p) \cap ( {x[2] : x \in script.drops \cup script.adds}
                      \cup {x[3] : x \in {y \in script.adds : y[1] = "references"}}
                      \cup script.tables ) # {}

\* What an object cannot exist without.
Needs(x) ==
  CASE x[1] = "trigger"    -> {Table(x[2]), SetUpdatedAt}
    [] x[1] = "references" -> {Table(x[2]), Table(x[3])}
    [] x[1] = "gin index"  -> {Table(x[2]), PgTrgm}
    [] x[1] \in {"table", "type", "function", "extension"} -> {}
    [] OTHER               -> {Table(x[2])}

\* PostgreSQL refuses to create what exists (but for CREATE EXTENSION IF NOT
\* EXISTS) and to drop what is missing or needed.
Applicable(script, S) ==
  /\ script.drops \subseteq S
  /\ {Table(t) : t \in script.tables} \subseteq S
  /\ (script.adds \ {PgTrgm}) \cap S = {}
  /\ \A x \in Run(script, S) : Needs(x) \subseteq Run(script, S)

BugFillable(script) == \* the column is added as nullable and filled
  TRUE

\* A NOT NULL column without a default cannot be added to a table with rows.
\* SET NOT NULL may: the rows of this commit have no NULL there.
Fillable(script) ==
  stored => ~ \E x \in script.adds :
              x[1] = "required" /\ x[2] = Records /\ x[3] = "status"

---------------------------------------------------------------------------
\* get_current_heads, and the list of steps: it is made before any of them
\* runs, and a revision without downgrade() already fails there.
Begin(o, goal) ==
  /\ op[o].pc = "idle"
  /\ goal # revision
  /\ (goal + 1)..revision \subseteq Reversible
  /\ op' = [op EXCEPT ![o] = [Idle EXCEPT !.pc = "ddl", !.at = revision,
                                          !.goal = goal]]
  /\ UNCHANGED <<revision, schema, stored>>

\* upgrade() or downgrade() of the next migration.
Ddl(o) ==
  LET script == NextScript(o)
  IN /\ op[o].pc = "ddl"
     /\ ~ Waits(o, script)
     /\ Applicable(script, View(o))
     /\ Fillable(script)
     /\ LET after == Run(script, View(o))
        IN op' = [op EXCEPT ![o].pc = "version",
                            ![o].made = after \ schema,
                            ![o].gone = schema \ after]
     /\ UNCHANGED <<revision, schema, stored>>

BugVersionMatches(o) == \* the number of rows matched is not looked at
  TRUE

\* UPDATE alembic_version ... WHERE version_num = <at>: it waits for the row,
\* and a command whose row is gone ends in CommandError (Abort).  Once the
\* transaction has changed the row, nobody else does.
VersionMatches(o) == op[o].claimed \/ op[o].at = 0 \/ revision = op[o].at

BugMovedTo(o) == \* the version of an upgrade, whatever was run
  op[o].at + 1

MovedTo(o) == IF Upgrading(o) THEN op[o].at + 1 ELSE op[o].at - 1

UpdateVersion(o) ==
  /\ op[o].pc = "version"
  /\ \A p \in Others(o) : ~ op[p].claimed
  /\ VersionMatches(o)
  /\ op' = [op EXCEPT ![o].pc = IF MovedTo(o) = op[o].goal
                               THEN "commit" ELSE "ddl",
                      ![o].at = MovedTo(o),
                      ![o].claimed = TRUE]
  /\ UNCHANGED <<revision, schema, stored>>

Commit(o) ==
  /\ op[o].pc = "commit"
  /\ revision' = op[o].at
  /\ schema' = View(o)
  /\ stored' = (stored /\ Table(Records) \in View(o))
  /\ op' = [op EXCEPT ![o] = Idle]

\* The command fails (a script that cannot run, a version that has moved, a
\* deadlock, rows in the way) or is killed: its transaction rolls back.
Abort(o) ==
  /\ op[o].pc # "idle"
  /\ op' = [op EXCEPT ![o] = Idle]
  /\ UNCHANGED <<revision, schema, stored>>

---------------------------------------------------------------------------
\* The application inserts an IdempotencyRecord and commits: it names the
\* columns of the model, so every other NOT NULL column makes it fail.
Insertable ==
  {x \in schema : x[2] = Records /\ x[1] \in {"table", "required"}}
    = {x \in IdempotencyRecord : x[1] \in {"table", "required"}}

StoreRecord ==
  /\ ~ stored
  /\ Insertable
  /\ \A o \in Operators : Records \notin Touched(o)
  /\ stored' = TRUE
  /\ UNCHANGED <<revision, schema, op>>

Next ==
  \/ \E o \in Operators :
       \/ \E goal \in Targets : Begin(o, goal)
       \/ Ddl(o)
       \/ UpdateVersion(o)
       \/ Commit(o)
       \/ Abort(o)
  \/ StoreRecord

Spec == Init /\ [][Next]_vars

---------------------------------------------------------------------------
\* Types and the extension outlive the tables they were created for.
Leftover(S) == {x \in S : x[1] \in {"type", "extension"}}

(* The committed schema is the one its recorded revision stands for, types   *)
(* and extensions that a downgrade left behind apart: no interleaving of two *)
(* commands, failed ones included, mixes the work of one with the version    *)
(* of the other (env.py, do_run_migrations).                                 *)
SchemaFollowsRevision ==
  /\ SchemaAt[revision] \ Leftover(SchemaAt[revision]) \subseteq schema
  /\ schema \ SchemaAt[revision] = Leftover(schema \ SchemaAt[revision])

(* At the newest revision the tables have exactly the columns, defaults,     *)
(* constraints and indexes that the models declare, and a trigger for every  *)
(* model with UpdatedAtMixin, by whatever way the database got there.        *)
HeadMatchesModels ==
  revision = Newest =>
    {x \in schema : x[1] \notin {"type", "extension", "function"}} = Metadata

(* No command takes away records of completed operations, which are what     *)
(* keeps a retried request from being executed twice.                        *)
RecordsSurvive == [][stored => stored']_vars
=============================================================================
