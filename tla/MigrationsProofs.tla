-------------------------- MODULE MigrationsProofs --------------------------
(* Whatever the operators and their targets, the database has the schema of  *)
(* the revision it records, and no command removes idempotency records.      *)
EXTENDS Migrations, SchemaHistoryProofs

Object ==
  UNION {Migration[r].up.adds \cup Migration[r].down.adds : r \in 1..Newest}

Command ==
  [pc : {"idle", "ddl", "version", "commit"}, at : 0..Newest, goal : 0..Newest,
   claimed : BOOLEAN, made : SUBSET Object, gone : SUBSET Object]

Shape == schema \subseteq Object /\ op \in [Operators -> Command]

\* How far a command is.  It has passed the recorded revision exactly when it
\* has claimed the row of alembic_version.
Course(o) ==
  /\ op[o].pc = "idle" => op[o] = Idle
  /\ op[o].pc = "commit" => op[o].claimed
  /\ op[o].pc \in {"ddl", "version"} => op[o].at # op[o].goal
  /\ (op[o].goal + 1)..op[o].at \subseteq Reversible
  /\ op[o].claimed =>
       \/ revision < op[o].at /\ op[o].at =< op[o].goal
       \/ op[o].goal =< op[o].at /\ op[o].at < revision

\* A command that has run its first script and not claimed the row: what it
\* did to the schema is what the script would do to the committed one of now.
Pending(o, script) ==
  /\ op[o].made \subseteq script.adds
  /\ script.adds \ {PgTrgm} \subseteq op[o].made
  /\ script.drops \ {PgTrgm} \subseteq op[o].gone
  /\ script.tables \subseteq Touched(o)
  /\ \A x \in schema \ {PgTrgm} :
       x \in op[o].gone <=> x \in script.drops \/ x[2] \in script.tables

Reached(o) == IF op[o].pc = "version" THEN MovedTo(o) ELSE op[o].at

\* What a command has done to the schema.
Work(o) ==
  /\ op[o].made \cap schema = {}
  /\ op[o].gone \subseteq schema
  /\ op[o].pc = "ddl" /\ ~ op[o].claimed => op[o].made = {} /\ op[o].gone = {}
  /\ op[o].pc = "version" /\ ~ op[o].claimed => Pending(o, NextScript(o))
  /\ op[o].claimed => Lasting(View(o)) = Lasting(SchemaAt[Reached(o)])

Alone ==
  \A o, p \in Operators :
    o # p => /\ ~ (op[o].claimed /\ op[p].claimed)
             /\ Touched(o) \cap Touched(p) = {}

Follows == Lasting(schema) = Lasting(SchemaAt[revision])

\* Once there are records, no command can get to the point of committing.
Kept ==
  stored =>
    /\ revision = Newest
    /\ \A o \in Operators :
         /\ ~ op[o].claimed
         /\ ~ (op[o].at = Newest /\ op[o].pc = "version")

IInv ==
  /\ TypeOK
  /\ Shape
  /\ \A o \in Operators : Course(o) /\ Work(o)
  /\ Alone
  /\ Follows
  /\ Kept

---------------------------------------------------------------------------
\* What scripts do.

(* The next script of a command takes the schema of the revision it is at to *)
(* that of the revision it moves on to.                                      *)
LEMMA ScriptMoves ==
  ASSUME TypeOK, NEW o \in Operators, Course(o),
         op[o].pc \in {"ddl", "version"}
  PROVE  /\ MovedTo(o) \in 0..Newest
         /\ \A S : Lasting(S) = Lasting(SchemaAt[op[o].at]) =>
              Lasting(Run(NextScript(o), S)) = Lasting(SchemaAt[MovedTo(o)])
  <1>1. op[o].at \in 0..14 /\ op[o].goal \in 0..14 /\ op[o].at # op[o].goal
    BY NewestIs DEF TypeOK, Course
  <1>2. CASE op[o].goal > op[o].at
    <2>1. op[o].at \in 0..(Newest - 1) /\ MovedTo(o) = op[o].at + 1
      BY <1>1, <1>2, NewestIs DEF MovedTo, Upgrading
    <2>2. NextScript(o) = Migration[op[o].at + 1].up
      BY <1>2 DEF NextScript, Upgrading
    <2> QED
      BY <2>1, <2>2, NewestIs, Upgrades, RunLasting
  <1>3. CASE op[o].goal < op[o].at
    <2>1. op[o].at \in Reversible
      BY <1>1, <1>3 DEF Course
    <2>2. /\ MovedTo(o) = op[o].at - 1
          /\ NextScript(o) = Migration[op[o].at].down
      BY <1>1, <1>3 DEF MovedTo, NextScript, Upgrading
    <2> QED
      BY <1>1, <1>3, <2>1, <2>2, NewestIs, DowngradesUndo, RunLasting
  <1> QED
    BY <1>1, <1>2, <1>3

(* The work of a command that has only run its first script is that script.  *)
LEMMA PendingRuns ==
  ASSUME NEW o \in Operators, NEW script, Pending(o, script)
  PROVE  Lasting(View(o)) = Lasting(Run(script, schema))
  <1>1. ~ PgTrgm[1] \notin {"type", "extension"}
    BY Singles
  <1> QED
    BY <1>1 DEF Pending, View, Run, Lasting

(* It began at the recorded revision, if it may claim the row.               *)
LEMMA ClaimsTheRevision ==
  ASSUME IInv, NEW o \in Operators, UpdateVersion(o), ~ op[o].claimed
  PROVE  op[o].at = revision
  <1>1. op[o].pc = "version" /\ Pending(o, NextScript(o)) /\ Work(o) /\ Course(o)
    BY DEF IInv, UpdateVersion, Work
  <1>2. CASE op[o].at = 0
    <2>1. op[o].goal > 0
      BY <1>1, <1>2, NewestIs DEF IInv, TypeOK, Course
    <2>2. NextScript(o) = Migration[1].up
      BY <1>2, <2>1 DEF NextScript, Upgrading
    <2>3. Migration01.up.adds = {SetUpdatedAt}
      BY DEF Migration01, Script
    <2>4. SetUpdatedAt # PgTrgm /\ SetUpdatedAt[1] \notin {"type", "extension"}
      BY Singles
    <2>5. SetUpdatedAt \notin schema
      BY <1>1, <2>2, <2>3, <2>4, Numbered DEF Pending, Work
    <2>6. SetUpdatedAt \notin SchemaAt[revision]
      BY <2>4, <2>5 DEF IInv, Follows, Lasting
    <2> QED
      BY <1>2, <2>6, TriggerFunction, NewestIs DEF IInv, TypeOK
  <1>3. CASE op[o].at # 0
    BY <1>3 DEF UpdateVersion, VersionMatches
  <1> QED
    BY <1>2, <1>3

LEMMA ScriptObjects ==
  ASSUME TypeOK, NEW o \in Operators, op[o].at # op[o].goal
  PROVE  NextScript(o).adds \subseteq Object
  <1>1. op[o].at \in 0..14 /\ op[o].goal \in 0..14
    BY NewestIs DEF TypeOK
  <1>2. CASE op[o].goal > op[o].at
    <2>1. op[o].at + 1 \in 1..Newest
      BY <1>1, <1>2, NewestIs
    <2> QED
      BY <1>2, <2>1 DEF NextScript, Upgrading, Object
  <1>3. CASE op[o].goal < op[o].at
    <2>1. op[o].at \in 1..Newest /\ ~ (op[o].goal > op[o].at)
      BY <1>1, <1>3, NewestIs
    <2> QED
      BY <2>1 DEF NextScript, Upgrading, Object
  <1> QED
    BY <1>1, <1>2, <1>3

(* What a step leaves alone.                                                 *)
LEMMA Frame ==
  ASSUME NEW p \in Operators, op'[p] = op[p], Course(p), Work(p),
         schema' = schema, revision' = revision
  PROVE  Course(p)' /\ Work(p)' /\ Touched(p)' = Touched(p)
  <1>1. Touched(p)' = Touched(p) /\ View(p)' = View(p)
    BY DEF Touched, View
  <1>2. NextScript(p)' = NextScript(p) /\ Reached(p)' = Reached(p)
    BY DEF NextScript, Reached, MovedTo, Upgrading
  <1>3. Course(p)'
    BY DEF Course
  <1>4. Work(p)'
    <2>1. Pending(p, NextScript(p)) => Pending(p, NextScript(p))'
      BY <1>1, <1>2 DEF Pending
    <2> QED
      BY <1>1, <1>2, <2>1 DEF Work
  <1> QED
    BY <1>1, <1>3, <1>4

---------------------------------------------------------------------------
\* The steps, one by one.

LEMMA BeginStep ==
  ASSUME IInv, TargetsAssumption, NEW o \in Operators, NEW goal \in Targets,
         Begin(o, goal)
  PROVE  IInv'
  <1>1. /\ op'[o].pc = "ddl" /\ op'[o].at = revision /\ op'[o].goal = goal
        /\ op'[o].claimed = FALSE /\ op'[o].made = {} /\ op'[o].gone = {}
        /\ \A p \in Others(o) : op'[p] = op[p]
        /\ Shape'
    <2>1. op' = [op EXCEPT ![o] = [Idle EXCEPT !.pc = "ddl", !.at = revision,
                                              !.goal = goal]]
      BY DEF Begin
    <2>2. revision \in 0..Newest /\ goal \in 0..Newest
      BY DEF IInv, TypeOK, TargetsAssumption
    <2> DEFINE c == [Idle EXCEPT !.pc = "ddl", !.at = revision, !.goal = goal]
    <2>3. /\ c.pc = "ddl" /\ c.at = revision /\ c.goal = goal
          /\ c.claimed = FALSE /\ c.made = {} /\ c.gone = {}
          /\ c \in Command
      BY <2>2, NewestIs DEF Idle, Command
    <2> HIDE DEF c
    <2>4. op' = [op EXCEPT ![o] = c]
      BY <2>1 DEF c
    <2> QED
      BY <2>3, <2>4 DEF IInv, Shape, Others, Begin
  <1>2. revision' = revision /\ schema' = schema /\ stored' = stored
    BY DEF Begin
  <1>3. \A p \in Others(o) : Course(p)' /\ Work(p)' /\ Touched(p)' = Touched(p)
    BY <1>1, <1>2, Frame DEF IInv, Others
  <1>4. Course(o)' /\ Work(o)' /\ Touched(o)' = {}
    <2>1. Touched(o)' = {}
      BY <1>1 DEF Touched
    <2>2. Course(o)'
      BY <1>1, <1>2 DEF Begin, Course
    <2>3. Work(o)'
      BY <1>1, <1>2 DEF Work
    <2> QED
      BY <2>1, <2>2, <2>3
  <1>5. TypeOK'
    <2>1. /\ op'[o].pc \in {"idle", "ddl", "version", "commit"}
          /\ {op'[o].at, op'[o].goal} \subseteq 0..Newest
          /\ op'[o].made \cap op'[o].gone = {}
      BY <1>1 DEF IInv, TypeOK, TargetsAssumption
    <2> QED
      BY <1>1, <1>2, <2>1 DEF IInv, TypeOK, Others
  <1>6. Alone'
    BY <1>1, <1>3, <1>4 DEF IInv, Alone, Others
  <1>7. Follows'
    BY <1>2 DEF IInv, Follows
  <1>8. Kept'
    BY <1>1, <1>2 DEF IInv, Kept, Others
  <1> QED
    BY <1>1, <1>3, <1>4, <1>5, <1>6, <1>7, <1>8 DEF IInv, Others

LEMMA DdlStep ==
  ASSUME IInv, NEW o \in Operators, Ddl(o)
  PROVE  IInv'
  <1> DEFINE script == NextScript(o)
             after  == Run(script, View(o))
  <1>1. /\ op'[o].pc = "version" /\ op'[o].at = op[o].at
        /\ op'[o].goal = op[o].goal /\ op'[o].claimed = op[o].claimed
        /\ op'[o].made = after \ schema /\ op'[o].gone = schema \ after
        /\ \A p \in Others(o) : op'[p] = op[p]
        /\ Shape'
    <2> HIDE DEF after
    <2>1. op' = [op EXCEPT ![o].pc = "version",
                           ![o].made = after \ schema,
                           ![o].gone = schema \ after]
      BY DEF Ddl, after
    <2>2. after \subseteq Object
      BY ScriptObjects DEF after, Run, View, IInv, Shape, Course, Ddl, Command
    <2>3. /\ op \in [Operators -> Command] /\ op[o] \in Command
          /\ schema \subseteq Object /\ schema' = schema
      BY DEF IInv, Shape, Ddl
    <2>4. /\ op'[o].pc = "version" /\ op'[o].at = op[o].at
          /\ op'[o].goal = op[o].goal /\ op'[o].claimed = op[o].claimed
          /\ op'[o].made = after \ schema /\ op'[o].gone = schema \ after
      BY <2>1, <2>3 DEF Command
    <2>5. op' \in [Operators -> Command] /\ \A p \in Others(o) : op'[p] = op[p]
      BY <2>1, <2>2, <2>3 DEF Command, Others
    <2> QED
      BY <2>3, <2>4, <2>5 DEF Shape
  <1>2. revision' = revision /\ schema' = schema /\ stored' = stored
    BY DEF Ddl
  <1>3. \A p \in Others(o) : Course(p)' /\ Work(p)' /\ Touched(p)' = Touched(p)
    BY <1>1, <1>2, Frame DEF IInv, Others
  <1>4. /\ NextScript(o)' = script
        /\ Reached(o)' = MovedTo(o)
        /\ View(o)' = after
    <2> HIDE DEF after
    <2>1. NextScript(o)' = script /\ Reached(o)' = MovedTo(o)
      BY <1>1 DEF NextScript, Reached, MovedTo, Upgrading
    <2>2. View(o)' = after
      BY <1>1, <1>2 DEF View
    <2> QED
      BY <2>1, <2>2
  <1>5. /\ op[o].pc = "ddl" /\ Course(o) /\ Work(o)
        /\ ~ Waits(o, script) /\ Applicable(script, View(o)) /\ Fillable(script)
    BY DEF IInv, Ddl
  <1>6. Course(o)'
    BY <1>1, <1>2, <1>5 DEF Course
  <1>7. Work(o)'
    <2>1. op[o].claimed => Lasting(after) = Lasting(SchemaAt[MovedTo(o)])
      <3>1. op[o].claimed => Lasting(View(o)) = Lasting(SchemaAt[op[o].at])
        BY <1>5 DEF Work, Reached
      <3> QED
        BY <3>1, <1>5, ScriptMoves DEF IInv
    <2>2. ~ op[o].claimed => Pending(o, script)'
      <3> SUFFICES ASSUME ~ op[o].claimed
                   PROVE  Pending(o, script)'
        OBVIOUS
      <3>1. View(o) = schema
        BY <1>5 DEF Work, View
      <3>2. /\ script.drops \subseteq schema
            /\ {Table(t) : t \in script.tables} \subseteq schema
            /\ (script.adds \ {PgTrgm}) \cap schema = {}
        BY <1>5, <3>1 DEF Applicable
      <3>3. \A x : x \in after <=>
              \/ x \in schema /\ x \notin script.drops /\ x[2] \notin script.tables
              \/ x \in script.adds
        BY <3>1 DEF Run
      <3> HIDE DEF after, script
      <3>4. /\ op'[o].made \subseteq script.adds
            /\ script.adds \ {PgTrgm} \subseteq op'[o].made
            /\ script.drops \ {PgTrgm} \subseteq op'[o].gone
            /\ \A x \in schema \ {PgTrgm} :
                 x \in op'[o].gone <=> x \in script.drops \/ x[2] \in script.tables
        BY <1>1, <3>2, <3>3
      <3>5. script.tables \subseteq Touched(o)'
        <4> SUFFICES ASSUME NEW t \in script.tables
                     PROVE  t \in Touched(o)'
          OBVIOUS
        <4>1. Table(t) \in schema /\ Table(t)[2] = t /\ Table(t) # PgTrgm
          <5>1. Table(t) \in schema
            BY <3>2
          <5>2. Table(t)[1] = "table" /\ Table(t)[2] = t /\ PgTrgm[1] = "extension"
            BY Singles
          <5> QED
            BY <5>1, <5>2
        <4>2. Table(t) \in op'[o].gone
          BY <3>4, <4>1
        <4> QED
          BY <4>1, <4>2 DEF Touched
      <3>6. script' = script
        BY <1>4 DEF script
      <3> QED
        BY <1>2, <3>4, <3>5, <3>6 DEF Pending
    <2>3. ~ op[o].claimed => Pending(o, NextScript(o))'
      BY <2>2, <1>4 DEF Pending
    <2> HIDE DEF after, script
    <2> QED
      BY <1>1, <1>2, <1>4, <2>1, <2>3 DEF Work
  <1>8. ASSUME NEW p \in Others(o)
        PROVE  Touched(o)' \cap Touched(p) = {}
    <2>1. Touched(o) \cap Touched(p) = {}
      BY DEF IInv, Alone, Others
    <2>2. /\ \A x \in script.drops \cup script.adds : x[2] \notin Touched(p)
          /\ \A t \in script.tables : t \notin Touched(p)
      BY <1>5 DEF Waits
    <2>3. \A x \in op'[o].made \cup op'[o].gone :
            \/ x \in op[o].made \cup op[o].gone
            \/ x \in script.drops \cup script.adds
            \/ x[2] \in script.tables
      BY <1>1 DEF Run, View
    <2>4. \A x \in op'[o].made \cup op'[o].gone : x[2] \notin Touched(p)
      BY <2>1, <2>2, <2>3 DEF Touched
    <2> QED
      BY <2>4 DEF Touched
  <1>9. ~ (stored /\ op[o].at = Newest)
    <2> SUFFICES ASSUME stored, op[o].at = Newest
                 PROVE  FALSE
      OBVIOUS
    <2>1. ~ Upgrading(o)
      BY NewestIs DEF IInv, TypeOK, Upgrading
    <2>2. Record("required", "status") \in script.adds
      BY <2>1, NewestIs, Restores DEF NextScript
    <2>3. /\ Record("required", "status")[1] = "required"
          /\ Record("required", "status")[2] = Records
          /\ Record("required", "status")[3] = "status"
      BY DEF Record, Records
    <2> QED
      BY <1>5, <2>2, <2>3 DEF Fillable
  <1> HIDE DEF after, script
  <1>10. TypeOK'
    <2>1. /\ op'[o].pc \in {"idle", "ddl", "version", "commit"}
          /\ {op'[o].at, op'[o].goal} \subseteq 0..Newest
          /\ op'[o].made \cap op'[o].gone = {}
      BY <1>1 DEF IInv, TypeOK
    <2> QED
      BY <1>1, <1>2, <2>1 DEF IInv, TypeOK, Others
  <1>11. Alone'
    BY <1>1, <1>3, <1>8 DEF IInv, Alone, Others
  <1>12. Follows'
    BY <1>2 DEF IInv, Follows
  <1>13. Kept'
    BY <1>1, <1>2, <1>9 DEF IInv, Kept, Others
  <1> QED
    BY <1>1, <1>3, <1>6, <1>7, <1>10, <1>11, <1>12, <1>13 DEF IInv, Others

LEMMA UpdateVersionStep ==
  ASSUME IInv, NEW o \in Operators, UpdateVersion(o)
  PROVE  IInv'
  <1> DEFINE to == MovedTo(o)
  <1>1. /\ op[o].pc = "version" /\ Course(o) /\ Work(o)
        /\ \A p \in Others(o) : ~ op[p].claimed
        /\ revision \in 0..14 /\ op[o].at \in 0..14 /\ op[o].goal \in 0..14
        /\ op[o].at # op[o].goal
    BY NewestIs DEF IInv, TypeOK, UpdateVersion, Course
  <1>2. /\ to \in 0..Newest
        /\ \/ op[o].at < op[o].goal /\ to = op[o].at + 1
           \/ op[o].goal < op[o].at /\ to = op[o].at - 1
    BY <1>1, ScriptMoves DEF IInv, MovedTo, Upgrading
  <1>3. revision' = revision /\ schema' = schema /\ stored' = stored
    BY DEF UpdateVersion
  <1>4. /\ op'[o].pc = (IF to = op[o].goal THEN "commit" ELSE "ddl")
        /\ op'[o].at = to /\ op'[o].goal = op[o].goal
        /\ op'[o].claimed = TRUE
        /\ op'[o].made = op[o].made /\ op'[o].gone = op[o].gone
        /\ \A p \in Others(o) : op'[p] = op[p]
        /\ Shape'
    <2>1. op' = [op EXCEPT ![o].pc = IF to = op[o].goal THEN "commit" ELSE "ddl",
                           ![o].at = to,
                           ![o].claimed = TRUE]
      BY DEF UpdateVersion
    <2>2. /\ op \in [Operators -> Command] /\ op[o] \in Command
          /\ schema' \subseteq Object
      BY <1>3 DEF IInv, Shape
    <2> HIDE DEF to
    <2>3. /\ op'[o].pc = (IF to = op[o].goal THEN "commit" ELSE "ddl")
          /\ op'[o].at = to /\ op'[o].goal = op[o].goal
          /\ op'[o].claimed = TRUE
          /\ op'[o].made = op[o].made /\ op'[o].gone = op[o].gone
      BY <2>1, <2>2 DEF Command
    <2>4. op' \in [Operators -> Command] /\ \A p \in Others(o) : op'[p] = op[p]
      BY <1>2, <2>1, <2>2 DEF Command, Others
    <2> QED
      BY <2>2, <2>3, <2>4 DEF Shape
  <1> HIDE DEF to
  <1>5. \A p \in Others(o) : Course(p)' /\ Work(p)' /\ Touched(p)' = Touched(p)
    BY <1>3, <1>4, Frame DEF IInv, Others
  <1>6. View(o)' = View(o) /\ Touched(o)' = Touched(o) /\ Reached(o)' = to
    BY <1>3, <1>4 DEF View, Touched, Reached
  <1>7. \/ op[o].claimed
        \/ ~ op[o].claimed /\ op[o].at = revision
    BY ClaimsTheRevision
  <1>8. Lasting(View(o)) = Lasting(SchemaAt[to])
    <2>1. CASE op[o].claimed
      BY <1>1, <2>1 DEF Work, Reached, to
    <2>2. CASE ~ op[o].claimed /\ op[o].at = revision
      <3>1. Lasting(View(o)) = Lasting(Run(NextScript(o), schema))
        BY <1>1, <2>2, PendingRuns DEF Work
      <3>2. Lasting(schema) = Lasting(SchemaAt[op[o].at])
        BY <2>2 DEF IInv, Follows
      <3> QED
        BY <1>1, <3>1, <3>2, ScriptMoves DEF IInv, to
    <2> QED
      BY <1>7, <2>1, <2>2
  <1>9. Course(o)'
    <2>1. \/ revision < to /\ to =< op[o].goal
          \/ op[o].goal =< to /\ to < revision
      BY <1>1, <1>2, <1>7 DEF Course
    <2>2. (op[o].goal + 1)..to \subseteq Reversible
      BY <1>1, <1>2 DEF Course
    <2> QED
      BY <1>3, <1>4, <2>1, <2>2 DEF Course
  <1>10. Work(o)'
    BY <1>1, <1>3, <1>4, <1>6, <1>8 DEF Work
  <1>11. ~ stored
    <2> SUFFICES ASSUME stored
                 PROVE  FALSE
      OBVIOUS
    <2>1. revision = Newest /\ ~ op[o].claimed /\ op[o].at # Newest
      BY <1>1 DEF IInv, Kept
    <2> QED
      BY <1>7, <2>1
  <1>12. TypeOK'
    <2>1. /\ op'[o].pc \in {"idle", "ddl", "version", "commit"}
          /\ {op'[o].at, op'[o].goal} \subseteq 0..Newest
          /\ op'[o].made \cap op'[o].gone = {}
      BY <1>2, <1>4 DEF IInv, TypeOK
    <2> QED
      BY <1>3, <1>4, <2>1 DEF IInv, TypeOK, Others
  <1>13. Alone'
    BY <1>1, <1>4, <1>5, <1>6 DEF IInv, Alone, Others
  <1>14. Follows'
    BY <1>3 DEF IInv, Follows
  <1>15. Kept'
    BY <1>3, <1>11 DEF Kept
  <1> QED
    BY <1>4, <1>5, <1>9, <1>10, <1>12, <1>13, <1>14, <1>15 DEF IInv, Others

\* A command that is idle again.
LEMMA IdleStep ==
  ASSUME IInv, NEW o \in Operators, op' = [op EXCEPT ![o] = Idle],
         schema' \subseteq Object
  PROVE  /\ Shape'
         /\ op'[o] = Idle /\ \A p \in Others(o) : op'[p] = op[p]
         /\ Course(o)' /\ Work(o)' /\ Touched(o)' = {}
         /\ revision' \in 0..Newest /\ stored' \in BOOLEAN => TypeOK'
  <1>1. /\ Idle.pc = "idle" /\ Idle.at = 0 /\ Idle.goal = 0
        /\ Idle.claimed = FALSE /\ Idle.made = {} /\ Idle.gone = {}
        /\ Idle \in Command
    BY NewestIs DEF Idle, Command
  <1>2. Idle' = Idle
    BY DEF Idle
  <1>3. /\ op'[o] = Idle /\ \A p \in Others(o) : op'[p] = op[p]
        /\ Shape'
    <2> HIDE DEF Idle
    <2> QED
      BY <1>1 DEF IInv, Shape, Others
  <1>4. Course(o)'
    BY <1>1, <1>2, <1>3 DEF Course
  <1>5. Work(o)' /\ Touched(o)' = {}
    BY <1>1, <1>3 DEF Work, Touched
  <1>6. revision' \in 0..Newest /\ stored' \in BOOLEAN => TypeOK'
    <2>1. /\ op'[o].pc \in {"idle", "ddl", "version", "commit"}
          /\ {op'[o].at, op'[o].goal} \subseteq 0..Newest
          /\ op'[o].made \cap op'[o].gone = {}
      BY <1>1, <1>3, NewestIs
    <2> QED
      BY <1>3, <2>1 DEF IInv, TypeOK, Others
  <1> QED
    BY <1>3, <1>4, <1>5, <1>6

LEMMA CommitStep ==
  ASSUME IInv, NEW o \in Operators, Commit(o)
  PROVE  IInv' /\ ~ stored
  <1>1. /\ op[o].pc = "commit" /\ op[o].claimed /\ Course(o) /\ Work(o)
        /\ op[o].at \in 0..Newest
    BY DEF IInv, TypeOK, Commit, Course
  <1>2. ~ stored
    BY <1>1 DEF IInv, Kept
  <1>3. /\ revision' = op[o].at /\ schema' = View(o) /\ stored' = FALSE
        /\ op' = [op EXCEPT ![o] = Idle]
    BY <1>2 DEF Commit
  <1>4. schema' \subseteq Object
    BY <1>3 DEF View, IInv, Shape, Command
  <1>5. /\ Shape' /\ TypeOK'
        /\ op'[o] = Idle /\ \A p \in Others(o) : op'[p] = op[p]
        /\ Course(o)' /\ Work(o)' /\ Touched(o)' = {}
    BY <1>1, <1>3, <1>4, IdleStep
  <1>6. ASSUME NEW p \in Others(o)
        PROVE  Course(p)' /\ Work(p)' /\ Touched(p)' = Touched(p)
    <2>1. /\ p \in Operators /\ op'[p] = op[p] /\ ~ op[p].claimed
          /\ Touched(o) \cap Touched(p) = {}
          /\ Course(p) /\ Work(p)
      BY <1>1, <1>5 DEF IInv, Alone, Others
    <2>2. Touched(p)' = Touched(p) /\ NextScript(p)' = NextScript(p)
      BY <2>1 DEF Touched, NextScript, Upgrading
    <2>3. Course(p)'
      BY <2>1 DEF Course
    <2>4. /\ \A x \in op[o].made \cup op[o].gone : x[2] \notin Touched(p)
          /\ \A x \in op[p].made \cup op[p].gone : x \notin op[o].made \cup op[o].gone
      BY <2>1 DEF Touched
    <2>5. op'[p].made \cap schema' = {} /\ op'[p].gone \subseteq schema'
      BY <1>3, <2>1, <2>4 DEF Work, View
    <2>6. ASSUME Pending(p, NextScript(p))
          PROVE  Pending(p, NextScript(p))'
      <3> DEFINE script == NextScript(p)
      <3>1. \A x \in op[o].made : x[2] \notin script.tables
        BY <2>4, <2>6 DEF Pending
      <3>2. \A x \in op[o].made \ {PgTrgm} : x \notin script.drops
        BY <1>1, <2>1, <2>6 DEF Pending, Work
      <3>3. \A x \in op[o].made : x \notin op[p].gone
        BY <2>4
      <3>4. \A x \in View(o) \ {PgTrgm} :
              x \in op[p].gone <=> x \in script.drops \/ x[2] \in script.tables
        BY <2>6, <3>1, <3>2, <3>3 DEF Pending, View
      <3> QED
        BY <1>3, <2>1, <2>2, <2>6, <3>4 DEF Pending
    <2>7. Work(p)'
      BY <2>1, <2>2, <2>5, <2>6 DEF Work
    <2> QED
      BY <2>2, <2>3, <2>7
  <1>7. Follows'
    BY <1>1, <1>3 DEF Work, Reached, Follows
  <1>8. Alone'
    BY <1>5, <1>6 DEF IInv, Alone, Others, Idle
  <1>9. Kept'
    BY <1>3 DEF Kept
  <1> QED
    BY <1>2, <1>5, <1>6, <1>7, <1>8, <1>9 DEF IInv, Others

LEMMA AbortStep ==
  ASSUME IInv, NEW o \in Operators, Abort(o)
  PROVE  IInv'
  <1>1. /\ op' = [op EXCEPT ![o] = Idle]
        /\ revision' = revision /\ schema' = schema /\ stored' = stored
    BY DEF Abort
  <1>2. /\ Shape' /\ TypeOK'
        /\ op'[o] = Idle /\ \A p \in Others(o) : op'[p] = op[p]
        /\ Course(o)' /\ Work(o)' /\ Touched(o)' = {}
    <2>1. schema' \subseteq Object /\ revision' \in 0..Newest /\ stored' \in BOOLEAN
      BY <1>1 DEF IInv, Shape, TypeOK
    <2> QED
      BY <1>1, <2>1, IdleStep
  <1>3. \A p \in Others(o) : Course(p)' /\ Work(p)' /\ Touched(p)' = Touched(p)
    BY <1>1, <1>2, Frame DEF IInv, Others
  <1>4. Alone'
    BY <1>2, <1>3 DEF IInv, Alone, Others, Idle
  <1>5. Follows'
    BY <1>1 DEF IInv, Follows
  <1>6. Kept'
    BY <1>1, <1>2 DEF IInv, Kept, Others, Idle
  <1> QED
    BY <1>2, <1>3, <1>4, <1>5, <1>6 DEF IInv, Others

(* The application can only insert at the newest revision, and only while no *)
(* command has got anywhere near the table.                                  *)
LEMMA StoreRecordStep ==
  ASSUME IInv, StoreRecord
  PROVE  IInv'
  <1> DEFINE status == Record("required", "http_status")
  <1>1. status[1] = "required" /\ status[2] = Records
    BY DEF Record, Records
  <1>2. status \in schema
    BY <1>1, ModelsMade DEF StoreRecord, Insertable
  <1>3. revision = 14
    <2>1. status \in SchemaAt[revision]
      BY <1>1, <1>2 DEF IInv, Follows, Lasting
    <2> QED
      BY <2>1, AddedLate, NewestIs DEF IInv, TypeOK
  <1>4. ASSUME NEW o \in Operators
        PROVE  status \notin op[o].gone
    BY <1>1 DEF StoreRecord, Touched
  <1>5. ASSUME NEW o \in Operators, op[o].claimed
        PROVE  FALSE
    <2>1. /\ Course(o) /\ Work(o)
          /\ op[o].at \in 0..14 /\ op[o].goal \in 0..14
      BY NewestIs DEF IInv, TypeOK
    <2>2. op[o].goal =< op[o].at /\ op[o].at < 14
      BY <1>3, <1>5, <2>1 DEF Course
    <2>3. Reached(o) \in 0..13
      <3>1. CASE op[o].pc = "version"
        BY <2>1, <2>2, <3>1, ScriptMoves, NewestIs
           DEF IInv, Reached, MovedTo, Upgrading, Course
      <3>2. CASE op[o].pc # "version"
        BY <2>1, <2>2, <3>2 DEF Reached
      <3> QED
        BY <3>1, <3>2
    <2>4. status \notin View(o)
      BY <1>1, <1>5, <2>1, <2>3, AddedLate DEF Work, Lasting
    <2> QED
      BY <1>2, <1>4, <2>4 DEF View
  <1>6. ASSUME NEW o \in Operators, op[o].at = Newest, op[o].pc = "version"
        PROVE  FALSE
    <2>1. ~ Upgrading(o)
      BY <1>6, NewestIs DEF IInv, TypeOK, Upgrading
    <2>2. status \in NextScript(o).drops
      BY <1>6, <2>1, NewestIs, Restores DEF NextScript
    <2>3. Pending(o, NextScript(o))
      BY <1>5, <1>6 DEF IInv, Work
    <2>4. status # PgTrgm
      BY <1>1, Singles
    <2> QED
      BY <1>4, <2>2, <2>3, <2>4 DEF Pending
  <1> HIDE DEF status
  <1>7. revision' = revision /\ schema' = schema /\ op' = op /\ stored' = TRUE
    BY DEF StoreRecord
  <1>8. \A o \in Operators : Course(o)' /\ Work(o)' /\ Touched(o)' = Touched(o)
    BY <1>7, Frame DEF IInv
  <1>9. TypeOK' /\ Shape' /\ Follows'
    BY <1>7 DEF IInv, TypeOK, Shape, Follows
  <1>10. Alone'
    BY <1>7, <1>8 DEF IInv, Alone
  <1>11. Kept'
    BY <1>3, <1>5, <1>6, <1>7, NewestIs DEF Kept
  <1> QED
    BY <1>8, <1>9, <1>10, <1>11 DEF IInv

---------------------------------------------------------------------------
\* The theorems.

LEMMA Initially == Init => IInv
  <1> SUFFICES ASSUME Init
               PROVE  IInv
    OBVIOUS
  <1>1. /\ revision = 0 /\ schema = {} /\ stored = FALSE
        /\ op = [o \in Operators |-> Idle]
    BY DEF Init
  <1>2. /\ Idle.pc = "idle" /\ Idle.at = 0 /\ Idle.goal = 0
        /\ Idle.claimed = FALSE /\ Idle.made = {} /\ Idle.gone = {}
        /\ Idle \in Command
    BY NewestIs DEF Idle, Command
  <1> HIDE DEF Idle
  <1>3. TypeOK /\ Shape
    <2>1. \A o \in Operators : op[o] = Idle
      BY <1>1
    <2>2. {Idle.at, Idle.goal} \subseteq 0..Newest
      BY <1>2, NewestIs
    <2>3. TypeOK
      BY <1>1, <1>2, <2>1, <2>2, NewestIs DEF TypeOK
    <2>4. Shape
      BY <1>1, <1>2 DEF Shape
    <2> QED
      BY <2>3, <2>4
  <1>4. ASSUME NEW o \in Operators
        PROVE  Course(o) /\ Work(o) /\ Touched(o) = {} /\ ~ op[o].claimed
    BY <1>1, <1>2 DEF Course, Work, Touched
  <1>5. Alone /\ Kept
    BY <1>1, <1>4 DEF Alone, Kept
  <1>6. Follows
    BY <1>1, SchemaAtDef DEF Follows
  <1> QED
    BY <1>3, <1>4, <1>5, <1>6 DEF IInv

LEMMA Inductive == TargetsAssumption /\ IInv /\ [Next]_vars => IInv'
  <1> SUFFICES ASSUME TargetsAssumption, IInv, [Next]_vars
               PROVE  IInv'
    OBVIOUS
  <1>1. ASSUME NEW o \in Operators, NEW goal \in Targets, Begin(o, goal)
        PROVE  IInv'
    BY <1>1, BeginStep
  <1>2. ASSUME NEW o \in Operators, Ddl(o)
        PROVE  IInv'
    BY <1>2, DdlStep
  <1>3. ASSUME NEW o \in Operators, UpdateVersion(o)
        PROVE  IInv'
    BY <1>3, UpdateVersionStep
  <1>4. ASSUME NEW o \in Operators, Commit(o)
        PROVE  IInv'
    BY <1>4, CommitStep
  <1>5. ASSUME NEW o \in Operators, Abort(o)
        PROVE  IInv'
    BY <1>5, AbortStep
  <1>6. CASE StoreRecord
    BY <1>6, StoreRecordStep
  <1>7. CASE UNCHANGED vars
    <2>1. /\ revision' = revision /\ schema' = schema
          /\ stored' = stored /\ op' = op
      BY <1>7 DEF vars
    <2>2. \A o \in Operators : Course(o)' /\ Work(o)' /\ Touched(o)' = Touched(o)
      BY <2>1, Frame DEF IInv
    <2>3. TypeOK' /\ Shape' /\ Follows' /\ Alone' /\ Kept'
      BY <2>1, <2>2 DEF IInv, TypeOK, Shape, Follows, Alone, Kept
    <2> QED
      BY <2>2, <2>3 DEF IInv
  <1> QED
    BY <1>1, <1>2, <1>3, <1>4, <1>5, <1>6, <1>7 DEF Next

(* The invariant holds in every reachable state, for any set of operators    *)
(* (do_run_migrations of env.py, any number of them at once).                *)
THEOREM Invariance == Spec => []IInv
  <1>1. TargetsAssumption
    BY TargetsAssumption
  <1> QED
    BY <1>1, Initially, Inductive, PTL DEF Spec

(* The commands and the recorded revision are of their types.                *)
THEOREM TypeCorrect == Spec => []TypeOK
  <1>1. IInv => TypeOK
    BY DEF IInv
  <1> QED
    BY <1>1, Invariance, PTL

(* The committed schema is that of the recorded revision, however the        *)
(* commands of the operators interleave, fail and are undone (env.py).       *)
THEOREM SchemaFollows == Spec => []SchemaFollowsRevision
  <1>1. IInv => SchemaFollowsRevision
    BY DEF IInv, Follows, Lasting, SchemaFollowsRevision, Leftover
  <1> QED
    BY <1>1, Invariance, PTL

(* At the newest revision the tables are the models', by whatever sequence   *)
(* of upgrades and downgrades the database came there (migrations/versions). *)
THEOREM HeadMatches == Spec => []HeadMatchesModels
  <1>1. ASSUME IInv, revision = Newest
        PROVE  {x \in schema : x[1] \notin {"type", "extension", "function"}}
                 = Metadata
    <2>1. Lasting(schema) = Lasting(SchemaAt[14])
      BY <1>1, NewestIs DEF IInv, Follows
    <2> QED
      BY <2>1, UpgradesMakeModels DEF Lasting
  <1>2. IInv => HeadMatchesModels
    BY <1>1 DEF HeadMatchesModels
  <1> QED
    BY <1>2, Invariance, PTL

(* Once a request has left a record, no downgrade commits (migration 14's    *)
(* downgrade() cannot add its NOT NULL column), so none drops the table.     *)
THEOREM RecordsKept == Spec => RecordsSurvive
  <1>1. ASSUME IInv, [Next]_vars, stored
        PROVE  stored'
    <2>1. ASSUME NEW o \in Operators, Commit(o)
          PROVE  stored'
      BY <1>1, <2>1, CommitStep
    <2> QED
      BY <1>1, <2>1 DEF Next, vars, Begin, Ddl, UpdateVersion, Abort,
         StoreRecord
  <1>2. IInv /\ [Next]_vars => [stored => stored']_vars
    BY <1>1
  <1> QED
    BY <1>2, Invariance, PTL DEF Spec, RecordsSurvive

(* Two commands are never both past the row of alembic_version, and no two   *)
(* open transactions have changed objects of one table: what env.py relies   *)
(* on instead of a lock of its own.                                          *)
THEOREM CommandsApart == Spec => []Alone
  <1>1. IInv => Alone
    BY DEF IInv
  <1> QED
    BY <1>1, Invariance, PTL
=============================================================================
