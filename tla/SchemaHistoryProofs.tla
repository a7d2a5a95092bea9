------------------------ MODULE SchemaHistoryProofs ------------------------
(* What the migrations make of an empty database, what each downgrade makes  *)
(* of that, and that the newest schema is the one the models declare.        *)
EXTENDS SchemaHistory, Integers, TLAPS

\* The objects that a downgrade which drops their table drops as well.
Lasting(S) == {x \in S : x[1] \notin {"type", "extension"}}

\* Whose objects each of the first nine migrations creates.
Owner ==
  <<"set_updated_at", "user_identities", "user_credentials", "user_sessions",
    "emails", "user_activations", "user_login_lockouts", "login_history",
    "idempotency_records">>

\* The kinds of objects that are part of a table.
PartKinds ==
  {"required", "optional", "default", "unique", "references", "index",
   "gin index", "partial unique index"}

PartOf(x, t) ==
  \/ x \in {Table(t), Trigger(t)}
  \/ \E kind \in PartKinds : \E names : x \in Of(kind, t, names)

Outlives(x) == x = PgTrgm \/ \E names : x \in Types(names)

---------------------------------------------------------------------------
\* The migrations, one by one.

LEMMA NewestIs == Newest = 14
  BY DEF Newest, Migration

LEMMA Numbered ==
  /\ Migration[1] = Migration01   /\ Migration[2] = Migration02
  /\ Migration[3] = Migration03   /\ Migration[4] = Migration04
  /\ Migration[5] = Migration05   /\ Migration[6] = Migration06
  /\ Migration[7] = Migration07   /\ Migration[8] = Migration08
  /\ Migration[9] = Migration09   /\ Migration[10] = Migration10
  /\ Migration[11] = Migration11  /\ Migration[12] = Migration12
  /\ Migration[13] = Migration13  /\ Migration[14] = Migration14
  BY DEF Migration

LEMMA Owners ==
  /\ Owner[1] = "set_updated_at"       /\ Owner[2] = "user_identities"
  /\ Owner[3] = "user_credentials"     /\ Owner[4] = "user_sessions"
  /\ Owner[5] = "emails"               /\ Owner[6] = "user_activations"
  /\ Owner[7] = "user_login_lockouts"  /\ Owner[8] = "login_history"
  /\ Owner[9] = "idempotency_records"
  BY DEF Owner

LEMMA OwnersDiffer == \A j, k \in 1..9 : Owner[j] = Owner[k] => j = k
  <1> TAKE j, k \in 1..9
  <1>1. /\ j \in {1, 2, 3, 4, 5, 6, 7, 8, 9}
        /\ k \in {1, 2, 3, 4, 5, 6, 7, 8, 9}
    OBVIOUS
  <1> QED
    BY <1>1, Owners

LEMMA OfParts ==
  \A kind, t, names : \A x \in Of(kind, t, names) : x[1] = kind /\ x[2] = t
  BY DEF Of

LEMMA TypesKind == \A names : \A x \in Types(names) : x[1] = "type"
  <1>1. \A n : <<"type", n, "">>[1] = "type"
    OBVIOUS
  <1>2. \A names : \A x \in Types(names) : \E n : x = <<"type", n, "">>
    BY DEF Types
  <1> QED
    BY <1>1, <1>2

LEMMA Singles ==
  /\ \A t : Table(t)[1] = "table" /\ Table(t)[2] = t
  /\ \A t : Trigger(t)[1] = "trigger" /\ Trigger(t)[2] = t
  /\ SetUpdatedAt[1] = "function" /\ SetUpdatedAt[2] = "set_updated_at"
  /\ PgTrgm[1] = "extension"
  BY DEF Table, Trigger, SetUpdatedAt, PgTrgm

LEMMA PartOwned ==
  \A x, t : PartOf(x, t) =>
    x[2] = t /\ x[1] \notin {"type", "extension", "function"}
  <1> TAKE x, t
  <1>1. CASE x \in {Table(t), Trigger(t)}
    BY <1>1, Singles
  <1>2. ASSUME NEW kind \in PartKinds, NEW names, x \in Of(kind, t, names)
        PROVE  x[2] = t /\ x[1] \notin {"type", "extension", "function"}
    <2>1. x[1] = kind /\ x[2] = t
      BY <1>2, OfParts
    <2> QED
      BY <2>1 DEF PartKinds
  <1> QED
    BY <1>1, <1>2 DEF PartOf

LEMMA OutlivesKind == \A x : Outlives(x) => x[1] \in {"type", "extension"}
  BY TypesKind, Singles DEF Outlives

(* A migration that creates a table drops nothing and creates, types and the *)
(* extension apart, only parts of that table.                                *)
LEMMA Creates ==
  \A r \in 2..9 :
    /\ Migration[r].up.drops = {}
    /\ Migration[r].up.tables = {}
    /\ \A x \in Migration[r].up.adds : Outlives(x) \/ PartOf(x, Owner[r])
  <1>2. /\ Migration[2].up.drops = {}
        /\ Migration[2].up.tables = {}
        /\ \A x \in Migration[2].up.adds : Outlives(x) \/ PartOf(x, Owner[2])
    <2>1. /\ Migration02.up.drops = {}
          /\ Migration02.up.tables = {}
      BY DEF Migration02, Script
    <2>2. \A x \in Migration02.up.adds :
            Outlives(x) \/ PartOf(x, "user_identities")
      BY DEF Migration02, Script, CreateTable, Outlives, PartOf, PartKinds
    <2> QED
      BY <2>1, <2>2, Numbered, Owners
  <1>3. /\ Migration[3].up.drops = {}
        /\ Migration[3].up.tables = {}
        /\ \A x \in Migration[3].up.adds : Outlives(x) \/ PartOf(x, Owner[3])
    <2>1. /\ Migration03.up.drops = {}
          /\ Migration03.up.tables = {}
      BY DEF Migration03, Script
    <2>2. \A x \in Migration03.up.adds :
            Outlives(x) \/ PartOf(x, "user_credentials")
      BY DEF Migration03, Script, CreateTable, Outlives, PartOf, PartKinds
    <2> QED
      BY <2>1, <2>2, Numbered, Owners
  <1>4. /\ Migration[4].up.drops = {}
        /\ Migration[4].up.tables = {}
        /\ \A x \in Migration[4].up.adds : Outlives(x) \/ PartOf(x, Owner[4])
    <2>1. /\ Migration04.up.drops = {}
          /\ Migration04.up.tables = {}
      BY DEF Migration04, Script
    <2>2. \A x \in Migration04.up.adds :
            Outlives(x) \/ PartOf(x, "user_sessions")
      BY DEF Migration04, Script, CreateTable, Outlives, PartOf, PartKinds
    <2> QED
      BY <2>1, <2>2, Numbered, Owners
  <1>5. /\ Migration[5].up.drops = {}
        /\ Migration[5].up.tables = {}
        /\ \A x \in Migration[5].up.adds : Outlives(x) \/ PartOf(x, Owner[5])
    <2>1. /\ Migration05.up.drops = {}
          /\ Migration05.up.tables = {}
      BY DEF Migration05, Script
    <2>2. \A x \in Migration05.up.adds :
            Outlives(x) \/ PartOf(x, "emails")
      BY DEF Migration05, Script, CreateTable, Outlives, PartOf, PartKinds
    <2> QED
      BY <2>1, <2>2, Numbered, Owners
  <1>6. /\ Migration[6].up.drops = {}
        /\ Migration[6].up.tables = {}
        /\ \A x \in Migration[6].up.adds : Outlives(x) \/ PartOf(x, Owner[6])
    <2>1. /\ Migration06.up.drops = {}
          /\ Migration06.up.tables = {}
      BY DEF Migration06, Script
    <2>2. \A x \in Migration06.up.adds :
            Outlives(x) \/ PartOf(x, "user_activations")
      BY DEF Migration06, Script, CreateTable, Outlives, PartOf, PartKinds
    <2> QED
      BY <2>1, <2>2, Numbered, Owners
  <1>7. /\ Migration[7].up.drops = {}
        /\ Migration[7].up.tables = {}
        /\ \A x \in Migration[7].up.adds : Outlives(x) \/ PartOf(x, Owner[7])
    <2>1. /\ Migration07.up.drops = {}
          /\ Migration07.up.tables = {}
      BY DEF Migration07, Script
    <2>2. \A x \in Migration07.up.adds :
            Outlives(x) \/ PartOf(x, "user_login_lockouts")
      BY DEF Migration07, Script, CreateTable, Outlives, PartOf, PartKinds
    <2> QED
      BY <2>1, <2>2, Numbered, Owners
  <1>8. /\ Migration[8].up.drops = {}
        /\ Migration[8].up.tables = {}
        /\ \A x \in Migration[8].up.adds : Outlives(x) \/ PartOf(x, Owner[8])
    <2>1. /\ Migration08.up.drops = {}
          /\ Migration08.up.tables = {}
      BY DEF Migration08, Script
    <2>2. \A x \in Migration08.up.adds :
            Outlives(x) \/ PartOf(x, "login_history")
      BY DEF Migration08, Script, CreateTable, Outlives, PartOf, PartKinds
    <2> QED
      BY <2>1, <2>2, Numbered, Owners
  <1>9. /\ Migration[9].up.drops = {}
        /\ Migration[9].up.tables = {}
        /\ \A x \in Migration[9].up.adds : Outlives(x) \/ PartOf(x, Owner[9])
    <2>1. /\ Migration09.up.drops = {}
          /\ Migration09.up.tables = {}
      BY DEF Migration09, Script
    <2>2. \A x \in Migration09.up.adds :
            Outlives(x) \/ PartOf(x, "idempotency_records")
      BY DEF Migration09, Script, CreateTable, Outlives, PartOf, PartKinds
    <2> QED
      BY <2>1, <2>2, Numbered, Owners
  <1> QED
    BY <1>2, <1>3, <1>4, <1>5, <1>6, <1>7, <1>8, <1>9

LEMMA SchemaAtDef ==
  /\ SchemaAt[0] = {}
  /\ \A r \in 1..Newest : SchemaAt[r] = Run(Migration[r].up, SchemaAt[r - 1])
  <1> DEFINE Step(f, r) == IF r = 0 THEN {} ELSE Run(Migration[r].up, f[r - 1])
  <1>1. SchemaAt = CHOOSE f : f = [r \in 0..Newest |-> Step(f, r)]
    BY DEF SchemaAt
  <1>2. \E f : f = [r \in 0..Newest |-> Step(f, r)]
    <2> DEFINE s0 == {}
               s1 == Run(Migration[1].up, s0)
               s2 == Run(Migration[2].up, s1)
               s3 == Run(Migration[3].up, s2)
               s4 == Run(Migration[4].up, s3)
               s5 == Run(Migration[5].up, s4)
               s6 == Run(Migration[6].up, s5)
               s7 == Run(Migration[7].up, s6)
               s8 == Run(Migration[8].up, s7)
               s9 == Run(Migration[9].up, s8)
               s10 == Run(Migration[10].up, s9)
               s11 == Run(Migration[11].up, s10)
               s12 == Run(Migration[12].up, s11)
               s13 == Run(Migration[13].up, s12)
               s14 == Run(Migration[14].up, s13)
               at(r) ==
                 CASE r = 0 -> s0 [] r = 1 -> s1 [] r = 2 -> s2
                   [] r = 3 -> s3 [] r = 4 -> s4 [] r = 5 -> s5
                   [] r = 6 -> s6 [] r = 7 -> s7 [] r = 8 -> s8
                   [] r = 9 -> s9 [] r = 10 -> s10 [] r = 11 -> s11
                   [] r = 12 -> s12 [] r = 13 -> s13 [] r = 14 -> s14
               s == [r \in 0..Newest |-> at(r)]
    <2> HIDE DEF s1, s2, s3, s4, s5, s6, s7, s8, s9, s10, s11, s12, s13, s14
    <2>1. \A r \in 0..Newest : at(r) = Step(s, r)
      <3> TAKE r \in 0..Newest
      <3>1. r \in 0..14
        BY NewestIs
      <3> USE NewestIs
      <3>2. CASE r \in 0..4
        BY <3>2 DEF s1, s2, s3, s4
      <3>3. CASE r \in 5..9
        BY <3>3 DEF s5, s6, s7, s8, s9
      <3>4. CASE r \in 10..14
        BY <3>4 DEF s10, s11, s12, s13, s14
      <3> QED
        BY <3>1, <3>2, <3>3, <3>4
    <2> HIDE DEF at
    <2>2. s = [r \in 0..Newest |-> Step(s, r)]
      BY <2>1
    <2> QED
      BY <2>2
  <1>3. SchemaAt = [r \in 0..Newest |-> Step(SchemaAt, r)]
    <2> HIDE DEF Step
    <2> QED BY <1>1, <1>2
  <1>4. \A r \in 0..Newest : SchemaAt[r] = Step(SchemaAt, r)
    <2> HIDE DEF Step
    <2> QED BY <1>3
  <1> QED
    BY <1>4, NewestIs

---------------------------------------------------------------------------
\* The schemas of the revisions.

(* Up to revision 9 every migration only adds.                               *)
LEMMA Grows ==
  /\ SchemaAt[0] = {}
  /\ SchemaAt[1] = {SetUpdatedAt}
  /\ \A r \in 2..9 : SchemaAt[r] = SchemaAt[r - 1] \cup Migration[r].up.adds
  <1>1. SchemaAt[1] = {SetUpdatedAt}
    BY SchemaAtDef, NewestIs, Numbered DEF Migration01, Script, Run
  <1>2. \A r \in 2..9 : SchemaAt[r] = SchemaAt[r - 1] \cup Migration[r].up.adds
    <2> TAKE r \in 2..9
    <2>1. SchemaAt[r] = Run(Migration[r].up, SchemaAt[r - 1])
      BY SchemaAtDef, NewestIs
    <2>2. Migration[r].up.drops = {} /\ Migration[r].up.tables = {}
      BY Creates
    <2> QED
      BY <2>1, <2>2 DEF Run
  <1> QED
    BY <1>1, <1>2, SchemaAtDef

(* ... and the later ones change single objects.                             *)
LEMMA Amends ==
  /\ SchemaAt[10] = SchemaAt[9] \ Migration[10].up.drops
  /\ \A r \in 11..13 : SchemaAt[r] = SchemaAt[r - 1] \cup Migration[r].up.adds
  /\ SchemaAt[14] = (SchemaAt[13] \ Migration[14].up.drops)
                       \cup Migration[14].up.adds
  <1>1. /\ Migration[10].up.tables = {} /\ Migration[10].up.adds = {}
        /\ \A r \in 11..13 : Migration[r].up.tables = {} /\ Migration[r].up.drops = {}
        /\ Migration[14].up.tables = {}
    <2>0. Migration10.up.tables = {} /\ Migration10.up.adds = {}
      BY DEF Migration10, Script
    <2>1. Migration11.up.tables = {} /\ Migration11.up.drops = {}
      BY DEF Migration11, Script
    <2>2. Migration12.up.tables = {} /\ Migration12.up.drops = {}
      BY DEF Migration12, Script
    <2>3. Migration13.up.tables = {} /\ Migration13.up.drops = {}
      BY DEF Migration13, Script
    <2>4. Migration14.up.tables = {}
      BY DEF Migration14, Script
    <2>5. \A r \in 11..13 : r \in {11, 12, 13}
      OBVIOUS
    <2> QED
      BY <2>0, <2>1, <2>2, <2>3, <2>4, <2>5, Numbered
  <1> QED
    BY <1>1, SchemaAtDef, NewestIs DEF Run

(* Where an object of one of the first nine schemas comes from.              *)
Origin(r) ==
  \A x \in SchemaAt[r] :
    \/ Outlives(x)
    \/ x = SetUpdatedAt
    \/ \E k \in 2..9 : k =< r /\ PartOf(x, Owner[k]) /\ x \in Migration[k].up.adds

LEMMA Origins == \A r \in 0..9 : Origin(r)
  <1>0. Origin(0)
    BY Grows DEF Origin
  <1>1. Origin(1)
    BY Grows DEF Origin
  <1>s. ASSUME NEW r \in 2..9, Origin(r - 1)
        PROVE  Origin(r)
    BY <1>s, Grows, Creates DEF Origin
  <1>2. Origin(2)
    BY <1>1, <1>s
  <1>3. Origin(3)
    BY <1>2, <1>s
  <1>4. Origin(4)
    BY <1>3, <1>s
  <1>5. Origin(5)
    BY <1>4, <1>s
  <1>6. Origin(6)
    BY <1>5, <1>s
  <1>7. Origin(7)
    BY <1>6, <1>s
  <1>8. Origin(8)
    BY <1>7, <1>s
  <1>9. Origin(9)
    BY <1>8, <1>s
  <1> QED
    <2> TAKE r \in 0..9
    <2>1. r \in {0, 1, 2, 3, 4, 5, 6, 7, 8, 9}
      OBVIOUS
    <2> QED
      BY <2>1, <1>0, <1>1, <1>2, <1>3, <1>4, <1>5, <1>6, <1>7, <1>8, <1>9

(* A part of a table comes from the migration that creates the table.        *)
LEMMA PartFrom ==
  \A r \in 0..9, k \in 2..9 : \A x :
    x \in SchemaAt[r] /\ PartOf(x, Owner[k]) =>
      k =< r /\ x \in Migration[k].up.adds
  <1> SUFFICES ASSUME NEW r \in 0..9, NEW k \in 2..9, NEW x,
                      x \in SchemaAt[r], PartOf(x, Owner[k])
               PROVE  k =< r /\ x \in Migration[k].up.adds
    OBVIOUS
  <1>1. x[2] = Owner[k] /\ x[1] \notin {"type", "extension", "function"}
    BY PartOwned
  <1>2. ~ Outlives(x) /\ x # SetUpdatedAt
    BY <1>1, OutlivesKind, Singles
  <1>3. PICK j \in 2..9 : /\ j =< r
                          /\ PartOf(x, Owner[j])
                          /\ x \in Migration[j].up.adds
    BY <1>2, Origins DEF Origin
  <1>4. j = k
    BY <1>1, <1>3, PartOwned, OwnersDiffer
  <1> QED
    BY <1>3, <1>4

LEMMA NinthHasAll ==
  /\ \A r \in 1..9 : SetUpdatedAt \in SchemaAt[r]
  /\ \A k \in 2..9 : Migration[k].up.adds \subseteq SchemaAt[9]
  <1> DEFINE Has(r) == /\ SetUpdatedAt \in SchemaAt[r]
                       /\ \A k \in 2..r : Migration[k].up.adds \subseteq SchemaAt[r]
  <1>1. Has(1)
    BY Grows
  <1>s. ASSUME NEW r \in 2..9, Has(r - 1)
        PROVE  Has(r)
    BY <1>s, Grows
  <1> HIDE DEF Has
  <1>2. Has(2)
    BY <1>1, <1>s
  <1>3. Has(3)
    BY <1>2, <1>s
  <1>4. Has(4)
    BY <1>3, <1>s
  <1>5. Has(5)
    BY <1>4, <1>s
  <1>6. Has(6)
    BY <1>5, <1>s
  <1>7. Has(7)
    BY <1>6, <1>s
  <1>8. Has(8)
    BY <1>7, <1>s
  <1>9. Has(9)
    BY <1>8, <1>s
  <1>a. \A r \in 1..9 : Has(r)
    <2> TAKE r \in 1..9
    <2>1. r \in {1, 2, 3, 4, 5, 6, 7, 8, 9}
      OBVIOUS
    <2> QED
      BY <2>1, <1>1, <1>2, <1>3, <1>4, <1>5, <1>6, <1>7, <1>8, <1>9
  <1> QED
    BY <1>a DEF Has

\* The single objects that the migrations after the ninth change.
PersonalIdentity == <<"partial unique index", "user_credentials", "personal identity_id">>
IdentityAndType  == <<"unique", "user_credentials", "identity_id, account_type">>
EmailDefault(n)  == <<"default", "emails", n>>
Record(kind, n)  == <<kind, "idempotency_records", n>>

LEMMA Changes ==
  /\ Migration[10].up.drops = {PersonalIdentity}
  /\ Migration[11].up.adds = {IdentityAndType}
  /\ Migration[12].up.adds = {EmailDefault("max_retries")}
  /\ Migration[13].up.adds = {EmailDefault("status"), EmailDefault("retry_count")}
  /\ Migration[14].up.drops = {Record("optional", "http_status"),
                               Record("required", "status")}
  /\ Migration[14].up.adds = {Record("required", "http_status")}
  <1>1. Migration10.up.drops = {PersonalIdentity}
    BY DEF Migration10, Script, Of, PersonalIdentity
  <1>2. Migration11.up.adds = {IdentityAndType}
    BY DEF Migration11, Script, Of, IdentityAndType
  <1>3. Migration12.up.adds = {EmailDefault("max_retries")}
    BY DEF Migration12, Script, Of, EmailDefault
  <1>4. Migration13.up.adds = {EmailDefault("status"), EmailDefault("retry_count")}
    BY DEF Migration13, Script, Of, EmailDefault
  <1>5. Migration14.up.drops = {Record("optional", "http_status"),
                               Record("required", "status")}
    BY DEF Migration14, Script, Of, Record
  <1>6. Migration14.up.adds = {Record("required", "http_status")}
    BY DEF Migration14, Script, Of, Record
  <1> QED
    BY <1>1, <1>2, <1>3, <1>4, <1>5, <1>6, Numbered

(* Their downgrades do the opposite.                                         *)
LEMMA Restores ==
  /\ Migration[10].down.adds = {PersonalIdentity}
  /\ Migration[10].down.drops = {}
  /\ Migration[11].down.drops = {IdentityAndType}
  /\ Migration[12].down.drops = {EmailDefault("max_retries")}
  /\ Migration[13].down.drops = {EmailDefault("status"), EmailDefault("retry_count")}
  /\ \A r \in 11..13 : Migration[r].down.adds = {}
  /\ Migration[14].down.drops = {Record("required", "http_status")}
  /\ Migration[14].down.adds = {Record("optional", "http_status"),
                                Record("required", "status")}
  /\ \A r \in 10..14 : Migration[r].down.tables = {}
  <1>1. /\ Migration10.down.adds = {PersonalIdentity}
        /\ Migration10.down.drops = {} /\ Migration10.down.tables = {}
    BY DEF Migration10, Script, Of, PersonalIdentity
  <1>2. /\ Migration11.down.drops = {IdentityAndType}
        /\ Migration11.down.adds = {} /\ Migration11.down.tables = {}
    BY DEF Migration11, Script, Of, IdentityAndType
  <1>3. /\ Migration12.down.drops = {EmailDefault("max_retries")}
        /\ Migration12.down.adds = {} /\ Migration12.down.tables = {}
    BY DEF Migration12, Script, Of, EmailDefault
  <1>4. /\ Migration13.down.drops = {EmailDefault("status"), EmailDefault("retry_count")}
        /\ Migration13.down.adds = {} /\ Migration13.down.tables = {}
    BY DEF Migration13, Script, Of, EmailDefault
  <1>5. Migration14.down.drops = {Record("required", "http_status")}
    BY DEF Migration14, Script, Of, Record
  <1>6. Migration14.down.adds = {Record("optional", "http_status"),
                                 Record("required", "status")}
    BY DEF Migration14, Script, Of, Record
  <1>7. Migration14.down.tables = {}
    BY DEF Migration14, Script
  <1>8. /\ \A r \in 10..14 : r \in {10, 11, 12, 13, 14}
        /\ \A r \in 11..13 : r \in {11, 12, 13}
    OBVIOUS
  <1> QED
    BY <1>1, <1>2, <1>3, <1>4, <1>5, <1>6, <1>7, <1>8, Numbered

(* What they add was not there before, what they take away was.              *)
LEMMA Fresh ==
  /\ PersonalIdentity \in SchemaAt[9]
  /\ IdentityAndType \notin SchemaAt[9]
  /\ \A n \in {"max_retries", "status", "retry_count"} :
       EmailDefault(n) \notin SchemaAt[9]
  /\ Record("required", "http_status") \notin SchemaAt[9]
  /\ Record("optional", "http_status") \in SchemaAt[9]
  /\ Record("required", "status") \in SchemaAt[9]
  <1>1. PersonalIdentity \in SchemaAt[9]
    <2>1. PersonalIdentity \in Migration03.up.adds
      BY DEF PersonalIdentity, Migration03, Script, Of
    <2> QED
      BY <2>1, Numbered, NinthHasAll
  <1>2. IdentityAndType \notin SchemaAt[9]
    <2>1. PartOf(IdentityAndType, "user_credentials")
      BY DEF IdentityAndType, PartOf, PartKinds, Of
    <2>2. IdentityAndType \notin Migration03.up.adds
      BY DEF IdentityAndType, Migration03, Script, Of, CreateTable, Table,
             Trigger, PgTrgm, Types
    <2> QED
      BY <2>1, <2>2, Numbered, Owners, PartFrom
  <1>3. ASSUME NEW n \in {"max_retries", "status", "retry_count"}
        PROVE  EmailDefault(n) \notin SchemaAt[9]
    <2>1. PartOf(EmailDefault(n), "emails")
      BY DEF EmailDefault, PartOf, PartKinds, Of
    <2>2. EmailDefault(n) \notin Migration05.up.adds
      BY DEF EmailDefault, Migration05, Script, Of, CreateTable, Table,
             Trigger, Types
    <2> QED
      BY <2>1, <2>2, Numbered, Owners, PartFrom
  <1>4. Record("required", "http_status") \notin SchemaAt[9]
    <2>1. PartOf(Record("required", "http_status"), "idempotency_records")
      BY DEF Record, PartOf, PartKinds, Of
    <2>2. Record("required", "http_status") \notin Migration09.up.adds
      BY DEF Record, Migration09, Script, Of, CreateTable, Table, Types
    <2> QED
      BY <2>1, <2>2, Numbered, Owners, PartFrom
  <1>5. Record("optional", "http_status") \in SchemaAt[9]
    <2>1. Record("optional", "http_status") \in Migration09.up.adds
      BY DEF Record, Migration09, Script, Of, CreateTable
    <2> QED
      BY <2>1, Numbered, NinthHasAll
  <1>6. Record("required", "status") \in SchemaAt[9]
    <2>1. Record("required", "status") \in Migration09.up.adds
      BY DEF Record, Migration09, Script, Of, CreateTable
    <2> QED
      BY <2>1, Numbered, NinthHasAll
  <1> QED
    BY <1>1, <1>2, <1>3, <1>4, <1>5, <1>6

(* The downgrade of a migration that created a table drops that table, and   *)
(* by name only parts of it.                                                 *)
LEMMA Drops ==
  \A r \in 2..9 \ {8} :
    /\ Migration[r].down.tables = {Owner[r]}
    /\ Migration[r].down.adds = {}
    /\ \A x \in Migration[r].down.drops : PartOf(x, Owner[r])
  <1>2. /\ Migration[2].down.tables = {Owner[2]}
        /\ Migration[2].down.adds = {}
        /\ \A x \in Migration[2].down.drops : PartOf(x, Owner[2])
    <2>1. /\ Migration02.down.tables = {"user_identities"}
          /\ Migration02.down.adds = {}
      BY DEF Migration02, Script
    <2>2. \A x \in Migration02.down.drops : PartOf(x, "user_identities")
      BY DEF Migration02, Script, PartOf, PartKinds
    <2> QED
      BY <2>1, <2>2, Numbered, Owners
  <1>3. /\ Migration[3].down.tables = {Owner[3]}
        /\ Migration[3].down.adds = {}
        /\ \A x \in Migration[3].down.drops : PartOf(x, Owner[3])
    <2>1. /\ Migration03.down.tables = {"user_credentials"}
          /\ Migration03.down.adds = {}
      BY DEF Migration03, Script
    <2>2. \A x \in Migration03.down.drops : PartOf(x, "user_credentials")
      BY DEF Migration03, Script, PartOf, PartKinds
    <2> QED
      BY <2>1, <2>2, Numbered, Owners
  <1>4. /\ Migration[4].down.tables = {Owner[4]}
        /\ Migration[4].down.adds = {}
        /\ \A x \in Migration[4].down.drops : PartOf(x, Owner[4])
    <2>1. /\ Migration04.down.tables = {"user_sessions"}
          /\ Migration04.down.adds = {}
      BY DEF Migration04, Script
    <2>2. \A x \in Migration04.down.drops : PartOf(x, "user_sessions")
      BY DEF Migration04, Script, PartOf, PartKinds
    <2> QED
      BY <2>1, <2>2, Numbered, Owners
  <1>5. /\ Migration[5].down.tables = {Owner[5]}
        /\ Migration[5].down.adds = {}
        /\ \A x \in Migration[5].down.drops : PartOf(x, Owner[5])
    <2>1. /\ Migration05.down.tables = {"emails"}
          /\ Migration05.down.adds = {}
      BY DEF Migration05, Script
    <2>2. \A x \in Migration05.down.drops : PartOf(x, "emails")
      BY DEF Migration05, Script, PartOf, PartKinds
    <2> QED
      BY <2>1, <2>2, Numbered, Owners
  <1>6. /\ Migration[6].down.tables = {Owner[6]}
        /\ Migration[6].down.adds = {}
        /\ \A x \in Migration[6].down.drops : PartOf(x, Owner[6])
    <2>1. /\ Migration06.down.tables = {"user_activations"}
          /\ Migration06.down.adds = {}
      BY DEF Migration06, Script
    <2>2. \A x \in Migration06.down.drops : PartOf(x, "user_activations")
      BY DEF Migration06, Script, PartOf, PartKinds
    <2> QED
      BY <2>1, <2>2, Numbered, Owners
  <1>7. /\ Migration[7].down.tables = {Owner[7]}
        /\ Migration[7].down.adds = {}
        /\ \A x \in Migration[7].down.drops : PartOf(x, Owner[7])
    <2>1. /\ Migration07.down.tables = {"user_login_lockouts"}
          /\ Migration07.down.adds = {}
      BY DEF Migration07, Script
    <2>2. \A x \in Migration07.down.drops : PartOf(x, "user_login_lockouts")
      BY DEF Migration07, Script, PartOf, PartKinds
    <2> QED
      BY <2>1, <2>2, Numbered, Owners
  <1>9. /\ Migration[9].down.tables = {Owner[9]}
        /\ Migration[9].down.adds = {}
        /\ \A x \in Migration[9].down.drops : PartOf(x, Owner[9])
    <2>1. /\ Migration09.down.tables = {"idempotency_records"}
          /\ Migration09.down.adds = {}
      BY DEF Migration09, Script
    <2>2. \A x \in Migration09.down.drops : PartOf(x, "idempotency_records")
      BY DEF Migration09, Script, PartOf, PartKinds
    <2> QED
      BY <2>1, <2>2, Numbered, Owners
  <1> QED
    BY <1>2, <1>3, <1>4, <1>5, <1>6, <1>7, <1>9

(* The five schemas, spelled out.                                            *)
LEMMA Chain ==
  /\ SchemaAt[10] = SchemaAt[9] \ {PersonalIdentity}
  /\ SchemaAt[11] = SchemaAt[10] \cup {IdentityAndType}
  /\ SchemaAt[12] = SchemaAt[11] \cup {EmailDefault("max_retries")}
  /\ SchemaAt[13] = SchemaAt[12]
                      \cup {EmailDefault("status"), EmailDefault("retry_count")}
  /\ SchemaAt[14] = (SchemaAt[13] \ {Record("optional", "http_status"),
                                     Record("required", "status")})
                      \cup {Record("required", "http_status")}
  <1>1. SchemaAt[11] = SchemaAt[10] \cup Migration[11].up.adds
    BY Amends
  <1>2. SchemaAt[12] = SchemaAt[11] \cup Migration[12].up.adds
    BY Amends
  <1>3. SchemaAt[13] = SchemaAt[12] \cup Migration[13].up.adds
    BY Amends
  <1> QED
    BY <1>1, <1>2, <1>3, Amends, Changes

LEMMA Apart ==
  /\ EmailDefault("max_retries") \notin {IdentityAndType}
  /\ \A n \in {"status", "retry_count"} :
       EmailDefault(n) \notin {IdentityAndType, EmailDefault("max_retries")}
  /\ \A x \in {Record("required", "http_status"), Record("optional", "http_status"),
               Record("required", "status")} :
       x \notin {PersonalIdentity, IdentityAndType, EmailDefault("max_retries"),
                EmailDefault("status"), EmailDefault("retry_count")}
  /\ Record("required", "http_status")
       \notin {Record("optional", "http_status"), Record("required", "status")}
  BY DEF PersonalIdentity, IdentityAndType, EmailDefault, Record

LEMMA AddedLate ==
  /\ IdentityAndType \notin SchemaAt[10]
  /\ EmailDefault("max_retries") \notin SchemaAt[11]
  /\ \A n \in {"status", "retry_count"} : EmailDefault(n) \notin SchemaAt[12]
  /\ \A r \in 0..13 : Record("required", "http_status") \notin SchemaAt[r]
  /\ Record("required", "http_status") \in SchemaAt[14]
  /\ Record("optional", "http_status") \in SchemaAt[13]
  /\ Record("required", "status") \in SchemaAt[13]
  <1>1. IdentityAndType \notin SchemaAt[10]
    BY Fresh, Chain
  <1>2. EmailDefault("max_retries") \notin SchemaAt[11]
    BY Fresh, Chain, Apart
  <1>3. \A n \in {"status", "retry_count"} : EmailDefault(n) \notin SchemaAt[12]
    BY Fresh, Chain, Apart
  <1>4. \A r \in 0..13 : Record("required", "http_status") \notin SchemaAt[r]
    <2>1. \A r \in 0..9 : Record("required", "http_status") \notin SchemaAt[r]
      <3>1. PartOf(Record("required", "http_status"), Owner[9])
        BY Owners DEF Record, PartOf, PartKinds, Of
      <3>2. Record("required", "http_status") \notin Migration[9].up.adds
        BY Fresh, NinthHasAll
      <3> QED
        BY <3>1, <3>2, PartFrom
    <2>2. /\ Record("required", "http_status") \notin SchemaAt[10]
          /\ Record("required", "http_status") \notin SchemaAt[11]
          /\ Record("required", "http_status") \notin SchemaAt[12]
          /\ Record("required", "http_status") \notin SchemaAt[13]
      BY Fresh, Chain, Apart
    <2>3. \A r \in 0..13 : r \in 0..9 \/ r \in {10, 11, 12, 13}
      OBVIOUS
    <2> QED
      BY <2>1, <2>2, <2>3
  <1>5. Record("required", "http_status") \in SchemaAt[14]
    BY Chain
  <1>6. Record("optional", "http_status") \in SchemaAt[13]
    BY Fresh, Chain, Apart
  <1>7. Record("required", "status") \in SchemaAt[13]
    BY Fresh, Chain, Apart
  <1> QED
    BY <1>1, <1>2, <1>3, <1>4, <1>5, <1>6, <1>7

---------------------------------------------------------------------------
\* What a command relies on.

(* The effect of a script on what goes with its tables does not depend on    *)
(* the types and extensions that happen to be there.                         *)
LEMMA RunLasting ==
  ASSUME NEW script, NEW S, NEW T, Lasting(S) = Lasting(T)
  PROVE  Lasting(Run(script, S)) = Lasting(Run(script, T))
  BY DEF Lasting, Run

(* An upgrade takes the schema of a revision to that of the next.            *)
LEMMA Upgrades ==
  \A r \in 0..(Newest - 1) :
    Run(Migration[r + 1].up, SchemaAt[r]) = SchemaAt[r + 1]
  <1> TAKE r \in 0..(Newest - 1)
  <1>1. r + 1 \in 1..Newest /\ (r + 1) - 1 = r
    BY NewestIs
  <1> QED
    BY <1>1, SchemaAtDef

(* Every downgrade there is undoes its upgrade, but for types and extensions *)
(* (each downgrade() of migrations/versions).                                *)
THEOREM DowngradesUndo ==
  \A r \in Reversible :
    Lasting(Run(Migration[r].down, SchemaAt[r])) = Lasting(SchemaAt[r - 1])
  <1>1. Lasting(Run(Migration[1].down, SchemaAt[1])) = Lasting(SchemaAt[0])
    <2>1. Migration01.down.drops = {SetUpdatedAt} /\ Migration01.down.adds = {}
      BY DEF Migration01, Script
    <2> QED
      BY <2>1, Numbered, Grows DEF Run, Lasting
  <1>2. ASSUME NEW r \in 2..9 \ {8}
        PROVE  Lasting(Run(Migration[r].down, SchemaAt[r]))
                 = Lasting(SchemaAt[r - 1])
    <2>1. ASSUME NEW x \in Lasting(Run(Migration[r].down, SchemaAt[r]))
          PROVE  x \in Lasting(SchemaAt[r - 1])
      <3>1. x \in SchemaAt[r] /\ x[2] # Owner[r]
        BY Drops DEF Run, Lasting
      <3>2. ~ Outlives(x) /\ ~ PartOf(x, Owner[r])
        BY <3>1, PartOwned, OutlivesKind DEF Lasting
      <3>3. x \in SchemaAt[r - 1]
        BY <3>1, <3>2, Grows, Creates
      <3> QED
        BY <3>3 DEF Lasting
    <2>2. ASSUME NEW x \in Lasting(SchemaAt[r - 1])
          PROVE  x \in Lasting(Run(Migration[r].down, SchemaAt[r]))
      <3>1. x \in SchemaAt[r - 1] /\ x \in SchemaAt[r]
        BY Grows DEF Lasting
      <3>2. ~ Outlives(x)
        BY OutlivesKind DEF Lasting
      <3>3. x[2] # Owner[r]
        <4>1. CASE x = SetUpdatedAt
          BY <4>1, Singles, Owners, OwnersDiffer
        <4>2. CASE x # SetUpdatedAt
          <5>1. PICK k \in 2..9 : k =< r - 1 /\ PartOf(x, Owner[k])
            BY <3>1, <3>2, <4>2, Origins DEF Origin
          <5> QED
            BY <5>1, PartOwned, OwnersDiffer
        <4> QED
          BY <4>1, <4>2
      <3>4. x \notin Migration[r].down.drops
        BY <3>3, Drops, PartOwned
      <3> QED
        BY <3>1, <3>3, <3>4, Drops DEF Run, Lasting
    <2> QED
      BY <2>1, <2>2
  <1>3. Run(Migration[10].down, SchemaAt[10]) = SchemaAt[9]
    BY Chain, Fresh, Restores DEF Run
  <1>4. Run(Migration[11].down, SchemaAt[11]) = SchemaAt[10]
    BY Chain, AddedLate, Restores DEF Run
  <1>5. Run(Migration[12].down, SchemaAt[12]) = SchemaAt[11]
    BY Chain, AddedLate, Restores DEF Run
  <1>6. Run(Migration[13].down, SchemaAt[13]) = SchemaAt[12]
    BY Chain, AddedLate, Restores DEF Run
  <1>7. Run(Migration[14].down, SchemaAt[14]) = SchemaAt[13]
    BY Chain, AddedLate, Restores, Apart DEF Run
  <1> QED
    <2>1. \A r \in Reversible : r \in 2..9 \ {8} \/ r \in {1, 10, 11, 12, 13, 14}
      BY NewestIs DEF Reversible
    <2> QED
      BY <2>1, <1>1, <1>2, <1>3, <1>4, <1>5, <1>6, <1>7

LEMMA TriggerFunction == \A r \in 1..Newest : SetUpdatedAt \in SchemaAt[r]
  <1>1. SetUpdatedAt \notin {PersonalIdentity, Record("optional", "http_status"),
                            Record("required", "status")}
    BY DEF SetUpdatedAt, PersonalIdentity, Record
  <1>2. /\ SetUpdatedAt \in SchemaAt[10] /\ SetUpdatedAt \in SchemaAt[11]
        /\ SetUpdatedAt \in SchemaAt[12] /\ SetUpdatedAt \in SchemaAt[13]
        /\ SetUpdatedAt \in SchemaAt[14]
    BY <1>1, NinthHasAll, Chain
  <1>3. \A r \in 1..Newest : r \in 1..9 \/ r \in {10, 11, 12, 13, 14}
    BY NewestIs
  <1> QED
    BY <1>2, <1>3, NinthHasAll

---------------------------------------------------------------------------
\* What the models declare.

LEMMA ModelParts ==
  /\ \A x \in UserIdentity : PartOf(x, Owner[2])
  /\ \A x \in UserCredentials : PartOf(x, Owner[3])
  /\ \A x \in UserSession : PartOf(x, Owner[4])
  /\ \A x \in Email : PartOf(x, Owner[5])
  /\ \A x \in UserActivation : PartOf(x, Owner[6])
  /\ \A x \in UserLoginLockout : PartOf(x, Owner[7])
  /\ \A x \in LoginHistory : PartOf(x, Owner[8])
  /\ \A x \in IdempotencyRecord : PartOf(x, Owner[9])
  <1>2. \A x \in UserIdentity : PartOf(x, "user_identities")
    BY DEF UserIdentity, PartOf, PartKinds, CreateTable, IdMixin,
       CreatedAtMixin, UpdatedAtMixin,
             PublicIdMixin
  <1>3. \A x \in UserCredentials : PartOf(x, "user_credentials")
    BY DEF UserCredentials, PartOf, PartKinds, CreateTable, IdMixin,
       CreatedAtMixin, UpdatedAtMixin,
             PublicIdMixin
  <1>4. \A x \in UserSession : PartOf(x, "user_sessions")
    BY DEF UserSession, PartOf, PartKinds, CreateTable, IdMixin,
       CreatedAtMixin, UpdatedAtMixin,
             PublicIdMixin
  <1>5. \A x \in Email : PartOf(x, "emails")
    BY DEF Email, PartOf, PartKinds, CreateTable, IdMixin, CreatedAtMixin,
       UpdatedAtMixin,
             PublicIdMixin
  <1>6. \A x \in UserActivation : PartOf(x, "user_activations")
    BY DEF UserActivation, PartOf, PartKinds, CreateTable, IdMixin,
       CreatedAtMixin, UpdatedAtMixin,
             PublicIdMixin
  <1>7. \A x \in UserLoginLockout : PartOf(x, "user_login_lockouts")
    BY DEF UserLoginLockout, PartOf, PartKinds, CreateTable, IdMixin,
       CreatedAtMixin, UpdatedAtMixin,
             PublicIdMixin
  <1>8. \A x \in LoginHistory : PartOf(x, "login_history")
    BY DEF LoginHistory, PartOf, PartKinds, CreateTable, IdMixin,
       CreatedAtMixin, UpdatedAtMixin,
             PublicIdMixin
  <1>9. \A x \in IdempotencyRecord : PartOf(x, "idempotency_records")
    BY DEF IdempotencyRecord, PartOf, PartKinds, CreateTable, IdMixin,
       CreatedAtMixin, UpdatedAtMixin,
             PublicIdMixin
  <1> QED
    BY <1>2, <1>3, <1>4, <1>5, <1>6, <1>7, <1>8, <1>9, Owners

(* What a model and the migrations that touch its table have in common.      *)
LEMMA ModelsMade ==
  /\ \A x \in Migration02.up.adds : x \in UserIdentity \/ Outlives(x)
  /\ UserIdentity \subseteq Migration02.up.adds
  /\ \A x \in Migration03.up.adds :
       x \in UserCredentials \/ Outlives(x) \/ x = PersonalIdentity
  /\ UserCredentials \subseteq Migration03.up.adds \cup {IdentityAndType}
  /\ IdentityAndType \in UserCredentials
  /\ PersonalIdentity \notin UserCredentials
  /\ \A x \in Migration04.up.adds : x \in UserSession \/ Outlives(x)
  /\ UserSession \subseteq Migration04.up.adds
  /\ \A x \in Migration05.up.adds : x \in Email \/ Outlives(x)
  /\ Email \subseteq Migration05.up.adds
       \cup {EmailDefault(n) : n \in {"max_retries", "status", "retry_count"}}
  /\ \A n \in {"max_retries", "status", "retry_count"} :
       EmailDefault(n) \in Email
  /\ \A x \in Migration06.up.adds : x \in UserActivation \/ Outlives(x)
  /\ UserActivation \subseteq Migration06.up.adds
  /\ \A x \in Migration07.up.adds : x \in UserLoginLockout \/ Outlives(x)
  /\ UserLoginLockout \subseteq Migration07.up.adds
  /\ \A x \in Migration08.up.adds : x \in LoginHistory \/ Outlives(x)
  /\ LoginHistory \subseteq Migration08.up.adds
  /\ \A x \in Migration09.up.adds :
       \/ x \in IdempotencyRecord \/ Outlives(x)
       \/ x = Record("optional", "http_status")
       \/ x = Record("required", "status")
  /\ IdempotencyRecord \subseteq Migration09.up.adds
       \cup {Record("required", "http_status")}
  /\ Record("required", "http_status") \in IdempotencyRecord
  /\ Record("optional", "http_status") \notin IdempotencyRecord
  /\ Record("required", "status") \notin IdempotencyRecord
  <1>2a. \A x \in Migration02.up.adds : x \in UserIdentity \/ Outlives(x)
    BY DEF Migration02, Script, UserIdentity, Of, CreateTable, IdMixin,
       CreatedAtMixin, UpdatedAtMixin,
             PublicIdMixin, Outlives
  <1>2b. UserIdentity \subseteq Migration02.up.adds
    BY ZenonT(40) DEF Migration02, Script, UserIdentity, Of, CreateTable,
       IdMixin, CreatedAtMixin, UpdatedAtMixin,
             PublicIdMixin
  <1>3a. \A x \in Migration03.up.adds :
            x \in UserCredentials \/ Outlives(x) \/ x = PersonalIdentity
    BY ZenonT(40) DEF Migration03, Script, UserCredentials, Of, CreateTable,
       IdMixin, CreatedAtMixin, UpdatedAtMixin,
             PublicIdMixin, Outlives, PersonalIdentity
  <1>3b. UserCredentials \subseteq Migration03.up.adds \cup {IdentityAndType}
    <2> DEFINE t      == "user_credentials"
               mixins == IdMixin(t) \cup PublicIdMixin(t) \cup CreatedAtMixin(t)
                         \cup UpdatedAtMixin(t)
    <2>1. mixins \subseteq Migration03.up.adds
      BY ZenonT(40) DEF Migration03, Script, Of, CreateTable, IdMixin,
         CreatedAtMixin,
             UpdatedAtMixin, PublicIdMixin
    <2>2. UserCredentials \ mixins
            \subseteq Migration03.up.adds
              \cup {IdentityAndType}
      BY ZenonT(40) DEF Migration03, Script, UserCredentials, Of, CreateTable,
         IdentityAndType
    <2> QED
      BY <2>1, <2>2
  <1>3c. IdentityAndType \in UserCredentials
    BY DEF UserCredentials, Of, CreateTable, IdMixin, CreatedAtMixin,
       UpdatedAtMixin,
             PublicIdMixin, IdentityAndType
  <1>3d. PersonalIdentity \notin UserCredentials
    BY DEF UserCredentials, Of, CreateTable, IdMixin, CreatedAtMixin,
       UpdatedAtMixin,
             PublicIdMixin, PersonalIdentity, Table, Trigger
  <1>4a. \A x \in Migration04.up.adds : x \in UserSession \/ Outlives(x)
    BY DEF Migration04, Script, UserSession, Of, CreateTable, IdMixin,
       CreatedAtMixin, UpdatedAtMixin,
             PublicIdMixin, Outlives
  <1>4b. UserSession \subseteq Migration04.up.adds
    <2> DEFINE t      == "user_sessions"
               mixins == IdMixin(t) \cup PublicIdMixin(t) \cup CreatedAtMixin(t)
                         \cup UpdatedAtMixin(t)
    <2>1. mixins \subseteq Migration04.up.adds
      BY ZenonT(40) DEF Migration04, Script, Of, CreateTable, IdMixin,
             CreatedAtMixin, UpdatedAtMixin, PublicIdMixin
    <2>2. UserSession \ mixins \subseteq Migration04.up.adds
      BY ZenonT(40) DEF Migration04, Script, UserSession, Of, CreateTable
    <2> QED
      BY <2>1, <2>2
  <1>5a. \A x \in Migration05.up.adds : x \in Email \/ Outlives(x)
    BY DEF Migration05, Script, Email, Of, CreateTable, IdMixin,
       CreatedAtMixin, UpdatedAtMixin,
             PublicIdMixin, Outlives
  <1>5b. Email \subseteq Migration05.up.adds
            \cup {EmailDefault(n) : n \in {"max_retries", "status", "retry_count"}}
    <2> DEFINE t      == "emails"
               mixins == IdMixin(t) \cup PublicIdMixin(t) \cup CreatedAtMixin(t)
                         \cup UpdatedAtMixin(t)
    <2>1. mixins \subseteq Migration05.up.adds
      BY ZenonT(40) DEF Migration05, Script, Of, CreateTable, IdMixin,
         CreatedAtMixin,
             UpdatedAtMixin, PublicIdMixin
    <2>2. Email \ mixins
            \subseteq Migration05.up.adds
              \cup {EmailDefault(n) : n \in {"max_retries", "status", "retry_count"}}
      BY ZenonT(40) DEF Migration05, Script, Email, Of, CreateTable,
         EmailDefault
    <2> QED
      BY <2>1, <2>2
  <1>5c. \A n \in {"max_retries", "status", "retry_count"} :
            EmailDefault(n) \in Email
    BY DEF Email, Of, CreateTable, IdMixin, CreatedAtMixin, UpdatedAtMixin,
             PublicIdMixin, EmailDefault
  <1>6a. \A x \in Migration06.up.adds : x \in UserActivation \/ Outlives(x)
    BY DEF Migration06, Script, UserActivation, Of, CreateTable, IdMixin,
       CreatedAtMixin, UpdatedAtMixin,
             PublicIdMixin, Outlives
  <1>6b. UserActivation \subseteq Migration06.up.adds
    BY ZenonT(40) DEF Migration06, Script, UserActivation, Of, CreateTable,
       IdMixin, CreatedAtMixin, UpdatedAtMixin,
             PublicIdMixin
  <1>7a. \A x \in Migration07.up.adds : x \in UserLoginLockout \/ Outlives(x)
    BY DEF Migration07, Script, UserLoginLockout, Of, CreateTable, IdMixin,
       CreatedAtMixin, UpdatedAtMixin,
             PublicIdMixin, Outlives
  <1>7b. UserLoginLockout \subseteq Migration07.up.adds
    BY ZenonT(40) DEF Migration07, Script, UserLoginLockout, Of, CreateTable,
       IdMixin, CreatedAtMixin, UpdatedAtMixin,
             PublicIdMixin
  <1>8a. \A x \in Migration08.up.adds : x \in LoginHistory \/ Outlives(x)
    BY DEF Migration08, Script, LoginHistory, Of, CreateTable, IdMixin,
       CreatedAtMixin, UpdatedAtMixin,
             PublicIdMixin, Outlives
  <1>8b. LoginHistory \subseteq Migration08.up.adds
    BY ZenonT(40) DEF Migration08, Script, LoginHistory, Of, CreateTable,
       IdMixin, CreatedAtMixin, UpdatedAtMixin,
             PublicIdMixin
  <1>9a. \A x \in Migration09.up.adds :
            \/ x \in IdempotencyRecord \/ Outlives(x)
            \/ x = Record("optional", "http_status")
            \/ x = Record("required", "status")
    BY DEF Migration09, Script, IdempotencyRecord, Of, CreateTable, IdMixin,
       CreatedAtMixin, UpdatedAtMixin,
             PublicIdMixin, Outlives, Record
  <1>9b. IdempotencyRecord \subseteq Migration09.up.adds
            \cup {Record("required", "http_status")}
    BY ZenonT(40) DEF Migration09, Script, IdempotencyRecord, Of, CreateTable,
       IdMixin, CreatedAtMixin, UpdatedAtMixin,
             PublicIdMixin, Record
  <1>9c. Record("required", "http_status") \in IdempotencyRecord
    BY DEF IdempotencyRecord, Of, CreateTable, IdMixin, CreatedAtMixin,
       UpdatedAtMixin,
             PublicIdMixin, Record
  <1>9d. Record("optional", "http_status") \notin IdempotencyRecord
    BY DEF IdempotencyRecord, Of, CreateTable, IdMixin, CreatedAtMixin,
       UpdatedAtMixin,
             PublicIdMixin, Record, Table, Trigger
  <1>9e. Record("required", "status") \notin IdempotencyRecord
    BY DEF IdempotencyRecord, Of, CreateTable, IdMixin, CreatedAtMixin,
       UpdatedAtMixin,
             PublicIdMixin, Record, Table, Trigger
  <1> QED
    BY <1>2a, <1>2b, <1>3a, <1>3b, <1>3c, <1>3d, <1>4a, <1>4b, <1>5a, <1>5b,
       <1>5c, <1>6a, <1>6b, <1>7a, <1>7b, <1>8a, <1>8b, <1>9a, <1>9b, <1>9c,
       <1>9d, <1>9e

LEMMA Newest14 ==
  \A x : x \in SchemaAt[14] <=>
    \/ /\ x \in SchemaAt[9]
       /\ x \notin {PersonalIdentity, Record("optional", "http_status"),
                    Record("required", "status")}
    \/ x \in {IdentityAndType, EmailDefault("max_retries"),
              EmailDefault("status"), EmailDefault("retry_count"),
              Record("required", "http_status")}
  BY Chain, Apart

(* The upgrades of all migrations create exactly what the models declare     *)
(* (alembic's autogenerate would find nothing to do).                        *)
THEOREM UpgradesMakeModels ==
  {x \in SchemaAt[14] : x[1] \notin {"type", "extension", "function"}} = Metadata
  <1> DEFINE Parts == {x \in SchemaAt[14] :
                        x[1] \notin {"type", "extension", "function"}}
             Dropped == {PersonalIdentity, Record("optional", "http_status"),
                         Record("required", "status")}
  <1>1. ASSUME NEW x \in Parts
        PROVE  x \in Metadata
    <2>1. CASE x \in {IdentityAndType, EmailDefault("max_retries"),
                     EmailDefault("status"), EmailDefault("retry_count"),
                     Record("required", "http_status")}
      BY <2>1, ModelsMade DEF Metadata
    <2>2. CASE x \in SchemaAt[9] /\ x \notin Dropped
      <3>1. ~ Outlives(x) /\ x # SetUpdatedAt
        BY OutlivesKind, Singles
      <3>2. PICK k \in 2..9 : x \in Migration[k].up.adds
        BY <2>2, <3>1, Origins DEF Origin
      <3>3. k \in {2, 3, 4, 5, 6, 7, 8, 9}
        OBVIOUS
      <3>4. CASE k = 2
        BY <3>4, <3>1, <3>2, <2>2, Numbered, ModelsMade DEF Metadata
      <3>5. CASE k = 3
        BY <3>5, <3>1, <3>2, <2>2, Numbered, ModelsMade DEF Metadata
      <3>6. CASE k = 4
        BY <3>6, <3>1, <3>2, <2>2, Numbered, ModelsMade DEF Metadata
      <3>7. CASE k = 5
        BY <3>7, <3>1, <3>2, <2>2, Numbered, ModelsMade DEF Metadata
      <3>8. CASE k = 6
        BY <3>8, <3>1, <3>2, <2>2, Numbered, ModelsMade DEF Metadata
      <3>9. CASE k = 7
        BY <3>9, <3>1, <3>2, <2>2, Numbered, ModelsMade DEF Metadata
      <3>10. CASE k = 8
        BY <3>10, <3>1, <3>2, <2>2, Numbered, ModelsMade DEF Metadata
      <3>11. CASE k = 9
        BY <3>11, <3>1, <3>2, <2>2, Numbered, ModelsMade DEF Metadata
      <3> QED
        BY <3>3, <3>4, <3>5, <3>6, <3>7, <3>8, <3>9, <3>10, <3>11
    <2> QED
      BY <2>1, <2>2, Newest14
  <1>2. ASSUME NEW k \in 2..9, NEW x, PartOf(x, Owner[k]),
               x \in Migration[k].up.adds, x \notin Dropped
        PROVE  x \in Parts
    BY <1>2, NinthHasAll, Newest14, PartOwned
  <1>3. /\ PersonalIdentity[2] = "user_credentials"
        /\ \A kind, n : Record(kind, n)[2] = "idempotency_records"
    BY DEF PersonalIdentity, Record
  <1>4. ASSUME NEW k \in 2..9, NEW x, PartOf(x, Owner[k]), x \in Dropped
        PROVE  \/ k = 3 /\ x = PersonalIdentity
               \/ k = 9 /\ x # PersonalIdentity
    <2>1. x[2] = Owner[k]
      BY <1>4, PartOwned
    <2>2. CASE x = PersonalIdentity
      BY <2>1, <2>2, <1>3, Owners, OwnersDiffer
    <2>3. CASE x # PersonalIdentity
      BY <2>1, <2>3, <1>3, <1>4, Owners, OwnersDiffer
    <2> QED
      BY <2>2, <2>3
  <1>5. ASSUME NEW x \in Metadata
        PROVE  x \in Parts
    <2>1. CASE x \in UserIdentity
      <3>1. PartOf(x, Owner[2])
        BY <2>1, ModelParts
      <3> QED
        BY <2>1, <3>1, <1>2, <1>4, Numbered, ModelsMade
    <2>2. CASE x \in UserCredentials
      <3>1. PartOf(x, Owner[3])
        BY <2>2, ModelParts
      <3>2. CASE x = IdentityAndType
        BY <3>1, <3>2, Newest14, PartOwned
      <3> QED
        BY <2>2, <3>1, <3>2, <1>2, <1>4, Numbered, ModelsMade
    <2>3. CASE x \in UserSession
      <3>1. PartOf(x, Owner[4])
        BY <2>3, ModelParts
      <3> QED
        BY <2>3, <3>1, <1>2, <1>4, Numbered, ModelsMade
    <2>4. CASE x \in Email
      <3>1. PartOf(x, Owner[5])
        BY <2>4, ModelParts
      <3>2. CASE x \in {EmailDefault(n) : n \in {"max_retries", "status", "retry_count"}}
        BY <3>1, <3>2, Newest14, PartOwned
      <3> QED
        BY <2>4, <3>1, <3>2, <1>2, <1>4, Numbered, ModelsMade
    <2>5. CASE x \in UserActivation
      <3>1. PartOf(x, Owner[6])
        BY <2>5, ModelParts
      <3> QED
        BY <2>5, <3>1, <1>2, <1>4, Numbered, ModelsMade
    <2>6. CASE x \in UserLoginLockout
      <3>1. PartOf(x, Owner[7])
        BY <2>6, ModelParts
      <3> QED
        BY <2>6, <3>1, <1>2, <1>4, Numbered, ModelsMade
    <2>7. CASE x \in LoginHistory
      <3>1. PartOf(x, Owner[8])
        BY <2>7, ModelParts
      <3> QED
        BY <2>7, <3>1, <1>2, <1>4, Numbered, ModelsMade
    <2>8. CASE x \in IdempotencyRecord
      <3>1. PartOf(x, Owner[9])
        BY <2>8, ModelParts
      <3>2. CASE x = Record("required", "http_status")
        BY <3>1, <3>2, Newest14, PartOwned
      <3> QED
        BY <2>8, <3>1, <3>2, <1>2, <1>4, Numbered, ModelsMade
    <2> QED
      BY <2>1, <2>2, <2>3, <2>4, <2>5, <2>6, <2>7, <2>8 DEF Metadata
  <1> QED
    BY <1>1, <1>5
=============================================================================
