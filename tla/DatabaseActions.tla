---------------------------- MODULE DatabaseActions ----------------------------
(***************************************************************************)
(* The actions of packages/db, on a server of one engine ("mysql" stands   *)
(* for MariaDB too).  A database keeps the users who have privileges on    *)
(* it, a user a password, a schema of a database its owner.                *)
(***************************************************************************)
EXTENDS Effects, FiniteSets

Db(name)           == <<"db", name>>
DbRole(name)       == <<"role", name>>
DbSchema(db, name) == <<"schema", db, name>>

Granted(users)   == [type |-> "db", users |-> users]
Secret(password) == [type |-> "role", password |-> password]
OwnedBy(owner)   == [type |-> "schema", owner |-> owner]

\* `grep` finds a name in a longer one.
Longer == {<<"ab", "b">>, <<"ba", "b">>}
Greps(name, pattern) == name = pattern \/ <<name, pattern>> \in Longer

\* The handler does the same for every element, one after the other.
InTurn(m, e, seq, Step(_, _)) ==
  FoldLeft(LAMBDA f, x : Then(m, f, LAMBDA n : Step(n, x)), e, seq)

-----------------------------------------------------------------------------
(***************************************************************************)
(* Privileges are looked for among the users of the database (MySQL) but   *)
(* by a pattern, or among the lines of the list of all the databases       *)
(* (PostgreSQL).                                                           *)
(***************************************************************************)
HasPrivileges(m, c, user) ==
  CASE c.engine = "mysql"      -> \E u \in m[Db(c.name)].users : Greps(u, user)
    [] c.engine = "postgresql" -> \E r \in DOMAIN m : r[1] = "db" /\ m[r] # Absent /\ user \in m[r].users

Grant(m, c, user) ==
  IF ~There(m, DbRole(user)) THEN Throw
  ELSE When(~HasPrivileges(m, c, user), Run(Db(c.name) := Granted(m[Db(c.name)].users \cup {user})))

DbDatabase(m, c) ==
  InTurn(m, When(~There(m, Db(c.name)), Run(Db(c.name) := Granted({}))), c.users,
         LAMBDA n, user : Grant(n, c, user))

\* `drop database if exists`.
DbDatabaseRemove(m, c) ==
  When(There(m, Db(c.name)), Run([r \in {q \in DOMAIN m : q = Db(c.name)
        \/ (q[1] = "schema" /\ q[2] = c.name)} |-> Absent]))
    \bullet Look

DbDatabaseExists(m, c) == Returns(Nothing, There(m, Db(c.name)))

\* The password is changed when it does not open a session.
DbUser(m, c) ==
  When(StateOf(m, DbRole(c.name)) # Secret(c.password), Run(DbRole(c.name) := Secret(c.password)))

\* MySQL drops the privileges of a user too, PostgreSQL does not drop a user
\* who has some.
DbUserRemove(m, c) ==
  LET holds == {r \in DOMAIN m : r[1] = "db" /\ m[r] # Absent /\ c.name \in m[r].users}
      drop  == [r \in holds |-> Granted(m[r].users \ {c.name})] ++ (DbRole(c.name) := Absent)
  IN  IF c.engine = "postgresql" /\ holds # {} THEN Throw
      ELSE When(There(m, DbRole(c.name)), Run(drop)) \bullet Look

DbUserExists(m, c) == Look

-----------------------------------------------------------------------------
(* Schemas: PostgreSQL only.                                               *)

Owns(m, c) ==
  \E r \in {q \in DOMAIN m : q[1] = "schema" /\ q[2] = c.db /\ m[q] # Absent} :
    Greps(r[3], c.name) /\ m[r].owner = c.owner

DbSchemaCreate(m, c) ==
  LET schema   == DbSchema(c.db, c.name)
      create   == When(~There(m, schema), Run(schema := OwnedBy("root")))
      owner(n) ==
        CASE c.owner = Unset \/ Owns(n, c) -> Nothing
          [] c.owner # Unset /\ ~Owns(n, c) ->
               IF There(n, DbRole(c.owner)) THEN Run(schema := OwnedBy(c.owner)) ELSE Throw
  IN  IF There(m, Db(c.db)) THEN Then(m, create, owner) ELSE Throw

DbSchemaExists(m, c) == Returns(Nothing, There(m, DbSchema(c.db, c.name)))

DbSchemaRemove(m, c) == When(There(m, DbSchema(c.db, c.name)), Run(DbSchema(c.db, c.name) := Absent))

\* The names and the owners of the schemas.
DbSchemaList(m, c) == IF There(m, Db(c.db)) THEN Look ELSE Throw

-----------------------------------------------------------------------------
(* What a user may ask, what is promised, what the code does not give.     *)

Engine == {"mysql", "postgresql"}

DbUserConfig         == [kind : {"db.user"}, engine : Engine, name : STRING, password : STRING]
DbDatabaseNameConfig == [kind : {"db.database.exists", "db.database.remove"}, engine : Engine, name : STRING]
DbUserNameConfig     == [kind : {"db.user.exists", "db.user.remove"}, engine : Engine, name : STRING]
DbSchemaConfig       == [kind : {"db.schema"}, db : STRING, name : STRING, owner : STRING]
DbSchemaNameConfig   == [kind : {"db.schema.exists", "db.schema.remove"}, db : STRING, name : STRING]
DbSchemaListConfig   == [kind : {"db.schema.list"}, db : STRING]

IsDbDatabaseConfig(c) ==
  c.kind = "db.database" /\ c.engine \in Engine /\ c.name \in STRING /\ c.users \in Seq(STRING)

DbLookKinds == {"db.database.exists", "db.user.exists", "db.schema.exists", "db.schema.list"}

DbKinds ==
  {"db.database", "db.user", "db.database.remove", "db.user.remove", "db.schema", "db.schema.remove"}
        \cup DbLookKinds

IsDbConfig(c) ==
  \/ IsDbDatabaseConfig(c)
  \/ c \in DbUserConfig \/ c \in DbDatabaseNameConfig \/ c \in DbUserNameConfig
  \/ c \in DbSchemaConfig \/ c \in DbSchemaNameConfig \/ c \in DbSchemaListConfig

DbHandler(c, m) ==
  CASE c.kind = "db.database"        -> DbDatabase(m, c)
    [] c.kind = "db.database.exists" -> DbDatabaseExists(m, c)
    [] c.kind = "db.database.remove" -> DbDatabaseRemove(m, c)
    [] c.kind = "db.user"            -> DbUser(m, c)
    [] c.kind = "db.user.exists"     -> DbUserExists(m, c)
    [] c.kind = "db.user.remove"     -> DbUserRemove(m, c)
    [] c.kind = "db.schema"          -> DbSchemaCreate(m, c)
    [] c.kind = "db.schema.exists"   -> DbSchemaExists(m, c)
    [] c.kind = "db.schema.remove"   -> DbSchemaRemove(m, c)
    [] c.kind = "db.schema.list"     -> DbSchemaList(m, c)

DbGoal(c, was, m) ==
  CASE c.kind = "db.database" ->
         There(m, Db(c.name)) /\ \A i \in DOMAIN c.users : c.users[i] \in m[Db(c.name)].users
    [] c.kind = "db.database.remove" -> ~There(m, Db(c.name))
    [] c.kind = "db.user"            -> StateOf(m, DbRole(c.name)) = Secret(c.password)
    [] c.kind = "db.user.remove"     -> ~There(m, DbRole(c.name))
    [] c.kind = "db.schema"          ->
         There(m, DbSchema(c.db, c.name)) /\ (c.owner # Unset => m[DbSchema(c.db, c.name)].owner = c.owner)
    [] c.kind = "db.schema.remove"   -> ~There(m, DbSchema(c.db, c.name))
    [] c.kind \in DbLookKinds        -> m = was

\* The privileges of the others and the other databases.
DbSpares(c, was, m) ==
  \A r \in DOMAIN was :
    \/ StateOf(m, r) = was[r]
    \/ "name" \in DOMAIN c /\ r \in {Db(c.name), DbRole(c.name)}
          /\ (c.kind = "db.database" /\ was[r] # Absent => was[r].users \subseteq m[r].users)
    \/ c.kind = "db.user.remove" /\ r[1] = "db" /\ StateOf(m, r) = Granted(was[r].users \ {c.name})
    \/ "name" \in DOMAIN c /\ r[1] = "schema" /\ c.name \in {r[2], r[3]}

DbExcept(c, was) ==
  CASE c.kind = "db.database" ->
         \* another user, or the user in another database, is taken for the one of the database
         IF \E i \in DOMAIN c.users : \E r \in DOMAIN was :
              r[1] = "db" /\ was[r] # Absent /\ \E u \in was[r].users : Greps(u, c.users[i])
         THEN {"Delivers", "Converges"} ELSE {}
    [] c.kind \in {"db.database.remove", "db.user.remove"} \cup DbLookKinds -> {"StatusTells"}
    [] c.kind = "db.schema" ->
         \* another schema of the owner is taken for this one
         IF \E r \in DOMAIN was : r[1] = "schema" /\ was[r] # Absent /\ r[3] # c.name /\ Greps(r[3], c.name)
               /\ was[r].owner = c.owner
         THEN {"Delivers", "Converges"} ELSE {}
    [] c.kind \in {"db.user", "db.schema.remove"} -> {}
=============================================================================
