---------------------------- MODULE DirectoryActions ----------------------------
(***************************************************************************)
(* The actions of packages/ldap and packages/ipa, on a directory.  An      *)
(* entry of LDAP maps the names of its attributes to sets of values, the   *)
(* configuration of a database holds its indexes and the sequence of its   *)
(* access rules.  An entry of IPA maps the names of its attributes to a    *)
(* value; the server refuses to delete some (the group of the              *)
(* administrators, the services of the realm).                             *)
(***************************************************************************)
EXTENDS DatabaseActions

Entry(dn)         == <<"ldap", dn>>
LdapSchemas       == <<"schemas">>
Ipa(type, name)   == <<"ipa", type, name>>

Attributes(attrs)       == [type |-> "entry", attrs |-> attrs, password |-> Unset]
Conf(indexes, acls)     == [type |-> "conf", indexes |-> indexes, acls |-> acls]
IpaEntry(attrs, kept)   == [type |-> "ipa", attrs |-> attrs, locked |-> FALSE, members |-> {}, kept |-> kept]

-----------------------------------------------------------------------------
(* LDAP.                                                                   *)

\* Entries are added when they are not there, and are not compared.  One
\* command adds them all, one after the other.
LdapAdd(m, c) ==
  InTurn(m, Nothing, c.entries, LAMBDA n, e :
    When(~There(m, Entry(e.dn)), Run(Entry(e.dn) := Attributes(e.attrs))))

\* Only the first entry is looked for.
LdapDelete(m, c) ==
  When(There(m, Entry(Head(c.dns))),
       InTurn(m, Nothing, c.dns, LAMBDA n, dn :
         IF There(n, Entry(dn)) THEN Run(Entry(dn) := Absent) ELSE Throw))

\* One operation of a modification, on the attributes of an entry: << >> when
\* the server refuses it.
Modified(attrs, op) ==
  LET old == IF op.name \in DOMAIN attrs THEN attrs[op.name] ELSE {}
      set(values) == <<attrs ++ (op.name := values)>>
  IN  CASE op.type = "add"     /\ op.value \notin old                  -> set(old \cup {op.value})
        [] op.type = "delete"  /\ op.value = Unset /\ old # {}         -> set({})
        [] op.type = "delete"  /\ op.value \in old                     -> set(old \ {op.value})
        [] op.type = "replace"                                         -> set({op.value})
        [] OTHER                                                       -> << >>

\* The operations on an entry are done together or not at all.  The status
\* compares the entry after with the entry before.
LdapModify(m, c) ==
  LET step(attrs, op) == IF attrs = << >> THEN << >> ELSE Modified(attrs[1], op)
      result == FoldLeft(step, <<m[Entry(c.dn)].attrs>>, c.attributes)
      entry  == [m[Entry(c.dn)] EXCEPT !.attrs = result[1]]
  IN  IF ~There(m, Entry(c.dn)) THEN Throw
      ELSE IF result = << >> THEN Throw
      ELSE Returns(Write(Entry(c.dn) := entry), entry # m[Entry(c.dn)])

LdapIndex(m, c) ==
  LET conf == [m[Entry(c.dn)] EXCEPT !.indexes = @ ++ c.indexes]
  IN  IF ~There(m, Entry(c.dn)) THEN Throw
      ELSE Returns(Write(Entry(c.dn) := conf), conf # m[Entry(c.dn)])

(***************************************************************************)
(* A rule says to what (`to`) who has access (`by`, a sequence).  A rule    *)
(* of the same length which differs is merged: what is asked and is not    *)
(* all there is comes before what there is.                                *)
(***************************************************************************)
MergedBy(by, old) ==
  LET missing == SelectSeq(by, LAMBDA x : \E i \in DOMAIN old : old[i] # x)
  IN  IF Len(by) = Len(old) /\ missing # << >> THEN missing \o old ELSE by

\* `after` is read where it is not: the rule is put at the end.
AclPosition(rules, acl) ==
  LET before == {i \in DOMAIN rules : rules[i].to = acl.place_before}
  IN  CASE acl.place_before # Unset /\ before # {} -> CHOOSE i \in before : \A j \in before : j <= i
        [] (acl.place_before = Unset \/ before = {}) /\ acl.first       -> 1
        [] (acl.place_before = Unset \/ before = {}) /\ ~acl.first      -> Len(rules) + 1

(***************************************************************************)
(* The attribute is deleted without a value: with all its rules.  `old` is *)
(* declared once for all the acls: after one that was merged, the others   *)
(* delete the attribute too.                                               *)
(***************************************************************************)
AclRules(known, acl) ==
  LET rules == known.rules
      same  == {i \in DOMAIN rules : rules[i].to = acl.to}
      by    == rules[CHOOSE i \in same : \A j \in same : i <= j].by
      put(r) == [rules |-> <<[to |-> acl.to, by |-> r]>>, old |-> TRUE]
  IN  CASE same # {} /\ by = acl.by  -> known
        [] same # {} /\ by # acl.by  -> put(MergedBy(acl.by, by))
        [] same = {} /\ known.old    -> put(acl.by)
        [] same = {} /\ ~known.old   ->
             [known EXCEPT !.rules = InsertAt(rules, AclPosition(rules, acl), [to |-> acl.to, by |-> acl.by])]

LdapAcl(m, c) ==
  LET after(k) == FoldLeft(AclRules, [rules |-> m[Entry(c.dn)].acls, old |-> FALSE], SubSeq(c.acls, 1, k)).rules
      one(n, k) == When(after(k) # n[Entry(c.dn)].acls,
            Run(Entry(c.dn) := [n[Entry(c.dn)] EXCEPT !.acls = after(k)]))
  IN  IF There(m, Entry(c.dn)) THEN InTurn(m, Nothing, [k \in DOMAIN c.acls |-> k], one) ELSE Throw

\* The action `system.mkdir` is not registered: a schema is never added.
LdapSchema(m, c) == IF c.name \in m[LdapSchemas].names THEN Nothing ELSE Throw

\* That the user was added is read from an output which does not tell it: the
\* status is that of the password.
LdapUser(m, c) ==
  LET add == LdapAdd(m, [entries |-> <<[dn |-> c.dn, attrs |-> c.attrs]>>])
      password(n) == When(c.password # Unset /\ n[Entry(c.dn)].password # c.password,
                       Run(Entry(c.dn) := [n[Entry(c.dn)] EXCEPT !.password = c.password]))
  IN  Then(m, Shy(add), password)

LdapSearch(m, c)    == IF There(m, Entry(c.dn)) THEN Look ELSE Throw
LdapDatabase(m, c)  == IF There(m, Entry(c.dn)) THEN Nothing ELSE Throw

-----------------------------------------------------------------------------
(***************************************************************************)
(* IPA: requests to the server, whose answer holds an error or a result.   *)
(* A request that is answered has the status of a command that succeeds.   *)
(***************************************************************************)
IpaShow(m, r)   == IF There(m, r) THEN Look ELSE Throw
IpaExists(m, r) == Returns(Nothing, There(m, r))

\* The error of the answer is not read.
IpaDel(m, r) ==
  When(There(m, r), Returns(When(~m[r].kept, Run(r := Absent)), TRUE))

\* What is modified: << >> when there is nothing to modify (the error 4202).
Modifies(m, r, attrs) == {k \in DOMAIN attrs : k \notin DOMAIN m[r].attrs \/ m[r].attrs[k] # attrs[k]}

IpaGroup(m, c) ==
  LET r == Ipa("group", c.name)
  IN  IF ~There(m, r) THEN Run(r := IpaEntry(c.attrs, FALSE))
      ELSE When(Modifies(m, r, c.attrs) # {}, Run(r := [m[r] EXCEPT !.attrs = @ ++ c.attrs]))

\* The server tells in its result, not as an error, that a member is there.
IpaGroupAddMember(m, c) ==
  LET r == Ipa("group", c.name)
  IN  IF ~There(m, r) THEN Throw
      ELSE Returns(When(There(m, Ipa("user", c.user)), Run(r := [m[r] EXCEPT !.members = @ \cup {c.user}])), TRUE)

\* The password of a user who exists is sent when it is forced: always a change.
IpaUser(m, c) ==
  LET r     == Ipa("user", c.name)
      attrs == [k \in {j \in DOMAIN c.attrs : There(m, r) /\ ~c.force => j # "userpassword"} |-> c.attrs[k]]
  IN  IF ~There(m, r) THEN Run(r := IpaEntry(attrs, FALSE))
      ELSE When(Modifies(m, r, attrs) # {} \/ "userpassword" \in DOMAIN attrs,
                Run(r := [m[r] EXCEPT !.attrs = @ ++ attrs]))

IpaLock(m, name, locked) ==
  LET r == Ipa("user", name)
  IN  IF ~There(m, r) THEN Throw
      ELSE When(m[r].locked # locked, Run(r := [m[r] EXCEPT !.locked = locked]))

IpaUserDisable(m, c) == IpaLock(m, c.name, TRUE)
IpaUserEnable(m, c)  == IpaLock(m, c.name, FALSE)

IpaService(m, c) ==
  LET r == Ipa("service", c.name)
  IN  When(~There(m, r), Run(r := IpaEntry(<< >>, FALSE)))

IpaUserFind(m, c)   == Look
IpaUserStatus(m, c) == IpaShow(m, Ipa("user", c.name))

IpaGroupShow(m, c)     == IpaShow(m, Ipa("group", c.name))
IpaGroupExists(m, c)   == IpaExists(m, Ipa("group", c.name))
IpaGroupDel(m, c)      == IpaDel(m, Ipa("group", c.name))
IpaUserShow(m, c)      == IpaShow(m, Ipa("user", c.name))
IpaUserExists(m, c)    == IpaExists(m, Ipa("user", c.name))
IpaUserDel(m, c)       == IpaDel(m, Ipa("user", c.name))
IpaServiceShow(m, c)   == IpaShow(m, Ipa("service", c.name))
IpaServiceExists(m, c) == IpaExists(m, Ipa("service", c.name))
IpaServiceDel(m, c)    == IpaDel(m, Ipa("service", c.name))

-----------------------------------------------------------------------------
(* What a user may ask, what is promised, what the code does not give.     *)

LdapLookKinds == {"ldap.search", "ldap.tools.database"}

LdapDnConfig     == [kind : LdapLookKinds, dn : STRING]
LdapSchemaConfig == [kind : {"ldap.schema"}, name : STRING]
LdapOperation    == [type : {"add", "delete", "replace"}, name : STRING, value : STRING]

IsLdapAddConfig(c) ==
  c.kind = "ldap.add" /\ \A i \in DOMAIN c.entries : c.entries[i].dn \in STRING
IsLdapDeleteConfig(c) == c.kind = "ldap.delete" /\ c.dns \in Seq(STRING) /\ c.dns # << >>
IsLdapModifyConfig(c) == c.kind = "ldap.modify" /\ c.dn \in STRING /\ c.attributes \in Seq(LdapOperation)
IsLdapIndexConfig(c)  == c.kind = "ldap.index" /\ c.dn \in STRING /\ \A k \in DOMAIN c.indexes : k \in STRING
IsLdapAclConfig(c) ==
  /\ c.kind = "ldap.acl"
  /\ c.acls \in Seq([to : STRING, by : Seq(STRING), first : BOOLEAN, place_before : STRING])
IsLdapUserConfig(c) == c.kind = "ldap.user" /\ c.dn \in STRING /\ c.password \in STRING

LdapKinds == LdapLookKinds \cup
  {"ldap.schema", "ldap.add", "ldap.delete", "ldap.modify", "ldap.index", "ldap.acl", "ldap.user"}

IpaServiceKinds == {"ipa.service", "ipa.service.del", "ipa.service.exists", "ipa.service.show"}
IpaUserKinds ==
  {"ipa.user.del", "ipa.user.disable", "ipa.user.enable", "ipa.user.exists", "ipa.user.find", "ipa.user.show",
        "ipa.user.status"}
IpaGroupKinds == {"ipa.group.del", "ipa.group.exists", "ipa.group.show"}
IpaLookKinds ==
  {"ipa.service.exists", "ipa.service.show", "ipa.user.exists", "ipa.user.find", "ipa.user.show",
        "ipa.user.status",
   "ipa.group.exists", "ipa.group.show"}

IpaNameConfig   == [kind : IpaServiceKinds \cup IpaUserKinds \cup IpaGroupKinds, name : STRING]
IpaMemberConfig == [kind : {"ipa.group.add_member"}, name : STRING, user : STRING]
IsIpaGroupConfig(c) == c.kind = "ipa.group" /\ c.name \in STRING /\ DOMAIN c.attrs \subseteq STRING
IsIpaUserConfig(c)  ==
  c.kind = "ipa.user" /\ c.name \in STRING /\ DOMAIN c.attrs \subseteq STRING /\ c.force \in BOOLEAN

IpaKinds == IpaServiceKinds \cup IpaUserKinds \cup IpaGroupKinds
      \cup {"ipa.group", "ipa.user", "ipa.group.add_member"}

IsDirectoryConfig(c) ==
  \/ c \in LdapDnConfig \/ c \in LdapSchemaConfig
  \/ IsLdapAddConfig(c) \/ IsLdapDeleteConfig(c) \/ IsLdapModifyConfig(c)
  \/ IsLdapIndexConfig(c) \/ IsLdapAclConfig(c) \/ IsLdapUserConfig(c)
  \/ c \in IpaNameConfig \/ c \in IpaMemberConfig \/ IsIpaGroupConfig(c) \/ IsIpaUserConfig(c)

DirectoryKinds == LdapKinds \cup IpaKinds

DirectoryHandler(c, m) ==
  CASE c.kind = "ldap.add"             -> LdapAdd(m, c)
    [] c.kind = "ldap.delete"          -> LdapDelete(m, c)
    [] c.kind = "ldap.modify"          -> LdapModify(m, c)
    [] c.kind = "ldap.index"           -> LdapIndex(m, c)
    [] c.kind = "ldap.acl"             -> LdapAcl(m, c)
    [] c.kind = "ldap.user"            -> LdapUser(m, c)
    [] c.kind = "ldap.schema"          -> LdapSchema(m, c)
    [] c.kind = "ldap.search"          -> LdapSearch(m, c)
    [] c.kind = "ldap.tools.database"  -> LdapDatabase(m, c)
    [] c.kind = "ipa.group"            -> IpaGroup(m, c)
    [] c.kind = "ipa.group.add_member" -> IpaGroupAddMember(m, c)
    [] c.kind = "ipa.group.del"        -> IpaGroupDel(m, c)
    [] c.kind = "ipa.group.exists"     -> IpaGroupExists(m, c)
    [] c.kind = "ipa.group.show"       -> IpaGroupShow(m, c)
    [] c.kind = "ipa.user"             -> IpaUser(m, c)
    [] c.kind = "ipa.user.del"         -> IpaUserDel(m, c)
    [] c.kind = "ipa.user.disable"     -> IpaUserDisable(m, c)
    [] c.kind = "ipa.user.enable"      -> IpaUserEnable(m, c)
    [] c.kind = "ipa.user.exists"      -> IpaUserExists(m, c)
    [] c.kind = "ipa.user.find"        -> IpaUserFind(m, c)
    [] c.kind = "ipa.user.show"        -> IpaUserShow(m, c)
    [] c.kind = "ipa.user.status"      -> IpaUserStatus(m, c)
    [] c.kind = "ipa.service"          -> IpaService(m, c)
    [] c.kind = "ipa.service.del"      -> IpaServiceDel(m, c)
    [] c.kind = "ipa.service.exists"   -> IpaServiceExists(m, c)
    [] c.kind = "ipa.service.show"     -> IpaServiceShow(m, c)

\* f is part of g.
SubFunction(f, g) == \A k \in DOMAIN f : k \in DOMAIN g /\ g[k] = f[k]

DirectoryGoal(c, was, m) ==
  CASE c.kind \in LdapLookKinds \cup IpaLookKinds \cup {"ldap.schema"} -> m = was
    [] c.kind = "ldap.add"    ->
         \A i \in DOMAIN c.entries :
           There(m, Entry(c.entries[i].dn)) /\ SubFunction(c.entries[i].attrs, m[Entry(c.entries[i].dn)].attrs)
    [] c.kind = "ldap.delete" -> \A i \in DOMAIN c.dns : ~There(m, Entry(c.dns[i]))
    [] c.kind = "ldap.modify" ->
         <<m[Entry(c.dn)].attrs>> =
           FoldLeft(LAMBDA x, op : Modified(x[1], op), <<was[Entry(c.dn)].attrs>>, c.attributes)
    [] c.kind = "ldap.index"  -> SubFunction(c.indexes, m[Entry(c.dn)].indexes)
    [] c.kind = "ldap.acl"    ->
         \A i \in DOMAIN c.acls : \E j \in DOMAIN m[Entry(c.dn)].acls :
           m[Entry(c.dn)].acls[j] = [to |-> c.acls[i].to, by |-> c.acls[i].by]
    [] c.kind = "ldap.user"   ->
         /\ There(m, Entry(c.dn)) /\ SubFunction(c.attrs, m[Entry(c.dn)].attrs)
         /\ c.password # Unset => m[Entry(c.dn)].password = c.password
    [] c.kind = "ipa.group"   -> SubFunction(c.attrs, m[Ipa("group", c.name)].attrs)
    [] c.kind = "ipa.user"    ->
         SubFunction([k \in DOMAIN c.attrs \ {"userpassword"} |-> c.attrs[k]], m[Ipa("user", c.name)].attrs)
    [] c.kind = "ipa.service" -> There(m, Ipa("service", c.name))
    [] c.kind = "ipa.group.add_member" -> c.user \in m[Ipa("group", c.name)].members
    [] c.kind = "ipa.group.del"        -> ~There(m, Ipa("group", c.name))
    [] c.kind = "ipa.user.del"         -> ~There(m, Ipa("user", c.name))
    [] c.kind = "ipa.service.del"      -> ~There(m, Ipa("service", c.name))
    [] c.kind = "ipa.user.disable"     -> m[Ipa("user", c.name)].locked
    [] c.kind = "ipa.user.enable"      -> ~m[Ipa("user", c.name)].locked

\* What an action is asked to change: its entry.
Target(c, r) ==
  \/ "dn" \in DOMAIN c /\ r = Entry(c.dn)
  \/ c.kind = "ldap.add" /\ \E i \in DOMAIN c.entries : r = Entry(c.entries[i].dn)
  \/ c.kind = "ldap.delete" /\ \E i \in DOMAIN c.dns : r = Entry(c.dns[i])
  \/ "name" \in DOMAIN c /\ r[1] = "ipa" /\ r[3] = c.name

\* The other entries, the other attributes, the other rules.
DirectorySpares(c, was, m) ==
  /\ \A r \in DOMAIN was : Target(c, r) \/ StateOf(m, r) = was[r]
  /\ c.kind = "ldap.acl" =>
       \A i \in DOMAIN was[Entry(c.dn)].acls :
         \/ \E j \in DOMAIN c.acls : c.acls[j].to = was[Entry(c.dn)].acls[i].to
         \/ \E j \in DOMAIN m[Entry(c.dn)].acls : m[Entry(c.dn)].acls[j] = was[Entry(c.dn)].acls[i]
  /\ c.kind = "ldap.index" =>
       \A k \in DOMAIN was[Entry(c.dn)].indexes \ DOMAIN c.indexes :
         m[Entry(c.dn)].indexes[k] = was[Entry(c.dn)].indexes[k]

DirectoryExcept(c, was) ==
  CASE c.kind \in {"ldap.search"} \cup IpaLookKinds -> {"StatusTells"}
    [] c.kind = "ldap.add" ->
         \* an entry is not compared with what is asked
         IF \E i \in DOMAIN c.entries : There(was, Entry(c.entries[i].dn)) THEN {"Delivers", "Converges"} ELSE {}
    [] c.kind = "ldap.delete" ->
         \* only the first entry is looked for
         IF Len(c.dns) > 1 THEN {"Delivers", "Converges"} ELSE {}
    [] c.kind = "ldap.modify" ->
         \* a value is added, or deleted, once
         IF \E i \in DOMAIN c.attributes : c.attributes[i].type # "replace"
         THEN {"QuietAgain", "Repairable"} ELSE {}
    [] c.kind = "ldap.acl" ->
         \* a rule is merged with what there was, the others are deleted with it
         IF There(was, Entry(c.dn))
            /\ \E i \in DOMAIN was[Entry(c.dn)].acls, j \in DOMAIN c.acls :
                 was[Entry(c.dn)].acls[i].to = c.acls[j].to /\ was[Entry(c.dn)].acls[i].by # c.acls[j].by
         THEN {"Delivers", "Converges", "QuietAgain", "LeavesTheRest"} ELSE {}
    [] c.kind = "ldap.user" ->
         IF There(was, Entry(c.dn)) THEN {"Delivers", "Converges"}
         ELSE IF c.password = Unset THEN {"StatusTells"} ELSE {}
    [] c.kind \in {"ipa.group.del", "ipa.user.del", "ipa.service.del"} ->
         \* the refusal of the server is not read
         IF \E r \in DOMAIN was : Target(c, r) /\ was[r] # Absent /\ was[r].kept
         THEN {"Delivers", "StatusTells"} ELSE {}
    [] c.kind = "ipa.group.add_member" ->
         {"StatusTells"} \cup (IF There(was, Ipa("user", c.user)) THEN {} ELSE {"Delivers"})
    [] c.kind = "ipa.user" ->
         IF c.force /\ "userpassword" \in DOMAIN c.attrs THEN {"StatusTells"} ELSE {}
    [] c.kind \in {"ipa.group", "ipa.service", "ipa.user.disable", "ipa.user.enable", "ldap.index", "ldap.schema",
                   "ldap.tools.database"} -> {}
=============================================================================
