---------------------------- MODULE KerberosActions ----------------------------
(***************************************************************************)
(* The actions of packages/krb5.  The server keeps, for every principal,   *)
(* its password and the version of its key (kvno); a keytab is a file      *)
(* which holds entries.                                                    *)
(*                                                                         *)
(* In a keytab of `ktadd` an entry says whether it has the current version *)
(* of the key: all that the code compares.  A keytab of `ktutil` is the    *)
(* sequence of its slots; an entry written twice is kept once.             *)
(***************************************************************************)
EXTENDS FsActions

Kdc(p)         == <<"kdc", p>>
TicketOf(uid)  == <<"ticket", uid>>

Princ(password, kvno) == [type |-> "princ", password |-> password, kvno |-> kvno]
Ticket(p)             == [type |-> "ticket", principal |-> p]

InKdc(m, p) == There(m, Kdc(p))

\* The name completed with the realm.
Full == [p |-> "p@R", q |-> "q@R"]
Completed(p) == IF p \in DOMAIN Full THEN Full[p] ELSE p

\* The realm is appended, to a name that has one too: it is nobody's.
WithRealm(p) == IF p \in DOMAIN Full THEN Full[p] ELSE "nobody"

\* A query that fails is told on the standard error only.
Getprinc(m, p) == Returns(Nothing, InKdc(m, p))

Keytabs(m) == {r \in DOMAIN m : Last(r) = "keytab" /\ m[r] # Absent}
Slot(p, current) == <<p, current>>

\* Bound: versions of a key are told apart modulo KeyVersions.
KeyVersions == 4

\* The key of p changes: the entries of the keytabs have an older one.
NewKey(m, p, password) ==
  Run((Kdc(p) := Princ(password, (m[Kdc(p)].kvno % KeyVersions) + 1)) ++
      [r \in Keytabs(m) |->
         [m[r] EXCEPT !.body = {IF s[1] = p THEN Slot(p, FALSE) ELSE s : s \in @}]])

-----------------------------------------------------------------------------
(***************************************************************************)
(* ktadd.  The name is completed with a realm only when the administrator  *)
(* has none; the keytab holds complete names.  The key that is added is a  *)
(* new one: the password of the principal does not open a session anymore. *)
(***************************************************************************)
SlotsOf(m, c, name) == IF IsFile(m, c.keytab) THEN {s \in At(m, c.keytab).body : s[1] = name} ELSE {}

KtaddFresh(m, c, name) ==
  LET dir    == FsMkdir(m, Directory(Dirname(c.keytab)))
      add(n) ==
        LET key == NewKey(n, name, "random")
            n1  == After(n, key)
            old == IF IsFile(n1, c.keytab) THEN At(n1, c.keytab) ELSE File({}, "600", Me)
        IN  IF ~InKdc(n, name) THEN Look
            ELSE key \bullet Run(c.keytab := [old EXCEPT !.body = @ \cup {Slot(name, TRUE)}])
  IN  Then(m, dir, add)

KtaddAttributes(m, c) ==
  Then(m, When(c.owner # Unset, FsChown(m, c.keytab, c.owner, Absent)),
       LAMBDA n : When(c.mode # Unset, FsChmod(n, c.keytab, c.mode, Absent)))

KerberosKtadd(m, c) ==
  LET name   == IF c.qualified THEN c.principal ELSE WithRealm(c.principal)
      held   == SlotsOf(m, c, name)
      fresh  == Slot(name, TRUE) \in held
      remove == When(held # {} /\ ~fresh,
                  Run(c.keytab := [At(m, c.keytab) EXCEPT !.body = @ \ held]))
      add(n) == When(~fresh, KtaddFresh(n, c, Completed(name)))
  IN  IF ~c.qualified /\ c.realm = Unset THEN Throw
      ELSE IF held # {} /\ ~InKdc(m, name) THEN Throw
      ELSE Then(m, Then(m, remove, add), LAMBDA n : KtaddAttributes(n, c))

KerberosAddprinc(m, c) ==
  LET name    == Completed(c.principal)
      create  == When(~Getprinc(m, name).status,
                   Run(Kdc(name) := Princ(IF c.password # Unset THEN c.password ELSE "random", 1)))
      sync(n) == When(c.password # Unset /\ c.sync /\ n[Kdc(name)].password # c.password,
                   NewKey(n, name, c.password))
      keytab(n) == When(c.keytab # << >>,
                     KerberosKtadd(n, [principal |-> name, keytab |-> c.keytab, qualified |-> c.qualified,
                                       realm |-> Unset, owner |-> c.owner, mode |-> c.mode]))
  IN  Then(m, Then(m, create, sync), keytab)

\* The keytab is removed with all its entries.
KerberosDelprinc(m, c) ==
  LET name   == Completed(c.principal)
      delete == When(Getprinc(m, name).status, Run(Kdc(name) := Absent))
  IN  delete \bullet When(c.keytab # << >>, FsRemove(m, c.keytab, FALSE))

\* A ticket that is valid is enough, whoever it is for.
KerberosTicket(m, c) ==
  LET name   == Completed(c.principal)
      valid  == There(m, TicketOf(c.uid))
      opens  == InKdc(m, name) /\
                IF c.keytab # << >> THEN Slot(name, TRUE) \in SlotsOf(m, c, name)
                ELSE m[Kdc(name)].password = c.password
      init   == IF opens THEN Run(TicketOf(c.uid) := Ticket(name)) ELSE Throw
  IN  Then(m, When(~valid, init),
           LAMBDA n : When(c.owner # Unset /\ c.keytab # << >>, FsChown(n, c.keytab, c.owner, Absent)))

-----------------------------------------------------------------------------
(***************************************************************************)
(* ktutil.add: an entry <<principal, kvno, type of encryption>> for every  *)
(* type that is asked, from the password.  The entry of a type is looked   *)
(* for among all the principals, provided that this one has exactly one.   *)
(***************************************************************************)
Slots(m, c) == IF IsFile(m, c.keytab) THEN At(m, c.keytab).body ELSE << >>

OfPrincipal(slots, p) == {i \in DOMAIN slots : slots[i][1] = p}
OfType(slots, e)      == {i \in DOMAIN slots : slots[i][3] = e}

\* The slot of a type, 0 when there is none.
SlotFor(slots, p, e) ==
  IF Cardinality(OfPrincipal(slots, p) \cap OfType(slots, e)) # 1 THEN 0
  ELSE CHOOSE i \in OfType(slots, e) : \A j \in OfType(slots, e) : i <= j

\* The slots are numbered again after each deletion.
DeleteSlots(slots, numbers) ==
  FoldLeft(LAMBDA s, i : IF i <= Len(s) THEN RemoveAt(s, i) ELSE s, slots, numbers)

KerberosKtutil(m, c) ==
  LET name     == Completed(c.principal)
      slots    == Slots(m, c)
      kvno     == m[Kdc(name)].kvno
      at(e)    == SlotFor(slots, name, e)
      old(e)   == at(e) # 0 /\ slots[at(e)][2] # kvno
      stale    == SelectSeq(c.enctypes, old)
      kept     == DeleteSlots(slots, [i \in DOMAIN stale |-> at(stale[i])])
      alone    == Cardinality(OfPrincipal(slots, name)) = Len(slots)
      stage    == Append(Dirname(c.keytab), Staged)
      clean    == CASE stale = << >> -> Nothing
                    [] stale # << >> /\ alone  -> FsRemove(m, c.keytab, FALSE)
                    [] stale # << >> /\ ~alone ->
                         Then(m, Run(stage := File(kept, "600", Me)),
                              LAMBDA n : Returns(Replace(n, stage, c.keytab), TRUE))
      wanted   == SelectSeq(c.enctypes, LAMBDA e : at(e) = 0 \/ old(e))
      write(n) == LET new == SelectSeq([i \in DOMAIN wanted |-> <<name, kvno, wanted[i]>>],
                                       LAMBDA s : s \notin ToSet(Slots(n, c)))
                      file == IF IsFile(n, c.keytab) THEN At(n, c.keytab) ELSE File(<< >>, "600", Me)
                  IN  When(wanted # << >>, Run(c.keytab := [file EXCEPT !.body = @ \o new]))
  IN  IF ~InKdc(m, name) THEN Throw
      ELSE Then(m, Then(m, clean, write), LAMBDA n : KtaddAttributes(n, c))

-----------------------------------------------------------------------------
(* What a user may ask, what is promised, what the code does not give.     *)

KtaddConfig ==
  [kind : {"krb5.ktadd"}, principal : STRING, keytab : Seq(STRING), qualified : BOOLEAN, realm : STRING,
   owner : STRING, mode : STRING]
AddprincConfig ==
  [kind : {"krb5.addprinc"}, principal : STRING, password : STRING, sync : BOOLEAN, keytab : Seq(STRING),
   qualified : BOOLEAN, owner : STRING, mode : STRING]
DelprincConfig == [kind : {"krb5.delprinc"}, principal : STRING, keytab : Seq(STRING)]
TicketConfig ==
  [kind : {"krb5.ticket"}, principal : STRING, password : STRING, keytab : Seq(STRING), uid : STRING,
        owner : STRING]
KtutilConfig ==
  [kind : {"krb5.ktutil.add"}, principal : STRING, keytab : Seq(STRING), enctypes : Seq(STRING), owner : STRING,
   mode : STRING]

KerberosKinds == {"krb5.ktadd", "krb5.addprinc", "krb5.delprinc", "krb5.ticket", "krb5.ktutil.add"}

IsKerberosConfig(c) ==
  c \in KtaddConfig \/ c \in AddprincConfig \/ c \in DelprincConfig \/ c \in TicketConfig \/ c \in KtutilConfig

KerberosHandler(c, m) ==
  CASE c.kind = "krb5.ktadd"      -> KerberosKtadd(m, c)
    [] c.kind = "krb5.addprinc"   -> KerberosAddprinc(m, c)
    [] c.kind = "krb5.delprinc"   -> KerberosDelprinc(m, c)
    [] c.kind = "krb5.ticket"     -> KerberosTicket(m, c)
    [] c.kind = "krb5.ktutil.add" -> KerberosKtutil(m, c)

KerberosGoal(c, was, m) ==
  LET name == Completed(c.principal)
  IN  CASE c.kind = "krb5.ktadd" -> Slot(name, TRUE) \in SlotsOf(m, c, name)
        [] c.kind = "krb5.addprinc" ->
             /\ InKdc(m, name)
             /\ c.password # Unset /\ c.sync => m[Kdc(name)].password = c.password
             /\ c.keytab # << >> => Slot(name, TRUE) \in SlotsOf(m, c, name)
        [] c.kind = "krb5.delprinc" -> ~InKdc(m, name) /\ (c.keytab # << >> => ~Exists(m, c.keytab))
        [] c.kind = "krb5.ticket"   -> StateOf(m, TicketOf(c.uid)) = Ticket(name)
        [] c.kind = "krb5.ktutil.add" ->
             \A i \in DOMAIN c.enctypes : <<name, m[Kdc(name)].kvno, c.enctypes[i]>> \in ToSet(Slots(m, c))

\* The entries of the other principals, the other principals, the other tickets.
KerberosSpares(c, was, m) ==
  LET name == Completed(c.principal)
  IN  /\ \A r \in DOMAIN was : r[1] = "kdc" /\ r # Kdc(name) => StateOf(m, r) = was[r]
      /\ c.kind \in {"krb5.addprinc", "krb5.ktadd", "krb5.delprinc"} /\ IsFile(was, c.keytab) =>
           \A s \in At(was, c.keytab).body : s[1] = name \/ (IsFile(m, c.keytab) /\ s \in At(m, c.keytab).body)
      /\ c.kind = "krb5.ktutil.add" =>
           \A s \in ToSet(Slots(was, c)) : s[1] = name \/ s \in ToSet(Slots(m, c))

KerberosExcept(c, was) ==
  LET name   == Completed(c.principal)
      others == IF c.kind = "krb5.ktutil.add" THEN \E i \in DOMAIN Slots(was, c) : Slots(was, c)[i][1] # name
            ELSE FALSE
  IN  CASE c.kind = "krb5.ktadd" ->
             \* a bare name is never found; a principal that does not exist is not told
             (IF c.qualified /\ c.principal # name THEN {"QuietAgain"} ELSE {})
             \cup (IF ~InKdc(was, name) \/ (~c.qualified /\ c.principal = name)
                   THEN {"Delivers", "Converges", "StatusTells"} ELSE {})
        [] c.kind = "krb5.addprinc" ->
             \* adding the key to the keytab changes the password, again and again
             IF c.password # Unset /\ c.sync /\ c.keytab # << >> THEN {"Delivers", "Converges", "QuietAgain"}
                   ELSE {}
        [] c.kind = "krb5.delprinc" ->
             IF IsFile(was, c.keytab) /\ \E s \in At(was, c.keytab).body : s[1] # name THEN {"LeavesTheRest"}
                   ELSE {}
        [] c.kind = "krb5.ticket" ->
             IF There(was, TicketOf(c.uid)) THEN {"Delivers", "Converges"} ELSE {}
        [] c.kind = "krb5.ktutil.add" ->
             \* the entry of another principal is taken for that of this one, and
             \* that of a type which has several is never found; the keytab is
             \* removed for one old entry, those that are not are lost
             (IF others \/ Len(Slots(was, c)) > 1 THEN {"Delivers", "Converges", "StatusTells", "QuietAgain"}
                   ELSE {})
             \cup (IF others THEN {"LeavesTheRest"} ELSE {})
=============================================================================
