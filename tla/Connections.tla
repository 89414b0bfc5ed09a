------------------------------ MODULE Connections ------------------------------
(***************************************************************************)
(* On which host an action runs: the SSH connections that ssh.open leaves  *)
(* in the history of the actions, those that an action is given, and those *)
(* that Nikita opens and closes for an action (`$ssh` with a               *)
(* configuration).                                                         *)
(*                                                                         *)
(* `path` goes from the root of the session to the action in progress;     *)
(* siblings run in turn (SiblingsInTurn of module Session).  An action     *)
(* holds the history of its children, in the array that is also the        *)
(* `siblings` of every child: `dig` reverses it in place.                  *)
(***************************************************************************)
EXTENDS Naturals, SequencesExt

CONSTANTS
  Conn,          \* connections
  MaxDepth,      \* bound: actions in progress
  MaxChildren    \* bound: children of an action

Unset  == "undefined"
Null   == "null"
Config == "configuration"    \* $ssh: {host: ...}

Failed == "ssh.open failed"  \* a child without an output
Other  == "other"            \* any child but ssh.open

ASSUME ConnectionsAssumption ==
  /\ Conn \cap {Unset, Null, Config, Failed, Other} = {}
  /\ MaxDepth \in Nat \ {0} /\ MaxChildren \in Nat

VARIABLES
  conn,      \* every connection: "none", "open" or "closed"
  path,      \* the actions in progress
  thrown     \* history: connections of actions on which an earlier hook threw

vars == <<conn, path, thrown>>

Init ==
  /\ conn = [c \in Conn |-> "none"]
  /\ path \in {<<[asked |-> x, ssh |-> x, managed |-> {}, children |-> << >>]>> : x \in {Unset, Null}}
  /\ thrown = {}

Fresh == {c \in Conn : conn[c] = "none"}
Known == Conn \ Fresh

\* What a child of the last action adds to its history.
Record(actions, child) == [actions EXCEPT ![Len(actions)].children = Append(@, child)]

-----------------------------------------------------------------------------
(* The plugin `ssh`.                                                       *)

\* tools.find: the first of the action and its ancestors whose ssh is defined.
Inherited ==
  LET defined == {i \in DOMAIN path : path[i].ssh # Unset}
  IN  IF defined = {} THEN Unset ELSE path[CHOOSE i \in defined : \A j \in defined : j <= i].ssh

\* The first of these in a history.
FirstOf(siblings, wanted) ==
  LET found == {i \in DOMAIN siblings : siblings[i] \in wanted}
  IN  IF found = {} THEN Unset ELSE siblings[CHOOSE i \in found : \A j \in found : i <= j]

\* Faulty: whether the connection is open is not looked at.
FromSiblingsOpenOrNot(siblings) == FirstOf(siblings, Conn \cup {Failed})

(***************************************************************************)
(* The first ssh.open of the history.  One that failed has no output to    *)
(* read `ssh` from: the plugin throws.                                     *)
(***************************************************************************)
FromSiblings(siblings) ==
  LET opened == FirstOf(siblings, Conn \cup {Failed})
  IN  IF opened \in Conn /\ conn[opened] = "closed" THEN Unset ELSE opened

\* The ssh of an action that is called now, Failed when the plugin throws.
Ssh(asked) ==
  IF asked # Unset THEN asked
  ELSE IF Inherited = Unset THEN FromSiblings(Last(path).children)
       ELSE IF Inherited = Null THEN Unset ELSE Inherited

CanCall == path # << >> /\ Len(Last(path).children) < MaxChildren

-----------------------------------------------------------------------------
(* Actions.                                                                *)

\* ssh.open, called without `$ssh`; its connection may fail.
Open ==
  /\ CanCall
  /\ \/ /\ Ssh(Unset) # Failed
        /\ \E c \in Fresh :
             /\ conn' = [conn EXCEPT ![c] = "open"]
             /\ path' = Record(path, c)
     \/ path' = Record(path, Failed) /\ UNCHANGED conn
  /\ UNCHANGED thrown

\* What ssh.close closes: its configuration, or what the first of its siblings
\* opened.
ToClose(asked) ==
  IF asked # Unset THEN {asked}
  ELSE {FirstOf(Last(path).children, Conn)} \ {Unset}

Close ==
  /\ CanCall
  /\ \E asked \in {Unset} \cup Known :
       conn' = IF Ssh(Unset) = Failed THEN conn
               ELSE [c \in Conn |-> IF c \in ToClose(asked) THEN "closed" ELSE conn[c]]
  /\ path' = Record(path, Other)
  /\ UNCHANGED thrown

\* The server closes the connection.
Drop ==
  /\ \E c \in Conn : conn[c] = "open" /\ conn' = [conn EXCEPT ![c] = "closed"]
  /\ UNCHANGED <<path, thrown>>

\* Any other action: one that is not given a configuration.
Begin ==
  /\ CanCall
  /\ \E asked \in {Unset, Null} \cup Known :
       path' = IF Ssh(asked) = Failed
               THEN Record(path, Other)
               ELSE Append(path, [asked |-> asked, ssh |-> Ssh(asked), managed |-> {}, children |-> << >>])
  /\ Len(path') <= MaxDepth
  /\ UNCHANGED <<conn, thrown>>

\* A session of its own opens the connection, for this action.
BeginManaged ==
  /\ CanCall
  /\ \/ \E c \in Fresh :
          /\ conn' = [conn EXCEPT ![c] = "open"]
          /\ path' = Append(path, [asked |-> Config, ssh |-> c, managed |-> {c}, children |-> << >>])
     \/ path' = Record(path, Other) /\ UNCHANGED conn
  /\ Len(path') <= MaxDepth
  /\ UNCHANGED thrown

\* The handler calls `dig`: the siblings of the action and of its ancestors
\* are reversed, each in place.
Dig ==
  /\ Len(path) > 1
  /\ path' = [i \in DOMAIN path |->
                IF i = Len(path) THEN path[i] ELSE [path[i] EXCEPT !.children = Reverse(@)]]
  /\ UNCHANGED <<conn, thrown>>

Return == IF Len(path) = 1 THEN << >> ELSE Record(Front(path), Other)

\* Faulty: an action that fails does not close its connection.
EndUnlessFails ==
  /\ path # << >>
  /\ \E fails \in BOOLEAN :
       conn' = [c \in Conn |-> IF c \in Last(path).managed /\ ~fails THEN "closed" ELSE conn[c]]
  /\ path' = Return
  /\ UNCHANGED thrown

\* nikita:result, whether the action fails or not.  When the closing fails too,
\* the plugin history is not called.
End ==
  /\ path # << >>
  /\ conn' = [c \in Conn |-> IF c \in Last(path).managed THEN "closed" ELSE conn[c]]
  /\ \/ path' = Return
     \/ Last(path).managed # {} /\ path' = Front(path)
  /\ UNCHANGED thrown

(***************************************************************************)
(* A hook on nikita:result that comes before that of ssh throws: an        *)
(* assertion that fails, `relax` with a list and an error that has no      *)
(* code, the removal of the temporary directory, an output from which no   *)
(* status can be told.  ssh and history are not called.                    *)
(***************************************************************************)
EndThrows ==
  /\ path # << >>
  /\ path' = Front(path)
  /\ thrown' = thrown \cup Last(path).managed
  /\ UNCHANGED conn

Next == Open \/ Close \/ Drop \/ Begin \/ BeginManaged \/ Dig \/ End \/ EndThrows

Spec == Init /\ [][Next]_vars

-----------------------------------------------------------------------------
(***************************************************************************)
(* Properties.                                                             *)
(***************************************************************************)

InProgress == UNION {path[i].managed : i \in DOMAIN path}
Opened     == Range(Last(path).children) \cap Conn

(* "Unless defined otherwise, the value is cascaded from a parent to its   *)
(* child actions" (docs/content/guide/local_remote.md:29).  Without a      *)
(* value above, an action runs on an open connection which a sibling       *)
(* opened, or on none; on one of them when they are all open still,        *)
(* whatever else was called and dug in between.                            *)
RunsWhereOpened ==
  [][(Len(path') > Len(path) /\ Last(path').asked = Unset) =>
       IF Inherited # Unset
       THEN Last(path').ssh = (IF Inherited = Null THEN Unset ELSE Inherited)
       ELSE /\ Last(path').ssh # Unset => Last(path').ssh \in Opened /\ conn[Last(path').ssh] = "open"
            /\ Opened # {} /\ (\A c \in Opened : conn[c] = "open") => Last(path').ssh # Unset]_vars

(* A connection that Nikita opens for an action "is then closed once the   *)
(* action and its children finish their execution"                         *)
(* (docs/content/guide/local_remote.md:25), also when they fail.  The code *)
(* does not keep this when a hook on nikita:result that comes before ssh   *)
(* throws; nothing else prevents it.                                       *)
ManagedClosed ==
  [][\A c \in InProgress : c \notin UNION {path'[i].managed : i \in DOMAIN path'} =>
       conn'[c] = "closed" \/ c \in thrown']_vars
=============================================================================
