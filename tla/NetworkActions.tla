----------------------------- MODULE NetworkActions -----------------------------
(***************************************************************************)
(* The network package, but for the actions that wait (module Waiting):    *)
(* network.tcp.assert and network.http.  A server is a resource, and so is *)
(* what it answers at an address.                                          *)
(***************************************************************************)
EXTENDS FileActions

Server(name)   == <<"server", name>>     \* there is one that listens
Address(url)   == <<"url", url>>         \* there is an answer
Answer(code, body, json) == [type |-> "answer", code |-> code, body |-> body, json |-> json]

-----------------------------------------------------------------------------
\* The servers are tried until one is not as it is told to be.
TcpAssert(m, c) ==
  IF \E n \in c.server : There(m, Server(n)) = c.not THEN Throw ELSE Returns(Nothing, TRUE)

-----------------------------------------------------------------------------
(* network.http                                                            *)

IsError(answer) == answer.code \div 100 \in {4, 5}

\* What curl writes: the header (`--include`), then the body.
Received(answer) == <<ToString(answer.code)>> \o answer.body

\* curl tells its errors, and with `fail` those of the server.
Requested(m, c) ==
  LET answer == StateOf(m, Address(c.url))
  IN  CASE answer = Absent                         -> Throw
        [] answer # Absent /\ c.fail /\ IsError(answer) -> Throw
        [] answer # Absent /\ ~(c.fail /\ IsError(answer)) ->
             IF c.target = NoPath THEN Look
             ELSE Returns(BaseWriteFile(m, c.target, Received(answer), Unset), TRUE)

(***************************************************************************)
(* fs.chmod is called without the target, and throws once the file is      *)
(* written; fs.chown is called for a gid though there is no target.  An    *)
(* answer which goes to a file is not parsed.                              *)
(***************************************************************************)
NetworkHttp(m, c) ==
  LET own(n) == IF c.target = NoPath THEN Throw
                ELSE FsChown(n, c.target, Or(c.uid, c.gid), Absent)
  IN  IF c.method \in {"POST", "PUT"} /\ ~c.data
      THEN Throw
      ELSE Then(m, Requested(m, c), LAMBDA n :
             Then(n, When(c.target # NoPath /\ c.mode # Unset, Throw), LAMBDA n1 :
               When((c.target # NoPath /\ c.uid # Unset) \/ c.gid # Unset, own(n1))
                 \bullet When(c.target = NoPath /\ m[Address(c.url)].json = "broken", Throw)))

-----------------------------------------------------------------------------
(* What a user may ask, what is promised, what the code does not give.     *)

TcpAssertConfig == [kind : {"network.tcp.assert"}, server : SUBSET STRING, not : BOOLEAN]
HttpConfig ==
  [kind : {"network.http"}, url : STRING, method : {"GET", "POST", "PUT", "DELETE"}, data : BOOLEAN, fail : BOOLEAN,
   target : Path, mode : Option, uid : Option, gid : Option]

NetworkKinds == {"network.tcp.assert", "network.http"}

IsNetworkConfig(c) == c \in TcpAssertConfig \/ c \in HttpConfig

NetworkHandler(c, m) ==
  CASE c.kind = "network.tcp.assert" -> TcpAssert(m, c)
    [] c.kind = "network.http"       -> NetworkHttp(m, c)

\* Writing to a file is curl's `output`: the file holds the answer.
NetworkGoal(c, m) ==
  CASE c.kind = "network.tcp.assert" -> \A n \in c.server : There(m, Server(n)) # c.not
    [] c.kind = "network.http" ->
         LET answer == StateOf(m, Address(c.url))
         IN  /\ answer # Absent /\ (c.fail => ~IsError(answer))
             /\ c.target # NoPath =>
                  /\ At(m, c.target).body = Received(answer)
                  /\ HasMode(m, c.target, c.mode)
                  /\ HasOwner(m, c.target, Or(c.uid, c.gid))

NetworkSpares(c, was, m) ==
  c.kind = "network.http" => \A r \in DOMAIN was : r # Real(was, c.target) => m[r] = was[r]

\* The status is that of the commands, which are run each time.
NetworkExcept(c, was) == {"StatusTells"}
=============================================================================
