----------------------------- MODULE Databases ------------------------------
(***************************************************************************)
(* createDefaultDatabases: the databases of Concourse, the UAA and CredHub *)
(* are created on the database server of the deployment, which on AWS can  *)
(* be reached from the director only.  There the driver connects to a      *)
(* local listener, and what it sends is to go through a tunnel of SSH      *)
(* (proxyOpener in bosh/aws_db.go).  Every deploy opens a tunnel of its    *)
(* own, and is repeated until it succeeds.                                 *)
(***************************************************************************)
EXTENDS Naturals, Sequences, SequencesExt

CONSTANT DbNames        \* the databases, in the order they are created in

ASSUME DbNamesAreDistinct ==
  DbNames \in Seq(ToSet(DbNames)) /\ DbNames # <<>> /\ IsInjective(DbNames)

VARIABLES dbs,          \* the databases there are on the server
          next,         \* the database that createDefaultDatabases is at
          tunnel,       \* what became of ssh.Dial in this run
          conn,         \* the driver's connection
          dbAnswer,     \* what createDefaultDatabases returned
          calm          \* nothing goes wrong any more outside createDefaultDatabases

dbVars == <<dbs, next, tunnel, conn, dbAnswer, calm>>

DatabasesTypeOK ==
  /\ dbs \subseteq ToSet(DbNames)
  /\ next \in 1..(Len(DbNames) + 1)
  /\ tunnel \in {"no", "up", "failed"}
  /\ conn \in {"no", "waiting", "up", "dead"}
  /\ dbAnswer \in {"none", "ok", "error"}
  /\ calm \in BOOLEAN

DatabasesInit ==
  /\ dbs = {} /\ next = 1
  /\ tunnel = "no" /\ conn = "no" /\ dbAnswer = "error" /\ calm = FALSE

Creating == dbAnswer = "none"

-----------------------------------------------------------------------------
\* Open starts the tunnel.  An error of ssh.Dial goes nowhere: nobody will
\* accept a connection then, and nobody closes the listener.
OpenDatabase ==
  /\ ~Creating
  /\ dbAnswer' = "none"
  /\ next' = 1 /\ conn' = "no"
  /\ tunnel' \in {"up"} \union (IF calm THEN {} ELSE {"failed"})
  /\ UNCHANGED <<dbs, calm>>

\* The driver connects when it first has something to execute: the system takes
\* connections for the listener whether or not anybody accepts them.
Connect ==
  /\ Creating /\ conn = "no"
  /\ conn' = "waiting"
  /\ UNCHANGED <<dbs, next, tunnel, dbAnswer, calm>>

\* proxyConn, once it dialled the database server.
Accept ==
  /\ Creating /\ conn = "waiting" /\ tunnel = "up"
  /\ conn' = "up"
  /\ UNCHANGED <<dbs, next, tunnel, dbAnswer, calm>>

\* proxyConn closes the connection when the server cannot be dialled.
DialFails ==
  /\ ~calm /\ Creating /\ conn = "waiting" /\ tunnel = "up"
  /\ conn' = "no" /\ dbAnswer' = "error"
  /\ UNCHANGED <<dbs, next, tunnel, calm>>

\* Mutant: a database that exists is an error.
ExistsIsError == {}

\* What the server may answer that createDefaultDatabases takes for success.
AlreadyExists == dbs

\* The next database is created, or there already; after the last one the
\* caller has its answer.
Create ==
  /\ Creating /\ conn = "up"
  /\ LET d == DbNames[next] IN
       IF d \in dbs \ AlreadyExists
       THEN dbAnswer' = "error" /\ UNCHANGED <<dbs, next>>
       ELSE /\ dbs' = dbs \union {d}
            /\ next' = next + 1
            /\ dbAnswer' = IF next = Len(DbNames) THEN "ok" ELSE "none"
  /\ UNCHANGED <<tunnel, conn, calm>>

\* Mutant: every error of the server counts as that of a database that exists.
CreateFailsUnseen ==
  /\ ~calm /\ Creating /\ conn = "up"
  /\ next' = next + 1
  /\ dbAnswer' = IF next = Len(DbNames) THEN "ok" ELSE "none"
  /\ UNCHANGED <<dbs, tunnel, conn, calm>>

\* Any other error of the server, before or after it created the database.
CreateFails ==
  /\ ~calm /\ Creating /\ conn = "up"
  /\ dbs' \in {dbs, dbs \union {DbNames[next]}}
  /\ dbAnswer' = "error"
  /\ UNCHANGED <<next, tunnel, conn, calm>>

\* The server, or the network behind the tunnel, is gone.  proxyConn waits for
\* both directions and the driver for an answer.
ServerLost ==
  /\ ~calm /\ Creating /\ conn = "up"
  /\ conn' = "dead"
  /\ UNCHANGED <<dbs, next, tunnel, dbAnswer, calm>>

\* Nothing goes on any more, or not until the tunnel is up, and nothing times out.
Hanging ==
  /\ Creating
  /\ conn = "dead" \/ (conn = "waiting" /\ tunnel = "failed")

\* A deploy is interrupted, at any time; one that hangs is, some time.
Interrupt ==
  /\ Creating /\ (Hanging \/ ~calm)
  /\ dbAnswer' = "error"
  /\ UNCHANGED <<dbs, next, tunnel, conn, calm>>

CalmDown ==
  /\ ~calm /\ calm' = TRUE
  /\ UNCHANGED <<dbs, next, tunnel, conn, dbAnswer>>

DatabasesNext ==
  \/ OpenDatabase \/ Connect \/ Accept \/ DialFails \/ Create \/ CreateFails
  \/ ServerLost \/ Interrupt \/ CalmDown

DatabasesSpec == DatabasesInit /\ [][DatabasesNext]_dbVars

\* The deploy is repeated, it goes on while it can, and when it hangs it is
\* interrupted some time.
DatabasesFairness ==
  /\ WF_dbVars(OpenDatabase) /\ WF_dbVars(Connect) /\ WF_dbVars(Accept)
  /\ WF_dbVars(Create) /\ WF_dbVars(Hanging /\ Interrupt)
-----------------------------------------------------------------------------
DatabasesDone == ToSet(DbNames) \subseteq dbs

\* createDefaultDatabases reports success only when all the databases are there
\* and never drops one, however often it is repeated: Deploy and bosh deploy,
\* which come after it, rely on nothing else.
DatabasesAttempt ==
  INSTANCE Attempt WITH done <- DatabasesDone, answer <- dbAnswer

ImplementsAttempt == DatabasesAttempt!Spec

\* Once nothing goes wrong any more the databases are created, wherever the
\* deploys before stopped: what these left is no error to the ones that follow.
DatabasesCreated == <>calm => []<>(dbAnswer = "ok")
=============================================================================
