---------------------------- MODULE MCBackground ----------------------------
(***************************************************************************)
(* What runs beside the requests: the mail workers, the retention worker   *)
(* and the migrate command.  They share no row and no memory, so each      *)
(* initial situation wakes one of them.                                    *)
(*                                                                         *)
(* The workers' bounds meet every limit: a queue of one slot, a batch of   *)
(* one row, one SMTP slot, two passes per tick.  Schema: two commands at   *)
(* once, three in all, on an empty database, on one without a version row  *)
(* that is V001 but for at most one kind of object, or on one that is at a *)
(* version.  Catalogue: every well-formed text of up to five tokens and    *)
(* its respellings.                                                        *)
(***************************************************************************)
EXTENDS MailDelivery, Integers, TLC

CONSTANTS
  t1, t2,
  Instances, i1, i2,
  Pool, NoSession, TableCount, LastUser, BatchSize, MaxRetentionPasses, MaxDerivedStateFailures,
  Commands, MaxCommands, MaxText

VARIABLES
  part,  \* "workers", "schema" or "catalogue"
  sweep, pinned, held, memory, stopping, due, stale, walked, broken, budget,
  schema, version, dirty, guard, command, started, text

----------------------------------------------------------------------------
Pending == [status |-> "pending", attempts |-> 0, notified |-> FALSE]
Waiting == [status |-> "decided", attempts |-> 0, notified |-> FALSE]
Told == [status |-> "decided", attempts |-> 1, notified |-> TRUE]

MailStart(a, b, asking, stops, faults, resends, codes) ==
  [proc |-> "down", ticket |-> t1 :> a @@ t2 :> b, asking |-> asking,
   stops |-> stops, faults |-> faults, resends |-> resends, codes |-> codes]

NoMail == {[MailStart(Told, Told, {}, 0, 0, {}, FALSE) EXCEPT !.proc = "absent"]}
SomeMail ==
  { MailStart(Waiting, Waiting, {}, 1, 1, {}, FALSE),
    MailStart(Pending, Waiting, {}, 2, 1, {}, FALSE),
    MailStart(Pending, Pending, {}, 1, 0, {}, FALSE),
    MailStart(Pending, Told, {}, 1, 1, {t1}, TRUE),
    MailStart(Told, Told, Requests, 2, 2, {}, TRUE) }

----------------------------------------------------------------------------
Situation(running, d1, d2, users, table, user, faults, stops, rows, years) ==
  [running |-> running, due |-> <<d1, d2>>, stale |-> users,
   broken |-> [table |-> table, user |-> user],
   budget |-> [faults |-> faults, stops |-> stops, rows |-> rows, years |-> years]]

NoSweep == {Situation({}, 0, 0, {}, 0, 0, 0, 0, 0, 0)}
SomeSweep ==
  LET users == 1 .. LastUser IN
  { Situation({i1}, 3, 1, {}, 0, 0, 2, 0, 1, 0),
    Situation({i1, i2}, 1, 1, {}, 0, 0, 2, 0, 0, 0),
    Situation({i1, i2}, 1, 1, users, 1, 0, 0, 1, 0, 0),
    Situation({i1}, 0, 0, users, 0, 4, 0, 0, 0, 1),
    Situation({i1}, 0, 0, users, 0, 0, 2, 0, 0, 1),
    Situation({i1}, 0, 0, users, 0, 0, 0, 1, 0, 1) }

Sweep == INSTANCE RetentionSweep WITH Situations <- NoSweep \cup SomeSweep

----------------------------------------------------------------------------
KindsOfObject == {"table", "enum", "column", "default", "constraint", "index", "function", "trigger"}
V1 == [k \in KindsOfObject |-> 1]
MCDatabases ==
  {[schema |-> s, version |-> 0] :
      s \in {[k \in KindsOfObject |-> 0], V1} \cup {[V1 EXCEPT ![k] = 0] : k \in KindsOfObject}
               \cup {[V1 EXCEPT ![k] = -1] : k \in KindsOfObject \ {"table"}}}
    \cup {[schema |-> V1, version |-> 1], [schema |-> [V1 EXCEPT !["constraint"] = 2], version |-> 2]}

Migrate == INSTANCE SchemaMigration WITH Production <- TRUE, Databases <- MCDatabases, cmd <- command, lock <- guard
Catalogue == INSTANCE CatalogText WITH Texts <- UNION {[1..n -> {"(", ")", "'", " ", "X", "::text"}] : n \in 0..5}

----------------------------------------------------------------------------
MCStarts == NoMail \cup SomeMail

Sweeping == \E i \in Instances : sweep[i].pc # "absent"

MCInit ==
  /\ part \in {"workers", "schema", "catalogue"}
  /\ Init /\ Sweep!Init
  /\ IF part = "workers" THEN proc = "absent" <=> Sweeping ELSE proc = "absent" /\ ~Sweeping
  /\ IF part = "schema" THEN Migrate!Init
     ELSE /\ schema = V1 /\ version = 1 /\ dirty = FALSE /\ guard = "none" /\ started = 0
          /\ command = [r \in Commands |-> Migrate!Idle]
  /\ IF part = "catalogue" THEN Catalogue!Init ELSE text = <<>>

sweepVars == <<sweep, pinned, held, memory, stopping, due, stale, walked, broken, budget>>
schemaVars == <<schema, version, dirty, guard, command, started>>

MCNext ==
  /\ UNCHANGED part
  /\ \/ part = "workers" /\ Next /\ UNCHANGED <<sweepVars, schemaVars, text>>
     \/ part = "workers" /\ Sweep!Next /\ UNCHANGED <<vars, schemaVars, text>>
     \/ part = "schema" /\ Migrate!Next /\ UNCHANGED <<vars, sweepVars, text>>
     \/ part = "catalogue" /\ Catalogue!Next /\ UNCHANGED <<vars, sweepVars, schemaVars>>

MCSpec == MCInit /\ [][MCNext]_<<part, vars, sweepVars, schemaVars, text>> /\ Fairness /\ Sweep!Fairness

----------------------------------------------------------------------------
(* The properties of the other parts, under their own names. *)

\* One sweeper, within its budgets, whose walk passes over nobody.
SweepSound == Sweep!SweepSound

\* What is due is deleted and what is stale is derived, in the end.
SweepEnds == Sweep!SweepEnds

\* A version recorded clean names the schema that is there, and never goes back.
SchemaSound == Migrate!SchemaSound

\* Normalising a catalogue expression keeps its meaning and drops its spelling.
CatalogCompared == Catalogue!CatalogCompared
=============================================================================
