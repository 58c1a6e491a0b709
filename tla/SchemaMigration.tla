-------------------------- MODULE SchemaMigration --------------------------
(***************************************************************************)
(* The migrate command (cmd/migrate, internal/migration): `up` applies the *)
(* embedded migrations, `force 1 --confirm-existing-baseline` records V001 *)
(* for a schema that was there before migrations were.                     *)
(*                                                                         *)
(* The database is a level per kind of catalogue object: Missing, Foreign  *)
(* (there, but not what V001 made), or the migration that last changed it. *)
(* The version row and the lock belong to golang-migrate, which is         *)
(* modelled from how this code drives it: Up and Force hold the advisory   *)
(* lock, Version does not; a migration is marked dirty before its first    *)
(* statement and clean after its last, and its statements commit one by    *)
(* one (x-multi-statement), so that a crash leaves some of them applied.   *)
(*                                                                         *)
(* Commands overlap as two operators or a deployment and an operator would *)
(* overlap them; only baselines do not overlap one another.                *)
(***************************************************************************)
EXTENDS Integers, Sequences, FiniteSets

CONSTANTS
    Commands,     \* command processes
    MaxCommands,  \* bound: commands started
    Production,   \* AppEnv is "production"
    Databases     \* the schemas found by the first command, with their version row

VARIABLES
    schema,   \* level of each kind of object
    version,  \* the version row: NilVersion or the number
    dirty,
    lock,     \* holder of golang-migrate's advisory lock, or NoCommand
    cmd,      \* per process: its command, where it stands and its counter
    started   \* commands started

vars == <<schema, version, dirty, lock, cmd, started>>

-----------------------------------------------------------------------------
Kinds == {"table", "enum", "column", "default", "constraint", "index", "function", "trigger"}
Missing == 0
Foreign == -1
NilVersion == 0
NoCommand == "none"

\* The statements of the migrations, those of one kind as one, by the objects
\* of V001 they make or change.  The later migrations add objects that no check
\* reads, but for V002 (the challenge-method constraint) and V012, V020 and V021
\* (labels of enums); the third stands for these.
Migrations ==
    << <<{"enum"}, {"table", "column", "default", "constraint"}, {"function"}, {"index"}, {"trigger"}>>,
       <<{"constraint"}>>,
       <<{"enum"}>> >>
Top == Len(Migrations)

\* The schema that migrations 1..v leave behind.
SchemaAt(v) ==
    [k \in Kinds |->
        LET touched == {n \in 1..v : \E i \in DOMAIN Migrations[n] : k \in Migrations[n][i]}
        IN  IF touched = {} THEN Missing ELSE CHOOSE n \in touched : \A m \in touched : m <= n]

Idle == [is |-> "none", pc |-> "idle", n |-> 0]
To(r, pc) == cmd' = [cmd EXCEPT ![r].pc = pc]
End(r) == cmd' = [cmd EXCEPT ![r] = Idle]
Release(r) == lock' = IF lock = r THEN NoCommand ELSE lock

Init ==
    /\ \E d \in Databases : schema = d.schema /\ version = d.version
    /\ dirty = FALSE /\ lock = NoCommand /\ started = 0
    /\ cmd = [r \in Commands |-> Idle]

-----------------------------------------------------------------------------
(* up *)

\* Production needs --confirm-production; without it the command has done nothing.
StartUp(r, confirmProduction) ==
    /\ cmd[r] = Idle /\ started < MaxCommands
    /\ Production => confirmProduction
    /\ started' = started + 1
    /\ cmd' = [cmd EXCEPT ![r] = [is |-> "up", pc |-> "lock", n |-> 0]]
    /\ UNCHANGED <<schema, version, dirty, lock>>

Lock(r) ==
    /\ cmd[r].is = "up" /\ cmd[r].pc = "lock" /\ lock = NoCommand
    /\ lock' = r
    /\ To(r, "next")
    /\ UNCHANGED <<schema, version, dirty, started>>

\* The lock is not had in time.
LockTimeout(r) ==
    /\ cmd[r].is = "up" /\ cmd[r].pc = "lock" /\ lock # NoCommand
    /\ End(r)
    /\ UNCHANGED <<schema, version, dirty, lock, started>>

\* The migration to apply: none on a dirty version (ErrDirty) or after the last (ErrNoChange).
NextMigration == IF dirty \/ version = Top THEN {} ELSE {version + 1}

MarkDirty(r) ==
    /\ cmd[r].is = "up" /\ cmd[r].pc = "next"
    /\ \E v \in NextMigration : version' = v
    /\ dirty' = TRUE
    /\ cmd' = [cmd EXCEPT ![r].pc = "run", ![r].n = 1]
    /\ UNCHANGED <<schema, lock, started>>

UpEnds(r) ==
    /\ cmd[r].is = "up" /\ cmd[r].pc = "next" /\ NextMigration = {}
    /\ Release(r) /\ End(r)
    /\ UNCHANGED <<schema, version, dirty, started>>

\* V001 creates: it needs the objects absent.  The others change what they find.
Applies(v, objects) ==
    \A k \in objects : IF v = 1 THEN schema[k] = Missing ELSE schema[k] # Missing

Statement(r) ==
    /\ cmd[r].is = "up" /\ cmd[r].pc = "run"
    /\ cmd[r].n <= Len(Migrations[version])
    /\ LET objects == Migrations[version][cmd[r].n]
       IN  /\ Applies(version, objects)
           /\ schema' = [k \in Kinds |-> IF k \in objects /\ schema[k] # Foreign THEN version ELSE schema[k]]
    /\ cmd' = [cmd EXCEPT ![r].n = @ + 1]
    /\ UNCHANGED <<version, dirty, lock, started>>

\* A statement refused, by the schema or by the rows it finds (V002, V003, V005):
\* the command ends with the version dirty.
StatementFails(r) ==
    /\ cmd[r].is = "up" /\ cmd[r].pc = "run"
    /\ cmd[r].n <= Len(Migrations[version])
    /\ version = 1 => ~Applies(version, Migrations[version][cmd[r].n])
    /\ Release(r) /\ End(r)
    /\ UNCHANGED <<schema, version, dirty, started>>

MarkClean(r) ==
    /\ cmd[r].is = "up" /\ cmd[r].pc = "run"
    /\ cmd[r].n > Len(Migrations[version])
    /\ dirty' = FALSE
    /\ To(r, "next")
    /\ UNCHANGED <<schema, version, lock, started>>

-----------------------------------------------------------------------------
(* force 1 --confirm-existing-baseline *)

PhasesVersionFirst == [start |-> "version", version |-> "check", check |-> "force"]

\* BaselineV1: preflight, then the version, then the record.
Phases == [start |-> "check", check |-> "version", version |-> "force"]

requireV1Tables == schema["table"] # Missing
requireV1Enums == schema["enum"] = 1
requireV1Columns == schema["column"] = 1
requireV1Defaults == schema["default"] = 1
requireV1Constraints == schema["constraint"] = 1
requireV1Indexes == schema["index"] = 1
requireV1Functions == schema["function"] = 1
requireV1Triggers == schema["trigger"] = 1

\* The checks in their order; each is a query of its own.
preflightV1Schema ==
    <<requireV1Tables, requireV1Enums, requireV1Columns, requireV1Defaults,
      requireV1Constraints, requireV1Indexes, requireV1Functions, requireV1Triggers>>

\* One baseline at a time: what the runbook asks of its operator.
StartBaseline(r) ==
    /\ cmd[r] = Idle /\ started < MaxCommands
    /\ \A q \in Commands : cmd[q].is # "baseline"
    /\ started' = started + 1
    /\ cmd' = [cmd EXCEPT ![r] = [is |-> "baseline", pc |-> Phases["start"], n |-> 1]]
    /\ UNCHANGED <<schema, version, dirty, lock>>

Check(r) ==
    /\ cmd[r].is = "baseline" /\ cmd[r].pc = "check"
    /\ IF ~preflightV1Schema[cmd[r].n] THEN End(r)
       ELSE IF cmd[r].n < Len(preflightV1Schema) THEN cmd' = [cmd EXCEPT ![r].n = @ + 1]
       ELSE To(r, Phases["check"])
    /\ UNCHANGED <<schema, version, dirty, lock, started>>

\* The version is read without the lock.  A version that is there ends the command,
\* with or without an error; only NilVersion goes on.
ReadVersion(r) ==
    /\ cmd[r].is = "baseline" /\ cmd[r].pc = "version"
    /\ IF version = NilVersion THEN To(r, Phases["version"]) ELSE End(r)
    /\ UNCHANGED <<schema, version, dirty, lock, started>>

Force(r) ==
    /\ cmd[r].is = "baseline" /\ cmd[r].pc = "force" /\ lock = NoCommand
    /\ version' = 1 /\ dirty' = FALSE
    /\ End(r)
    /\ UNCHANGED <<schema, lock, started>>

-----------------------------------------------------------------------------
\* A command dies; its session takes the lock with it.
Crash(r) ==
    /\ cmd[r] # Idle
    /\ Release(r) /\ End(r)
    /\ UNCHANGED <<schema, version, dirty, started>>

Next ==
    \E r \in Commands :
        \/ (\E confirm \in BOOLEAN : StartUp(r, confirm)) \/ Lock(r) \/ LockTimeout(r) \/ MarkDirty(r) \/ UpEnds(r)
        \/ Statement(r) \/ StatementFails(r) \/ MarkClean(r)
        \/ StartBaseline(r) \/ Check(r) \/ ReadVersion(r) \/ Force(r)
        \/ Crash(r)

Spec == Init /\ [][Next]_vars

-----------------------------------------------------------------------------
\* The types; a version row is never past the last migration, and the lock is in
\* the hands of an `up` that is at work.
TypeOK ==
    /\ schema \in [Kinds -> -1..Top] /\ version \in 0..Top /\ dirty \in BOOLEAN
    /\ cmd \in [Commands -> [is: {"none", "up", "baseline"},
                             pc: {"idle", "lock", "next", "run", "check", "version", "force"}, n: 0..9]]
    /\ lock # NoCommand => cmd[lock].is = "up" /\ cmd[lock].pc \in {"next", "run"}
    /\ started \in 0..MaxCommands

\* A version that is recorded clean names the schema that is there, through crashes
\* between two statements, refused statements, and a baseline (BaselineV1) that
\* overlaps a deployment's `up`.
RecordedIsApplied == version # NilVersion /\ ~dirty => schema = SchemaAt(version)

\* The recorded version never goes back: what BaselineV1 learns from the catalogue and
\* from the version row, one query after another, is still true enough when it
\* records V001, whatever an `up` has done meanwhile.
RecordNeverGoesBack == [][version' >= version]_vars

\* The version row can be believed: it names the schema when it is clean, and never goes
\* back.
SchemaSound == [](TypeOK /\ RecordedIsApplied) /\ RecordNeverGoesBack
=============================================================================
