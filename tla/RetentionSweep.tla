--------------------------- MODULE RetentionSweep ---------------------------
(***************************************************************************)
(* The retention worker: a ticker in every API instance that deletes rows  *)
(* past their retention window table by table, and then walks the accounts *)
(* in id order to bring the derived state of each up to date.              *)
(*                                                                         *)
(* One instance sweeps at a time, under an advisory lock that belongs to a *)
(* database session: the connection is pinned, its lock is counted, and a  *)
(* connection that goes back to the pool takes a lock it still has along.  *)
(* One tick has a budget of passes per table; the position in the accounts *)
(* is carried to the next tick, in memory.  Statements fail once in a      *)
(* while, or for good at one table or one account, and an instance may be  *)
(* stopped or killed at every step.                                        *)
(***************************************************************************)
EXTENDS Naturals, FiniteSets

CONSTANTS
  Instances,               \* API processes
  Pool,                    \* the sessions an instance keeps open
  NoSession,               \* no connection is pinned
  TableCount,              \* tables swept, in order; closed accounts are the last
  LastUser,                \* account ids are 1 .. LastUser
  BatchSize,               \* rows per statement
  MaxRetentionPasses,      \* statements per table and tick
  MaxDerivedStateFailures, \* failing ticks before the position is given up
  Situations               \* who runs, what is due, what fails for good, what may still happen

Tables == 1 .. TableCount
UserIds == 1 .. LastUser

VARIABLES
  sweep,    \* per instance: [pc, table, pass, at]
  pinned,   \* the session each sweeping instance holds on to
  held,     \* how often each session has taken the advisory lock
  memory,   \* per instance: [cursor, failures], lost with the process
  stopping, \* instances whose context is cancelled
  due,      \* rows past their window, per table
  stale,    \* accounts whose stored state is not the derived one
  walked,   \* ghost: accounts visited since the instance last stood at the head
  broken,   \* a table and an account whose statement always fails (0: none)
  budget    \* faults, stops, new rows and academic years still to come

sweepVars == <<sweep, pinned, held, memory, stopping, due, stale, walked, broken, budget>>

AtRest == [pc |-> "idle", table |-> 1, pass |-> 0, at |-> 0]
Absent == [AtRest EXCEPT !.pc = "absent"]
Fresh == [cursor |-> 0, failures |-> 0]

Spend(what) == budget[what] > 0 /\ budget' = [budget EXCEPT ![what] = @ - 1]

Lesser(a, b) == IF a < b THEN a ELSE b

----------------------------------------------------------------------------
(* The advisory lock *)

\* pg_try_advisory_lock: granted unless another session has it, and to its holder again.
Granted(i, s) == \A j \in Instances, t \in Pool : <<j, t>> # <<i, s>> => held[j][t] = 0

\* A tick.  An instance that does not get the lock leaves the tick to the one that has it.
TryLock(i) ==
  /\ sweep[i].pc = "idle" /\ ~stopping[i] /\ pinned[i] = NoSession
  /\ \E s \in Pool :
       /\ Granted(i, s)
       /\ held' = [held EXCEPT ![i][s] = @ + 1]
       /\ pinned' = [pinned EXCEPT ![i] = s]
  /\ sweep' = [sweep EXCEPT ![i].pc = "drain"]
  /\ UNCHANGED <<memory, stopping, due, stale, walked, broken, budget>>

\* The connection goes back to the pool whatever the unlock answered.
Unpin(i) == pinned' = [pinned EXCEPT ![i] = NoSession]

\* The unlock is detached from the cancelled context.  When it fails the session is lost
\* and the lock with it, or the connection goes back to the pool with the lock still held.
Unlock(i) ==
  /\ sweep[i].pc = "unlock"
  /\ \/ held' = [held EXCEPT ![i][pinned[i]] = @ - 1] /\ UNCHANGED budget
     \/ Spend("faults") /\ held' = [held EXCEPT ![i][pinned[i]] = 0]
     \/ Spend("faults") /\ UNCHANGED held
  /\ Unpin(i)
  /\ sweep' = [sweep EXCEPT ![i] = AtRest]
  /\ UNCHANGED <<memory, stopping, due, stale, walked, broken>>

\* The pool closes a connection that has reached its maximum lifetime.
Recycle(i, s) ==
  /\ held[i][s] > 0 /\ pinned[i] # s
  /\ held' = [held EXCEPT ![i][s] = 0]
  /\ UNCHANGED <<sweep, pinned, memory, stopping, due, stale, walked, broken, budget>>

----------------------------------------------------------------------------
(* Deleting *)

NextTable(i) ==
  sweep' = [sweep EXCEPT ![i] =
             IF @.table < TableCount THEN [@ EXCEPT !.table = @ + 1, !.pass = 0]
             ELSE [@ EXCEPT !.pc = "derive", !.pass = 0, !.at = memory[i].cursor]]

\* Mutant: a table that fails ends the sweep.
AbandonSweep(i) == sweep' = [sweep EXCEPT ![i].pc = "unlock"]

\* A failing table is left until the next tick; the others have their turn.
AbandonTable(i) == NextTable(i)

AtCap(pass) == pass + 1 >= MaxRetentionPasses

Drain(i) ==
  /\ sweep[i].pc = "drain" /\ ~stopping[i]
  /\ LET t == sweep[i].table
         removed == Lesser(BatchSize, due[t])
     IN \/ /\ broken.table # t
           /\ due' = [due EXCEPT ![t] = @ - removed]
           /\ IF removed < BatchSize \/ AtCap(sweep[i].pass)
              THEN NextTable(i)
              ELSE sweep' = [sweep EXCEPT ![i].pass = @ + 1]
           /\ UNCHANGED budget
        \/ /\ (broken.table = t /\ UNCHANGED budget) \/ Spend("faults")
           /\ AbandonTable(i)
           /\ UNCHANGED due
  /\ UNCHANGED <<pinned, held, memory, stopping, stale, walked, broken>>

----------------------------------------------------------------------------
(* Deriving *)

\* rememberDerivedStateCursor, and the end of the sweep.
EndAt(i, cursor, failures) ==
  /\ memory' = [memory EXCEPT ![i] = [cursor |-> cursor, failures |-> failures]]
  /\ sweep' = [sweep EXCEPT ![i].pc = "unlock"]
  /\ walked' = IF cursor = 0 THEN [walked EXCEPT ![i] = {}] ELSE walked

\* A batch that fails is tried again next tick, and the walk starts over from the head
\* when it has failed in too many ticks.
DerivedFails(i) ==
  IF memory[i].failures + 1 >= MaxDerivedStateFailures
  THEN EndAt(i, 0, 0)
  ELSE EndAt(i, sweep[i].at, memory[i].failures + 1)

\* Mutant: ids are compared with >= and the batch is read past the last id it returned.
NextCursorSkipping(at) == at + BatchSize + 1

NextCursor(at) == at + BatchSize

\* RecomputeDerivedState: one batch past the position.
Derive(i) ==
  /\ sweep[i].pc = "derive" /\ ~stopping[i]
  /\ LET at == sweep[i].at
         batch == {u \in UserIds : u > at /\ u <= at + BatchSize}
     IN \/ /\ broken.user \notin batch
           /\ stale' = stale \ batch
           /\ IF Cardinality(batch) < BatchSize THEN EndAt(i, 0, 0)
              ELSE IF AtCap(sweep[i].pass)
              THEN /\ memory' = [memory EXCEPT ![i] = [cursor |-> NextCursor(at), failures |-> 0]]
                   /\ sweep' = [sweep EXCEPT ![i].pc = "unlock"]
                   /\ walked' = [walked EXCEPT ![i] = @ \cup batch]
              ELSE /\ memory' = [memory EXCEPT ![i].failures = 0]
                   /\ sweep' = [sweep EXCEPT ![i].at = NextCursor(at), ![i].pass = @ + 1]
                   /\ walked' = [walked EXCEPT ![i] = @ \cup batch]
           /\ UNCHANGED budget
        \/ /\ (broken.user \in batch /\ UNCHANGED budget) \/ Spend("faults")
           /\ DerivedFails(i)
           /\ UNCHANGED stale
  /\ UNCHANGED <<pinned, held, stopping, due, broken>>

----------------------------------------------------------------------------
(* The process and its surroundings *)

\* The cancelled context is seen before the next statement.
SeeStop(i) ==
  /\ stopping[i] /\ sweep[i].pc \in {"drain", "derive"}
  /\ IF sweep[i].pc = "derive"
     THEN EndAt(i, sweep[i].at, memory[i].failures)
     ELSE sweep' = [sweep EXCEPT ![i].pc = "unlock"] /\ UNCHANGED <<memory, walked>>
  /\ UNCHANGED <<pinned, held, stopping, due, stale, broken, budget>>

Stop(i) ==
  /\ sweep[i].pc # "absent" /\ ~stopping[i] /\ Spend("stops")
  /\ stopping' = [stopping EXCEPT ![i] = TRUE]
  /\ UNCHANGED <<sweep, pinned, held, memory, due, stale, walked, broken>>

\* A new process in the place of one that ended: its sessions are closed.
Replaced(i) ==
  /\ sweep' = [sweep EXCEPT ![i] = AtRest]
  /\ pinned' = [pinned EXCEPT ![i] = NoSession]
  /\ held' = [held EXCEPT ![i] = [s \in Pool |-> 0]]
  /\ memory' = [memory EXCEPT ![i] = Fresh]
  /\ walked' = [walked EXCEPT ![i] = {}]
  /\ stopping' = [stopping EXCEPT ![i] = FALSE]
  /\ UNCHANGED <<due, stale, broken>>

Exit(i) == stopping[i] /\ sweep[i].pc = "idle" /\ Replaced(i) /\ UNCHANGED budget

Crash(i) == sweep[i].pc # "absent" /\ Spend("stops") /\ Replaced(i)

\* Another row passes its retention window.
RowFallsDue ==
  /\ Spend("rows")
  /\ \E t \in Tables : due' = [due EXCEPT ![t] = @ + 1]
  /\ UNCHANGED <<sweep, pinned, held, memory, stopping, stale, walked, broken>>

\* The academic year turns: every derived state may change.
NewAcademicYear ==
  /\ Spend("years")
  /\ stale' = UserIds
  /\ UNCHANGED <<sweep, pinned, held, memory, stopping, due, walked, broken>>

Init ==
  \E s \in Situations :
    /\ sweep = [i \in Instances |-> IF i \in s.running THEN AtRest ELSE Absent]
    /\ pinned = [i \in Instances |-> NoSession]
    /\ held = [i \in Instances |-> [t \in Pool |-> 0]]
    /\ memory = [i \in Instances |-> Fresh]
    /\ stopping = [i \in Instances |-> FALSE]
    /\ walked = [i \in Instances |-> {}]
    /\ due = s.due /\ stale = s.stale /\ broken = s.broken /\ budget = s.budget

Sweeping(i) == TryLock(i) \/ Drain(i) \/ Derive(i) \/ SeeStop(i) \/ Unlock(i) \/ Exit(i)

Next ==
  \/ \E i \in Instances : Sweeping(i) \/ Stop(i) \/ Crash(i) \/ \E s \in Pool : Recycle(i, s)
  \/ RowFallsDue \/ NewAcademicYear

\* The ticker and the sweep it starts go on in every instance.  A connection lives for half
\* an hour and a tick comes every hour: between two ticks of an instance its pool recycles.
Fairness ==
  \A i \in Instances : WF_sweepVars(Sweeping(i)) /\ SF_sweepVars(\E s \in Pool : Recycle(i, s))

Spec == Init /\ [][Next]_sweepVars /\ Fairness

----------------------------------------------------------------------------
\* Every variable has its type, and no tick runs more passes over a table than its budget.
TypeOK ==
  /\ sweep \in [Instances -> [pc : {"absent", "idle", "drain", "derive", "unlock"}, table : Tables,
                              pass : 0 .. MaxRetentionPasses - 1, at : 0 .. LastUser]]
  /\ pinned \in [Instances -> Pool \cup {NoSession}]
  /\ \A i \in Instances : held[i] \in [Pool -> Nat]
  /\ memory \in [Instances -> [cursor : 0 .. LastUser, failures : 0 .. MaxDerivedStateFailures - 1]]
  /\ stopping \in [Instances -> BOOLEAN]
  /\ due \in [Tables -> Nat] /\ stale \subseteq UserIds

\* No two instances sweep at the same time, through failed unlocks, pooled sessions that
\* kept the lock, stops and crashes.
OneSweeper ==
  \A i, j \in Instances :
    sweep[i].pc \notin {"absent", "idle"} /\ sweep[j].pc \notin {"absent", "idle"} => i = j

\* The position carried from tick to tick stands for accounts that were really visited
\* since the walk was last at the head: no batch is passed over.
WalkSkipsNothing ==
  \A i \in Instances :
    LET at == IF sweep[i].pc = "derive" THEN sweep[i].at ELSE memory[i].cursor
    IN 1 .. at \subseteq walked[i]

\* The rows past their window are deleted in the end, whichever other table fails for
\* good and however many statements, unlocks and processes fail on the way.
DueIsDeleted == []<>(\A t \in Tables : due[t] = 0 \/ broken.table = t)

\* Every account whose state went stale is brought up to date in the end, unless a batch at
\* or before its own fails for good: what comes earlier is visited again and again.
StaleIsDerived ==
  []<>(\A u \in stale : broken.user # 0 /\ (broken.user - 1) \div BatchSize <= (u - 1) \div BatchSize)

\* What holds of the sweeps at every moment: budgets, one sweeper, and a walk that passes
\* over nobody.
SweepSound == TypeOK /\ OneSweeper /\ WalkSkipsNothing

\* What is due is deleted and what is stale is derived, in the end.
SweepEnds == DueIsDeleted /\ StaleIsDerived
=============================================================================
