--------------------------- MODULE StartupProofs ---------------------------
(***************************************************************************)
(* Theorems about Migrator, LogTxIndexFixer, Startup and LogsMigration.    *)
(*                                                                         *)
(* Migrator: for any number of instances, versions, failures and restarts, *)
(* as long as no DROP of truncate-db fails.  The invariants are not        *)
(* inductive on their own: that the migration about to be committed is     *)
(* still the first unmarked one follows only from the table lock, which is *)
(* held from before the fetch until the commit.                            *)
(*                                                                         *)
(* LogTxIndexFixer and Startup: that the fixer's success report is true is *)
(* not inductive: it takes that no mismatch is above the batch in work     *)
(* (NothingSkipped).  The steps of Startup are steps of Migrator or leave  *)
(* its variables alone, so its theorems hold; those of the fixer have to   *)
(* be shown again, because truncate-db is a step the fixer alone does not  *)
(* know.  FixerOnLatestSchema follows from Migrator's LatestAfterMigrate   *)
(* and from what ties the two together: a fixer beyond its search belongs  *)
(* to a process whose RunMigrations has returned.                          *)
(*                                                                         *)
(* LogsMigration: what Renumber computes on the rows of a batch is shown   *)
(* by looking at a least counterexample (LeastNumber): in rows ordered by  *)
(* round, those of a round are a run, and the i-th row of a run gets the   *)
(* index i - 1.  The rounds that the loop has passed stay as they are,     *)
(* because a batch touches only the rounds it reads.                       *)
(***************************************************************************)
EXTENDS Startup, LogsMigration, FiniteSetTheorems, WellFoundedInduction, TLAPS

(* truncate-db may be used, but every DROP it issues succeeds.             *)
DropsSucceed == "dropFails" \notin Env

(* Whoever is inside a transaction holds the table lock, and nobody else.  *)
LockInv == \A i \in Instances : lock = i <=> pc[i] \in {"fetch", "commit"}

(* What a transaction has run is still the first migration not marked.     *)
ChosenInv ==
    \A i \in Instances : pc[i] = "commit" =>
        chosen[i] \in Migrations /\ IsFirst(chosen[i], Unapplied(i))

(* An instance leaves the loop only when all it knows is marked.           *)
DoneInv ==
    \A i \in Instances : pc[i] \in {"status", "done"} => 1 .. Version[i] \subseteq marks

IInv == TypeOK /\ LockInv /\ ChosenInv /\ DoneInv /\ ExactlyOnce /\ InOrder

LEMMA MigrationsType ==
    /\ \A m \in Migrations : m \in Nat \ {0}
    /\ \A i \in Instances : 1 .. Version[i] \subseteq Migrations
<1>1. \A i \in Instances : Version[i] \in Nat
  BY MigratorAssumption, Zenon
<1>2. \A i \in Instances : \A m \in 1 .. Version[i] : m \in Nat \ {0}
  BY <1>1
<1>3. QED
  BY <1>2, Zenon DEF Migrations

(* Making the effects of a transaction visible keeps the tables in order:  *)
(* used for a commit, and for a commit whose answer is lost.               *)
LEMMA CommitKeepsOrder ==
    ASSUME IInv, NEW i \in Instances, pc[i] = "commit", Committed(i)
    PROVE  /\ chosen[i] \in Migrations
           /\ marks \subseteq marks'
           /\ marks' \in SUBSET Migrations
           /\ runs' \in [Migrations -> Nat]
           /\ ExactlyOnce'
           /\ InOrder'
<1> DEFINE m == chosen[i]
<1>1. m \in Migrations /\ IsFirst(m, Unapplied(i))
  BY Zenon DEF IInv, ChosenInv
<1>2. m \notin marks /\ m \in 1 .. Version[i]
  BY <1>1, Zenon DEF IsFirst, Unapplied
<1>3. \A k \in 1 .. Version[i] : k \notin marks => m <= k
  BY <1>1, Zenon DEF IsFirst, Unapplied
<1>4. Version[i] \in Nat /\ m \in Nat
  BY <1>1, MigratorAssumption, MigrationsType, Zenon
<1>5. \A k \in 1 .. m : k \in marks \/ k = m
  BY <1>2, <1>3, <1>4
<1>6. marks' = marks \cup {m} /\ runs' = [runs EXCEPT ![m] = @ + 1]
  BY Zenon DEF Committed
<1>7. marks \in SUBSET Migrations /\ runs \in [Migrations -> Nat]
  BY Zenon DEF IInv, TypeOK
<1> HIDE DEF m
<1>8. InOrder'
  BY <1>5, <1>6, Zenon DEF IInv, InOrder
<1>9. ExactlyOnce'
  <2>1. runs[m] = 0
    BY <1>1, <1>2, Zenon DEF IInv, ExactlyOnce
  <2>2. \A n \in Migrations : runs'[n] = IF n = m THEN runs[n] + 1 ELSE runs[n]
    BY <1>6, <1>7, Zenon
  <2>3. QED
    BY <1>6, <2>1, <2>2 DEF IInv, ExactlyOnce
<1>10. runs' \in [Migrations -> Nat]
  BY <1>1, <1>6, <1>7
<1>11. QED
  BY <1>1, <1>6, <1>7, <1>8, <1>9, <1>10, Zenon DEF m

LEMMA InductiveStep == DropsSucceed /\ IInv /\ [Next]_vars => IInv'
<1> SUFFICES ASSUME DropsSucceed, IInv, [Next]_vars PROVE IInv'
  OBVIOUS
<1> USE MigratorAssumption
<1>1. ASSUME NEW i \in Instances, Start(i) PROVE IInv'
  <2>1. TypeOK'
    BY <1>1 DEF IInv, TypeOK, Start, Goes
  <2>2. UNCHANGED <<marks, runs, lock, chosen>> /\ ExactlyOnce' /\ InOrder'
    BY <1>1, Zenon DEF IInv, Start, ExactlyOnce, InOrder
  <2>3. LockInv' /\ ChosenInv' /\ DoneInv'
    BY <1>1, <2>2 DEF IInv, TypeOK, Start, Goes, LockInv, ChosenInv, DoneInv, Unapplied
  <2>4. QED
    BY <2>1, <2>2, <2>3, Zenon DEF IInv
<1>2. ASSUME NEW i \in Instances, InitTable(i) PROVE IInv'
  <2>1. TypeOK'
    BY <1>2, Zenon DEF IInv, TypeOK, InitTable, Goes
  <2>2. UNCHANGED <<marks, runs, lock, chosen>> /\ ExactlyOnce' /\ InOrder'
    BY <1>2, Zenon DEF IInv, InitTable, ExactlyOnce, InOrder
  <2>3. LockInv' /\ ChosenInv' /\ DoneInv'
    BY <1>2, <2>2 DEF IInv, TypeOK, InitTable, Goes, LockInv, ChosenInv, DoneInv, Unapplied
  <2>4. QED
    BY <2>1, <2>2, <2>3 DEF IInv
<1>3. ASSUME NEW i \in Instances, lockMigrations(i) PROVE IInv'
  <2>1. TypeOK'
    BY <1>3, Zenon DEF IInv, TypeOK, lockMigrations, Goes
  <2>2. UNCHANGED <<marks, runs, chosen>> /\ ExactlyOnce' /\ InOrder'
    BY <1>3, Zenon DEF IInv, lockMigrations, ExactlyOnce, InOrder
  <2>3. LockInv'
    BY <1>3, Zenon DEF IInv, TypeOK, lockMigrations, Goes, LockInv
  <2>4. ChosenInv' /\ DoneInv'
    BY <1>3, <2>2 DEF IInv, TypeOK, lockMigrations, Goes, ChosenInv, DoneInv, Unapplied
  <2>5. QED
    BY <2>1, <2>2, <2>3, <2>4, Zenon DEF IInv
<1>4. ASSUME NEW i \in Instances, FetchAndRun(i) PROVE IInv'
  <2> USE <1>4
  <2>a. /\ lock' \in Instances \cup {None}
        /\ chosen' \in [Instances -> Migrations \cup {None}]
    BY DEF IInv, TypeOK, FetchAndRun, Unlock
  <2>b. pc' \in [Instances -> {"off", "init", "begin", "fetch", "commit", "status", "done"}]
    BY Zenon DEF IInv, TypeOK, FetchAndRun, Goes
  <2>1. TypeOK'
    BY <2>a, <2>b, Zenon DEF IInv, TypeOK, FetchAndRun
  <2>2. UNCHANGED <<marks, runs>> /\ ExactlyOnce' /\ InOrder'
    BY <1>4, Zenon DEF IInv, FetchAndRun, ExactlyOnce, InOrder
  <2>3. LockInv'
    BY <1>4 DEF IInv, TypeOK, FetchAndRun, Goes, Unlock, LockInv
  <2>4. ChosenInv'
    <3>1. \A j \in Instances : Unapplied(j)' = Unapplied(j)
      BY <2>2, Zenon DEF Unapplied
    <3>2. \A j \in Instances \ {i} : pc'[j] = pc[j] /\ chosen'[j] = chosen[j]
      BY <1>4, Zenon DEF IInv, TypeOK, FetchAndRun, Goes
    <3>3. pc'[i] = "commit" => chosen'[i] \in Migrations /\ IsFirst(chosen'[i], Unapplied(i))
      <4>1. CASE Goes(i, "status")
        BY <4>1, Zenon DEF IInv, TypeOK, Goes
      <4>2. CASE \E m \in Migrations : /\ IsFirst(m, Unapplied(i))
                                       /\ chosen' = [chosen EXCEPT ![i] = m]
        <5>1. PICK m \in Migrations : IsFirst(m, Unapplied(i)) /\ chosen' = [chosen EXCEPT ![i] = m]
          BY <4>2, Zenon
        <5>2. chosen'[i] = m
          BY <5>1, Zenon DEF IInv, TypeOK
        <5>. QED
          BY <5>1, <5>2, Zenon
      <4>. QED
        BY <1>4, <4>1, <4>2, Zenon DEF FetchAndRun
    <3>4. ASSUME NEW j \in Instances, pc'[j] = "commit"
          PROVE  chosen'[j] \in Migrations /\ IsFirst(chosen'[j], Unapplied(j))
      <4>1. CASE j = i
        BY <3>3, <3>4, <4>1, Zenon
      <4>2. CASE j # i
        BY <3>2, <3>4, <4>2, Zenon DEF IInv, ChosenInv
      <4>. QED
        BY <4>1, <4>2, Zenon
    <3>5. ASSUME NEW j \in Instances, pc'[j] = "commit"
          PROVE  IsFirst(chosen'[j], Unapplied(j)')
      BY <3>1, <3>4, <3>5, Zenon
    <3>. QED
      BY <3>4, <3>5, Zenon DEF ChosenInv, IsFirst
  <2>5. DoneInv'
    BY <1>4, <2>2, Zenon DEF IInv, TypeOK, FetchAndRun, Goes, DoneInv, Unapplied
  <2>6. QED
    BY <2>1, <2>2, <2>3, <2>4, <2>5, Zenon DEF IInv
<1>5. ASSUME NEW i \in Instances, Commit(i) PROVE IInv'
  <2>1. pc[i] = "commit" /\ Committed(i) /\ lock = i
    BY <1>5, Zenon DEF Commit, IInv, LockInv
  <2>2. /\ marks \subseteq marks' /\ marks' \in SUBSET Migrations
        /\ runs' \in [Migrations -> Nat] /\ ExactlyOnce' /\ InOrder'
    BY <2>1, CommitKeepsOrder, Zenon
  <2>3. TypeOK'
    BY <1>5, <2>2, Zenon DEF IInv, TypeOK, Commit, Goes, Unlock
  <2>4. LockInv'
    BY <1>5, Zenon DEF IInv, TypeOK, Commit, Goes, Unlock, LockInv
  <2>5. \A j \in Instances : pc'[j] # "commit"
    BY <1>5, <2>1, Zenon DEF IInv, TypeOK, Commit, Goes, LockInv
  <2>6. DoneInv'
    BY <1>5, <2>2, Zenon DEF IInv, TypeOK, Commit, Goes, DoneInv
  <2>7. QED
    BY <2>2, <2>3, <2>4, <2>5, <2>6, Zenon DEF IInv, ChosenInv
<1>6. ASSUME NEW i \in Instances, Status(i) PROVE IInv'
  <2>1. TypeOK'
    BY <1>6, Zenon DEF IInv, TypeOK, Status, Goes
  <2>2. UNCHANGED <<marks, runs, lock, chosen>> /\ ExactlyOnce' /\ InOrder'
    BY <1>6, Zenon DEF IInv, Status, ExactlyOnce, InOrder
  <2>3. LockInv' /\ ChosenInv' /\ DoneInv'
    BY <1>6, <2>2 DEF IInv, TypeOK, Status, Goes, LockInv, ChosenInv, DoneInv, Unapplied
  <2>4. QED
    BY <2>1, <2>2, <2>3 DEF IInv
<1>7. ASSUME NEW i \in Instances, Fail(i) PROVE IInv'
  <2>1. /\ marks \subseteq marks' /\ marks' \in SUBSET Migrations
        /\ runs' \in [Migrations -> Nat] /\ ExactlyOnce' /\ InOrder'
    <3>1. CASE UNCHANGED <<marks, runs>>
      BY <3>1, Zenon DEF IInv, TypeOK, ExactlyOnce, InOrder
    <3>2. CASE pc[i] = "commit" /\ Committed(i)
      BY <3>2, CommitKeepsOrder, Zenon
    <3>3. QED
      BY <1>7, <3>1, <3>2, Zenon DEF Fail
  <2>2. TypeOK'
    BY <1>7, <2>1, Zenon DEF IInv, TypeOK, Fail, Goes, Unlock
  <2>3. LockInv'
    BY <1>7, Zenon DEF IInv, TypeOK, Fail, Goes, Unlock, LockInv
  <2>4. ChosenInv'
    <3> SUFFICES ASSUME NEW j \in Instances, pc'[j] = "commit"
                 PROVE  chosen'[j] \in Migrations /\ IsFirst(chosen'[j], Unapplied(j)')
      BY Zenon DEF ChosenInv, IsFirst
    <3>1. j # i /\ pc[j] = "commit" /\ chosen'[j] = chosen[j]
      BY <1>7, Zenon DEF IInv, TypeOK, Fail, Goes
    <3>2. pc[i] # "commit"
      BY <3>1, Zenon DEF IInv, LockInv
    <3>3. marks' = marks
      BY <1>7, <3>2, Zenon DEF Fail
    <3>4. QED
      BY <3>1, <3>3, Zenon DEF IInv, ChosenInv, Unapplied
  <2>5. DoneInv'
    BY <1>7, <2>1, Zenon DEF IInv, TypeOK, Fail, Goes, DoneInv
  <2>6. QED
    BY <2>1, <2>2, <2>3, <2>4, <2>5, Zenon DEF IInv
<1>8. CASE DropTables
  <2>1. /\ hasTable' = FALSE /\ marks' = {} /\ runs' = [m \in Migrations |-> 0]
        /\ pc' = [i \in Instances |-> "off"] /\ UNCHANGED <<lock, chosen, starts>>
    BY <1>8, Zenon DEF DropTables, DropsSucceed
  <2>2. \A i \in Instances : lock # i
    BY <1>8, Zenon DEF DropTables, IInv, LockInv
  <2>3. TypeOK'
    <3>1. runs' \in [Migrations -> Nat]
      BY <2>1
    <3>2. QED
      BY <2>1, <3>1, Zenon DEF IInv, TypeOK
  <2>4. LockInv' /\ ChosenInv' /\ DoneInv'
    BY <2>1, <2>2, Zenon DEF LockInv, ChosenInv, DoneInv
  <2>5. ExactlyOnce' /\ InOrder'
    BY <2>1, Zenon DEF ExactlyOnce, InOrder
  <2>6. QED
    BY <2>3, <2>4, <2>5, Zenon DEF IInv
<1>9. CASE UNCHANGED vars
  <2>1. TypeOK'
    BY <1>9, Zenon DEF vars, IInv, TypeOK
  <2>2. LockInv' /\ DoneInv'
    BY <1>9, Zenon DEF vars, IInv, LockInv, DoneInv
  <2>3. ExactlyOnce' /\ InOrder'
    BY <1>9, Zenon DEF vars, IInv, ExactlyOnce, InOrder
  <2>4. ChosenInv'
    BY <1>9, Zenon DEF vars, IInv, ChosenInv, Unapplied
  <2>5. QED
    BY <2>1, <2>2, <2>3, <2>4, Zenon DEF IInv
<1>10. QED
  BY <1>1, <1>2, <1>3, <1>4, <1>5, <1>6, <1>7, <1>8, <1>9, Zenon DEF Next

LEMMA Invariance == DropsSucceed /\ Spec => []IInv
<1>1. Init => IInv
  <2> SUFFICES ASSUME Init PROVE IInv
    OBVIOUS
  <2>1. TypeOK
    <3>1. hasTable \in BOOLEAN
      BY Zenon DEF Init
    <3>2. /\ marks \in SUBSET Migrations /\ runs \in [Migrations -> Nat]
          /\ lock \in Instances \cup {None}
      BY Zenon DEF Init
    <3>3. /\ chosen \in [Instances -> Migrations \cup {None}]
          /\ pc \in [Instances -> {"off", "init", "begin", "fetch", "commit", "status", "done"}]
          /\ starts \in [Instances -> 0 .. MaxStarts]
      BY MigratorAssumption DEF Init
    <3>4. QED
      BY <3>1, <3>2, <3>3, Zenon DEF TypeOK
  <2>2. LockInv
    BY MigratorAssumption DEF Init, LockInv
  <2>3. ChosenInv /\ DoneInv /\ ExactlyOnce /\ InOrder
    BY Zenon DEF Init, ChosenInv, DoneInv, ExactlyOnce, InOrder
  <2>4. QED
    BY <2>1, <2>2, <2>3, Zenon DEF IInv
<1>2. SUFFICES ASSUME DropsSucceed PROVE Spec => []IInv
  OBVIOUS
<1>3. IInv /\ [Next]_vars => IInv'
  BY <1>2, InductiveStep, Zenon
<1>4. QED
  BY <1>1, <1>3, PTL DEF Spec

(* Concurrent, failing and restarting instances of Migrate run and mark    *)
(* every migration exactly once.                                           *)
THEOREM MigratesOnce == DropsSucceed /\ Spec => []ExactlyOnce
  BY Invariance, PTL DEF IInv

(* No migration is applied before one with a smaller name.                 *)
THEOREM MigratesInOrder == DropsSucceed /\ Spec => []InOrder
  BY Invariance, PTL DEF IInv

(* The table lock is held exactly by the instance that is inside its       *)
(* transaction: it is given back on every path, a failure and the end of   *)
(* the process included, so that whoever waits for it waits for someone    *)
(* who is at work (MigrateReturns).                                        *)
THEOREM LockGivenBack == DropsSucceed /\ Spec => []LockInv
  BY Invariance, PTL DEF IInv

(* The database as one migrator would change it: the first migration that  *)
(* is missing is run and marked, or everything is dropped.                 *)
OneByOne ==
    \/ \E m \in Migrations :
          /\ m \notin marks /\ \A k \in 1 .. m : k \in marks \/ k = m
          /\ marks' = marks \cup {m}
          /\ runs' = [runs EXCEPT ![m] = @ + 1]
    \/ marks' = {} /\ runs' = [m \in Migrations |-> 0]

(* Any number of instances, of different versions, that migrate at the     *)
(* same time, fail anywhere and lose the answers to their commits, change  *)
(* the database as one instance that applies one migration after the       *)
(* other.                                                                  *)
THEOREM MigratesAsOne == DropsSucceed /\ Spec => [][OneByOne]_<<marks, runs>>
<1>1. ASSUME IInv, NEW i \in Instances, pc[i] = "commit", Committed(i) PROVE OneByOne
  <2> DEFINE m == chosen[i]
  <2>1. m \in Migrations /\ IsFirst(m, Unapplied(i))
    BY <1>1, Zenon DEF IInv, ChosenInv
  <2>2. m \notin marks /\ m \in 1 .. Version[i] /\ \A k \in 1 .. Version[i] : k \notin marks => m <= k
    BY <2>1, Zenon DEF IsFirst, Unapplied
  <2>3. Version[i] \in Nat /\ m \in Nat
    BY <2>1, MigratorAssumption, MigrationsType, Zenon
  <2>4. \A k \in 1 .. m : k \in marks \/ k = m
    BY <2>2, <2>3
  <2>. QED
    BY <1>1, <2>1, <2>2, <2>4, Zenon DEF Committed, OneByOne
<1>2. DropsSucceed /\ IInv /\ [Next]_vars => [OneByOne]_<<marks, runs>>
  <2> SUFFICES ASSUME DropsSucceed, IInv, [Next]_vars
               PROVE  OneByOne \/ UNCHANGED <<marks, runs>>
    OBVIOUS
  <2>1. ASSUME NEW i \in Instances,
               \/ Start(i) \/ InitTable(i) \/ lockMigrations(i) \/ FetchAndRun(i) \/ Status(i)
        PROVE  UNCHANGED <<marks, runs>>
    BY <2>1, Zenon DEF Start, InitTable, lockMigrations, FetchAndRun, Status
  <2>2. ASSUME NEW i \in Instances, Commit(i) \/ Fail(i)
        PROVE  OneByOne \/ UNCHANGED <<marks, runs>>
    BY <1>1, <2>2, Zenon DEF Commit, Fail
  <2>3. CASE DropTables
    <3>1. PICK dropped \in SUBSET {"migrations", "data"} :
            /\ dropped = {"migrations", "data"}
            /\ IF "migrations" \in dropped THEN marks' = {} ELSE TRUE
            /\ runs' = IF "data" \in dropped THEN [m \in Migrations |-> 0] ELSE runs
      BY <2>3, Zenon DEF DropTables, DropsSucceed
    <3>2. marks' = {} /\ runs' = [m \in Migrations |-> 0]
      BY <3>1, Zenon
    <3>. QED
      BY <3>2, Zenon DEF OneByOne
  <2>4. CASE UNCHANGED vars
    BY <2>4, Zenon DEF vars
  <2>. QED
    BY <2>1, <2>2, <2>3, <2>4, Zenon DEF Next
<1>3. SUFFICES ASSUME DropsSucceed PROVE Spec => [][OneByOne]_<<marks, runs>>
  OBVIOUS
<1>4. IInv /\ [Next]_vars => [OneByOne]_<<marks, runs>>
  BY <1>2, <1>3, Zenon
<1>. QED
  BY <1>3, <1>4, Invariance, PTL DEF Spec

(* When Migrate returns nil the database has all the instance knows.       *)
THEOREM MigratesToLatest == DropsSucceed /\ Spec => []LatestAfterMigrate
<1>1. IInv => LatestAfterMigrate
  <2> SUFFICES ASSUME IInv, NEW i \in Instances, pc[i] = "done", NEW m \in 1 .. Version[i]
               PROVE  runs[m] > 0
    BY Zenon DEF LatestAfterMigrate
  <2>1. m \in marks /\ m \in Migrations
    BY MigrationsType, Zenon DEF IInv, DoneInv
  <2>2. QED
    BY <2>1 DEF IInv, ExactlyOnce
<1>2. QED
  BY <1>1, Invariance, PTL
-----------------------------------------------------------------------------
(* The fixer, and the start of the gateway as a whole.                     *)

FixerIInv == FixerTypeOK /\ NothingSkipped /\ AllFixed

(* The start of a batch is a round, at most the end of the batch, and the  *)
(* end of the next batch is a round as well unless the batch starts at 0:  *)
(* the unsigned subtractions of Start do not wrap around.                  *)
LEMMA BatchArithmetic ==
    ASSUME NEW end \in Nat
    PROVE  /\ StartRound(end) \in Nat
           /\ StartRound(end) <= end
           /\ StartRound(end) # 0 => NextEnd(StartRound(end)) \in Nat
  BY FixerAssumption DEF StartRound, NextEnd

(* Only rounds at or below the batch's end stay in the loop after a batch, *)
(* so the ones left over are below its start.                              *)
LEMMA BatchLeaves ==
    ASSUME FixerTypeOK, NEW start \in Nat, NEW end \in Nat,
           \A r \in mismatched : r <= end
    PROVE  /\ Fixed(start, end) \in SUBSET Rounds
           /\ start = 0 => Fixed(start, end) = {}
           /\ \A r \in Fixed(start, end) : r <= end
           /\ start # 0 => \A r \in Fixed(start, end) : r <= NextEnd(start)
<1>1. \A r \in mismatched : r \in Rounds /\ r \in Nat
  BY FixerAssumption DEF FixerTypeOK, Rounds
<1>2. Fixed(start, end) \in SUBSET Rounds
  BY <1>1 DEF Fixed
<1>3. \A r \in Fixed(start, end) : r \in Nat /\ r <= end /\ r < start
  BY <1>1 DEF Fixed
<1>4. start # 0 => \A r \in Fixed(start, end) : r <= NextEnd(start)
  BY <1>3 DEF NextEnd
<1>5. start = 0 => Fixed(start, end) = {}
  BY <1>3
<1>6. QED
  BY <1>2, <1>3, <1>4, <1>5

LEMMA FixerInductiveStep == FixerIInv /\ [FixerNext]_fixerVars => FixerIInv'
<1> SUFFICES ASSUME FixerIInv, [FixerNext]_fixerVars PROVE FixerIInv'
  OBVIOUS
<1> USE DEF FixerIInv
<1>1. CASE FindHighest
  BY <1>1, FixerAssumption
     DEF FindHighest, IsHighestMismatched, FixerTypeOK, NothingSkipped, AllFixed, Rounds
<1>2. CASE FixBatch
  <2> DEFINE start == StartRound(currentEndRound)
  <2>1. currentEndRound \in Nat /\ \A r \in mismatched : r <= currentEndRound
    BY <1>2 DEF FixBatch, FixerTypeOK, NothingSkipped
  <2>2. start \in Nat /\ (start # 0 => NextEnd(start) \in Nat)
    BY <2>1, BatchArithmetic
  <2> HIDE DEF start
  <2>3. /\ mismatched' = Fixed(start, currentEndRound)
        /\ start = 0 => fixerPc' = "done" /\ currentEndRound' = currentEndRound
        /\ start # 0 => fixerPc' = "loop" /\ currentEndRound' = NextEnd(start)
        /\ UNCHANGED <<cancelled, stops>>
    BY <1>2 DEF FixBatch, start
  <2>4. /\ mismatched' \in SUBSET Rounds
        /\ start = 0 => mismatched' = {}
        /\ start # 0 => \A r \in mismatched' : r <= NextEnd(start)
    BY <2>1, <2>2, <2>3, BatchLeaves
  <2>5. QED
    BY <2>1, <2>2, <2>3, <2>4 DEF FixerTypeOK, NothingSkipped, AllFixed
<1>3. CASE FixFails
  <2>1. currentEndRound \in Nat /\ \A r \in mismatched : r <= currentEndRound
    BY <1>3 DEF FixFails, FixerTypeOK, NothingSkipped
  <2>2. StartRound(currentEndRound) \in Nat
    BY <2>1, BatchArithmetic
  <2>3. /\ mismatched' \in SUBSET Rounds
        /\ \A r \in mismatched' : r <= currentEndRound
    BY <1>3, <2>1, <2>2, BatchLeaves DEF FixFails, FixerTypeOK
  <2>4. QED
    BY <1>3, <2>1, <2>3 DEF FixFails, FixerTypeOK, NothingSkipped, AllFixed
<1>4. CASE Prune
  BY <1>4 DEF Prune, FixerTypeOK, NothingSkipped, AllFixed
<1>5. CASE Cancel
  BY <1>5, FixerAssumption DEF Cancel, FixerTypeOK, NothingSkipped, AllFixed
<1>6. CASE FindFails
  BY <1>6 DEF FindFails, FixerTypeOK, NothingSkipped, AllFixed
<1>7. CASE CheckContext
  BY <1>7 DEF CheckContext, FixerTypeOK, NothingSkipped, AllFixed
<1>8. CASE BackoffEnds
  BY <1>8 DEF BackoffEnds, FixerTypeOK, NothingSkipped, AllFixed
<1>9. CASE Restart
  BY <1>9, Zenon DEF Restart, FixerTypeOK, NothingSkipped, AllFixed
<1>10. CASE UNCHANGED fixerVars
  BY <1>10 DEF fixerVars, FixerTypeOK, NothingSkipped, AllFixed
<1>11. QED
  BY <1>1, <1>2, <1>3, <1>4, <1>5, <1>6, <1>7, <1>8, <1>9, <1>10, Zenon DEF FixerNext

LEMMA FixerInitial == FixerInit => FixerIInv
<1> SUFFICES ASSUME FixerInit PROVE FixerIInv
  OBVIOUS
<1>1. currentEndRound \in Nat /\ stops \in 0 .. MaxStops
  BY FixerAssumption DEF FixerInit
<1>2. fixerPc = "search" /\ mismatched \in SUBSET Rounds /\ cancelled \in BOOLEAN
  BY Zenon DEF FixerInit
<1>3. QED
  BY <1>1, <1>2 DEF FixerIInv, FixerTypeOK, NothingSkipped, AllFixed

LEMMA FixerInvariance == FixerSpec => []FixerIInv
  BY FixerInitial, FixerInductiveStep, PTL DEF FixerSpec

(* When LogTxIndexFixer.Start reports that all mismatches are fixed, there *)
(* are none, for every batch size, failure and interruption.               *)
THEOREM FixerComplete == FixerSpec => []AllFixed
  BY FixerInvariance, PTL DEF FixerIInv

(* The worker's round numbers stay in range, and no mismatched round is    *)
(* above the batch it works on.                                            *)
THEOREM FixerWalk == FixerSpec => [](FixerTypeOK /\ NothingSkipped)
  BY FixerInvariance, PTL DEF FixerIInv

(* A step of the walk. *)
Descends ==
    LET walking == {"loop", "fix", "backoff"} IN
    /\ mismatched' \subseteq mismatched
    /\ fixerPc \in walking /\ fixerPc' \in walking =>
          /\ currentEndRound' <= currentEndRound
          /\ fixerPc = "fix" /\ fixerPc' = "loop" => currentEndRound' < currentEndRound

(* What makes the walk of LogTxIndexFixer.Start end (WalkEnds), for every  *)
(* batch size: a batch that succeeds takes it to a smaller round, a batch  *)
(* that fails and is retried to no larger one, and neither the fixer nor   *)
(* the pruner ever adds a mismatch.                                        *)
THEOREM WalkDescends == FixerSpec => [][Descends]_fixerVars
<1>1. FixerIInv /\ [FixerNext]_fixerVars => [Descends]_fixerVars
  <2> SUFFICES ASSUME FixerIInv, FixerNext PROVE Descends
    BY DEF fixerVars
  <2>1. currentEndRound \in Nat /\ batchSize \in Nat \ {0}
    BY FixerAssumption DEF FixerIInv, FixerTypeOK
  <2>2. CASE FindHighest \/ FindFails \/ CheckContext \/ BackoffEnds
    BY <2>1, <2>2 DEF FindHighest, FindFails, CheckContext, BackoffEnds, Descends
  <2>3. CASE FixBatch
    BY <2>1, <2>3 DEF FixBatch, Fixed, StartRound, NextEnd, Descends
  <2>4. CASE FixFails
    BY <2>1, <2>4 DEF FixFails, Fixed, Descends
  <2>5. CASE Prune \/ Cancel \/ Restart
    BY <2>1, <2>5 DEF Prune, Cancel, Restart, Descends
  <2>. QED
    BY <2>2, <2>3, <2>4, <2>5, Zenon DEF FixerNext
<1>. QED
  BY <1>1, FixerInvariance, PTL DEF FixerSpec

-----------------------------------------------------------------------------
(* The composed system. *)

RunnerInv == fixerPc # "search" => pc[Runner] = "done"

(* Seen from the migrations, a start of the system is a run of Migrator.   *)
LEMMA StepMigrates == [StartupNext]_allVars => [Next]_vars
<1> SUFFICES ASSUME [StartupNext]_allVars PROVE Next \/ UNCHANGED vars
  OBVIOUS
<1>1. ASSUME NEW i \in Instances, StartProcess(i) PROVE Next
  BY <1>1 DEF StartProcess, Next
<1>2. ASSUME NEW i \in Instances, Migrate(i) PROVE Next
  BY <1>2 DEF Migrate, Next
<1>3. ASSUME NEW i \in Instances, MigrateFails(i) PROVE Next
  BY <1>3 DEF MigrateFails, Next
<1>4. CASE FixerRuns
  BY <1>4 DEF FixerRuns
<1>5. CASE OthersPrune
  BY <1>5 DEF OthersPrune
<1>6. CASE Truncate
  BY <1>6 DEF Truncate, Next
<1>7. CASE UNCHANGED allVars
  BY <1>7 DEF allVars
<1>8. QED
  BY <1>1, <1>2, <1>3, <1>4, <1>5, <1>6, <1>7, Zenon DEF StartupNext

(* The fixer's invariant survives restarts and truncate-db. *)
LEMMA StepFixes == FixerIInv /\ [StartupNext]_allVars => FixerIInv'
<1> SUFFICES ASSUME FixerIInv, [StartupNext]_allVars PROVE FixerIInv'
  OBVIOUS
<1>1. ASSUME NEW i \in Instances, StartProcess(i) PROVE [FixerNext]_fixerVars
  BY <1>1 DEF StartProcess, FixerNext
<1>2. ASSUME NEW i \in Instances, Migrate(i) PROVE [FixerNext]_fixerVars
  BY <1>2 DEF Migrate
<1>3. ASSUME NEW i \in Instances, MigrateFails(i) PROVE [FixerNext]_fixerVars
  BY <1>3 DEF MigrateFails
<1>4. FixerRuns => [FixerNext]_fixerVars
  BY DEF FixerRuns, FixerNext
<1>5. OthersPrune => [FixerNext]_fixerVars
  BY DEF OthersPrune, FixerNext
<1>6. CASE Truncate
  <2>1. /\ mismatched' \in SUBSET Rounds
        /\ fixerPc' = "search" /\ currentEndRound' \in Nat
        /\ stops' \in 0 .. MaxStops
    BY <1>6 DEF Truncate, FixerIInv, FixerTypeOK
  <2>2. cancelled' \in BOOLEAN
    BY <1>6, Zenon DEF Truncate
  <2>3. QED
    BY <2>1, <2>2 DEF FixerIInv, FixerTypeOK, NothingSkipped, AllFixed
<1>7. UNCHANGED allVars => [FixerNext]_fixerVars
  BY DEF allVars
<1>8. [FixerNext]_fixerVars => FixerIInv'
  BY FixerInductiveStep
<1>9. QED
  BY <1>1, <1>2, <1>3, <1>4, <1>5, <1>6, <1>7, <1>8, Zenon DEF StartupNext

(* The fixer leaves its search only in a process that has migrated. *)
LEMMA StepTies == TypeOK /\ RunnerInv /\ [StartupNext]_allVars => RunnerInv'
<1> SUFFICES ASSUME TypeOK, RunnerInv, [StartupNext]_allVars PROVE RunnerInv'
  OBVIOUS
<1> USE RunnerAssumption DEF RunnerInv
<1>1. ASSUME NEW i \in Instances, StartProcess(i) PROVE RunnerInv'
  <2>1. CASE i = Runner /\ pc[i] = "done"
    BY <1>1, <2>1 DEF StartProcess, Restart
  <2>2. CASE i # Runner
    BY <1>1, <2>2 DEF StartProcess, Start, Goes, TypeOK, fixerVars
  <2>3. CASE i = Runner /\ pc[i] # "done"
    BY <1>1, <2>3 DEF StartProcess, fixerVars
  <2>4. QED
    BY <2>1, <2>2, <2>3
<1>2. ASSUME NEW i \in Instances, Migrate(i) PROVE RunnerInv'
  <2>1. fixerPc' = fixerPc /\ pc[i] # "done"
    BY <1>2 DEF Migrate, fixerVars, InitTable, lockMigrations, FetchAndRun, Commit, Status
  <2>2. i # Runner => pc'[Runner] = pc[Runner]
    BY <1>2 DEF Migrate, InitTable, lockMigrations, FetchAndRun, Commit, Status, Goes, TypeOK
  <2>3. QED
    BY <2>1, <2>2
<1>3. ASSUME NEW i \in Instances, MigrateFails(i) PROVE RunnerInv'
  <2>1. fixerPc' = fixerPc /\ pc[i] # "done"
    BY <1>3 DEF MigrateFails, Fail, fixerVars
  <2>2. i # Runner => pc'[Runner] = pc[Runner]
    BY <1>3 DEF MigrateFails, Fail, Goes, TypeOK
  <2>3. QED
    BY <2>1, <2>2
<1>4. CASE FixerRuns
  BY <1>4 DEF FixerRuns, vars
<1>5. CASE OthersPrune
  BY <1>5 DEF OthersPrune, Prune, vars
<1>6. CASE Truncate
  BY <1>6 DEF Truncate
<1>7. CASE UNCHANGED allVars
  BY <1>7 DEF allVars, vars, fixerVars
<1>8. QED
  BY <1>1, <1>2, <1>3, <1>4, <1>5, <1>6, <1>7, Zenon DEF StartupNext

(* The composed system implements Migrator: whatever is proved of several  *)
(* instances of RunMigrations holds while their fixers work and the        *)
(* database is truncated.                                                  *)
THEOREM StartupRefinesMigrator == StartupSpec => Spec
<1>1. StartupInit => Init
  BY DEF StartupInit
<1>2. QED
  BY <1>1, StepMigrates, PTL DEF StartupSpec, Spec

(* In the composed system, too, the fixer skips no mismatched log and      *)
(* reports success only when none is left.                                 *)
THEOREM StartupFixes == StartupSpec => [](AllFixed /\ NothingSkipped)
<1>1. StartupInit => FixerIInv
  BY FixerInitial DEF StartupInit
<1>2. FixerIInv => AllFixed /\ NothingSkipped
  BY DEF FixerIInv
<1>3. QED
  BY <1>1, <1>2, StepFixes, PTL DEF StartupSpec

(* The fixer of runRoot never works on a database that lacks a migration   *)
(* its process knows.                                                      *)
THEOREM FixerAfterMigrations ==
    DropsSucceed /\ StartupSpec => []FixerOnLatestSchema
<1>1. StartupInit => RunnerInv
  BY DEF StartupInit, FixerInit, RunnerInv
<1>2. DropsSucceed /\ StartupSpec => [](TypeOK /\ LatestAfterMigrate)
  BY StartupRefinesMigrator, MigratesToLatest, Invariance, PTL DEF IInv
<1>3. DropsSucceed /\ StartupSpec => []RunnerInv
  BY <1>1, <1>2, StepTies, PTL DEF StartupSpec
<1>4. RunnerInv /\ LatestAfterMigrate => FixerOnLatestSchema
  BY RunnerAssumption DEF RunnerInv, LatestAfterMigrate, FixerOnLatestSchema
<1>5. QED
  BY <1>2, <1>3, <1>4, PTL

-----------------------------------------------------------------------------
(* The indexes that LogsUp gives.                                          *)

LEMMA LeastNumber ==
    ASSUME NEW T, T \subseteq Nat, T # {}
    PROVE  \E x \in T : \A y \in T : x <= y
<1>1. PICK x \in T : \A y \in T : ~(<<y, x>> \in OpToRel(<, Nat))
  BY WFMin, NatLessThanWellFounded, Zenon
<1>2. ASSUME NEW y \in T PROVE x <= y
  <2>1. ~(<<y, x>> \in OpToRel(<, Nat)) /\ x \in Nat /\ y \in Nat
    BY <1>1, <1>2
  <2>. QED
    BY <2>1 DEF OpToRel
<1>. QED
  BY <1>2

(* The index counts on from the row before, or starts over. *)
Starts(rows, i) == i = 1 \/ rows[i].round # rows[i - 1].round
Counted(rows, f, i) == f[i] = IF Starts(rows, i) THEN 0 ELSE f[i - 1] + 1

LEMMA NumberingUpTo ==
    ASSUME NEW rows, NEW n \in Nat
    PROVE  \E f \in [1..n -> Nat] : \A i \in 1..n : Counted(rows, f, i)
<1> DEFINE P(m) == \E f \in [1..m -> Nat] : \A i \in 1..m : Counted(rows, f, i)
           T == {m \in Nat : ~P(m)}
<1> SUFFICES ASSUME ~P(n) PROVE FALSE
  BY Zenon
<1>1. PICK m \in T : \A y \in T : m <= y
  <2>1. n \in T /\ T \subseteq Nat
    OBVIOUS
  <2> HIDE DEF T
  <2>2. T # {}
    BY <2>1, Zenon
  <2>. QED
    BY <2>1, <2>2, LeastNumber, Zenon
<1>2. m \in Nat /\ ~P(m)
  BY <1>1, Zenon
<1>3. m # 0
  <2>1. P(0)
    <3>1. [i \in 1..0 |-> 0] \in [1..0 -> Nat] /\ 1..0 = {}
      OBVIOUS
    <3>. QED
      BY <3>1, Zenon
  <2>. QED
    BY <1>2, <2>1, Zenon
<1>4. m - 1 \in Nat /\ P(m - 1)
  <2>1. m - 1 \in Nat /\ ~(m <= m - 1)
    <3> HIDE DEF P, T
    <3>. QED
      BY <1>2, <1>3
  <2>2. m - 1 \notin T
    BY <1>1, <2>1, Zenon
  <2>. QED
    BY <2>1, <2>2, Zenon
<1>5. PICK f \in [1..m - 1 -> Nat] : \A i \in 1..m - 1 : Counted(rows, f, i)
  BY <1>4, Zenon
<1> DEFINE g == [i \in 1..m |-> IF i = m THEN (IF Starts(rows, m) THEN 0 ELSE f[m - 1] + 1)
                                ELSE f[i]]
<1>6. /\ m \in 1..m /\ \A i \in 1..m : i = m \/ i \in 1..m - 1
      /\ \A i \in 1..m - 1 : i \in 1..m /\ i # m
      /\ \A i \in 1..m - 1 : i = 1 \/ i - 1 \in 1..m - 1
      /\ m = 1 \/ m - 1 \in 1..m - 1
  <2> HIDE DEF P, T
  <2>. QED
    BY <1>2, <1>3
<1>7. /\ \A i \in 1..m - 1 : g[i] = f[i] /\ f[i] \in Nat
      /\ g[m] = IF Starts(rows, m) THEN 0 ELSE f[m - 1] + 1
  BY <1>6, Zenon
<1>8. g \in [1..m -> Nat]
  <2>1. g[m] \in Nat
    <3>1. CASE Starts(rows, m)
      BY <1>7, <3>1
    <3>2. CASE ~Starts(rows, m)
      <4>1. m - 1 \in 1..m - 1 /\ g[m] = f[m - 1] + 1
        BY <1>6, <1>7, <3>2, Zenon DEF Starts
      <4>2. f[m - 1] \in Nat
        BY <1>7, <4>1, Zenon
      <4> HIDE DEF g
      <4>. QED
        BY <4>1, <4>2
    <3>. QED
      BY <3>1, <3>2
  <2>2. \A i \in 1..m : g[i] \in Nat
    BY <1>6, <1>7, <2>1, Zenon
  <2>3. g = [i \in 1..m |-> g[i]]
    BY Zenon
  <2> HIDE DEF g
  <2>. QED
    BY <2>2, <2>3, Zenon
<1>9. ASSUME NEW i \in 1..m PROVE Counted(rows, g, i)
  <2> HIDE DEF g
  <2>1. CASE i = m
    BY <1>6, <1>7, <2>1, Zenon DEF Counted, Starts
  <2>2. CASE i \in 1..m - 1
    BY <1>5, <1>6, <1>7, <2>2, Zenon DEF Counted, Starts
  <2>. QED
    BY <1>6, <2>1, <2>2
<1>. QED
  BY <1>2, <1>8, <1>9, Zenon

(* What Renumber computes. *)
Numbering(rows, n, f) ==
    /\ \A i \in 1..n : Counted(rows, f, i)
    /\ Renumber(rows) = [i \in 1..n |-> [rows[i] EXCEPT !.index = f[i]]]

LEMMA RenumberCounts ==
    ASSUME NEW S, NEW n \in Nat, NEW rows \in [1..n -> S]
    PROVE  \E f \in [1..n -> Nat] : Numbering(rows, n, f)
<1> DEFINE Eq(f) == f = [i \in DOMAIN rows |->
                            IF i = 1 \/ rows[i].round # rows[i - 1].round THEN 0
                            ELSE f[i - 1] + 1]
           f == CHOOSE g : Eq(g)
<1>0. DOMAIN rows = 1..n
  BY Zenon
<1>1. Renumber(rows) = [i \in DOMAIN rows |-> [rows[i] EXCEPT !.index = f[i]]]
  BY DEF Renumber
<1>2. PICK g \in [1..n -> Nat] : \A i \in 1..n : Counted(rows, g, i)
  BY NumberingUpTo, Zenon
<1>3. Eq(g)
  <2>1. g = [i \in 1..n |-> g[i]]
    BY Zenon
  <2>2. \A i \in 1..n : g[i] = IF i = 1 \/ rows[i].round # rows[i - 1].round THEN 0
                               ELSE g[i - 1] + 1
    BY <1>2, Zenon DEF Counted, Starts
  <2>. QED
    BY <1>0, <2>1, <2>2, Zenon
<1>4. Eq(f)
  <2> HIDE DEF Eq
  <2>. QED
    BY <1>3, Zenon
<1>5. /\ f = [i \in 1..n |-> f[i]]
      /\ \A i \in 1..n : Counted(rows, f, i)
  <2>1. f = [i \in 1..n |-> IF i = 1 \/ rows[i].round # rows[i - 1].round THEN 0
                            ELSE f[i - 1] + 1]
    BY <1>0, <1>4, Zenon
  <2> HIDE DEF f
  <2>2. f = [i \in 1..n |-> f[i]]
    BY <2>1, Zenon
  <2>3. \A i \in 1..n : f[i] = IF i = 1 \/ rows[i].round # rows[i - 1].round THEN 0
                               ELSE f[i - 1] + 1
    BY <2>1, Zenon
  <2>. QED
    BY <2>2, <2>3, Zenon DEF Counted, Starts
<1> HIDE DEF f, Eq
<1>6. \A i \in 1..n : f[i] = g[i]
  <2> DEFINE T == {i \in 1..n : f[i] # g[i]}
  <2> SUFFICES ASSUME T # {} PROVE FALSE
    BY Zenon
  <2>1. T \subseteq Nat
    OBVIOUS
  <2>2. PICK i \in T : \A y \in T : i <= y
    <3> HIDE DEF T
    <3>. QED
      BY <2>1, LeastNumber, Zenon
  <2>3. i \in 1..n /\ f[i] # g[i]
    BY <2>2, Zenon
  <2>4. CASE Starts(rows, i)
    BY <1>2, <1>5, <2>3, <2>4, Zenon DEF Counted
  <2>5. CASE ~Starts(rows, i)
    <3>1. i # 1 /\ f[i] = f[i - 1] + 1 /\ g[i] = g[i - 1] + 1
      BY <1>2, <1>5, <2>3, <2>5, Zenon DEF Counted, Starts
    <3>2. i - 1 \in 1..n /\ ~(i <= i - 1)
      BY <2>3, <3>1
    <3>3. f[i - 1] = g[i - 1]
      BY <2>2, <3>2, Zenon
    <3>. QED
      BY <2>3, <3>1, <3>3, Zenon
  <2>. QED
    BY <2>4, <2>5
<1>7. f \in [1..n -> Nat]
  BY <1>2, <1>5, <1>6, Zenon
<1>. QED
  BY <1>0, <1>1, <1>5, <1>7, Zenon DEF Numbering

(* Rounds in ascending order. *)
LEMMA RoundsAscend ==
    ASSUME NEW n \in Nat, NEW rows, \A i \in 1..n : rows[i].round \in Nat,
           \A i \in 1..n - 1 : rows[i].round <= rows[i + 1].round
    PROVE  \A i, j \in 1..n : i <= j => rows[i].round <= rows[j].round
<1> SUFFICES ASSUME NEW i \in 1..n, NEW k \in 1..n, i <= k, ~(rows[i].round <= rows[k].round)
             PROVE  FALSE
  BY Zenon
<1> DEFINE T == {j \in 1..n : i <= j /\ ~(rows[i].round <= rows[j].round)}
<1>1. T \subseteq Nat
  OBVIOUS
<1>2. T # {}
  <2>1. k \in T
    BY Zenon
  <2>. QED
    BY <2>1, Zenon
<1>3. PICK j \in T : \A y \in T : j <= y
  <2> HIDE DEF T
  <2>. QED
    BY <1>1, <1>2, LeastNumber, Zenon
<1>4. j \in 1..n /\ i <= j /\ ~(rows[i].round <= rows[j].round)
  BY <1>3, Zenon
<1>5. j # i
  BY <1>4
<1>6. j - 1 \in 1..n /\ j - 1 \in 1..n - 1 /\ i <= j - 1 /\ ~(j <= j - 1) /\ (j - 1) + 1 = j
  BY <1>4, <1>5
<1>7. rows[i].round <= rows[j - 1].round
  BY <1>3, <1>6, Zenon
<1>8. rows[j - 1].round <= rows[j].round
  BY <1>6
<1>. QED
  BY <1>4, <1>6, <1>7, <1>8

(* A row with index v ends a run of v + 1 rows of its round, numbered from *)
(* 0.                                                                      *)
Run(rows, f, i) ==
    /\ f[i] < i /\ Starts(rows, i - f[i])
    /\ \A u \in 0..f[i] : /\ rows[i - f[i] + u].round = rows[i].round
                          /\ f[i - f[i] + u] = u

LEMMA RowsOfRun ==
    ASSUME NEW n \in Nat, NEW rows, NEW f \in [1..n -> Nat], \A i \in 1..n : Counted(rows, f, i)
    PROVE  \A i \in 1..n : Run(rows, f, i)
<1> DEFINE T == {i \in 1..n : ~Run(rows, f, i)}
<1> SUFFICES ASSUME T # {} PROVE FALSE
  BY Zenon
<1>1. T \subseteq Nat
  OBVIOUS
<1>2. PICK i \in T : \A y \in T : i <= y
  <2> HIDE DEF T
  <2>. QED
    BY <1>1, LeastNumber, Zenon
<1>3. i \in 1..n /\ ~Run(rows, f, i)
  BY <1>2, Zenon
<1>4. f[i] \in Nat /\ i \in Nat /\ i >= 1
  BY <1>3
<1>5. CASE Starts(rows, i)
  <2>1. f[i] = 0
    BY <1>3, <1>5, Zenon DEF Counted
  <2>2. i - 0 = i /\ i + 0 = i /\ 0..0 = {0} /\ 0 < i
    BY <1>4
  <2>. QED
    BY <1>3, <1>5, <2>1, <2>2, Zenon DEF Run
<1>6. CASE ~Starts(rows, i)
  <2>1. i # 1 /\ f[i] = f[i - 1] + 1 /\ rows[i].round = rows[i - 1].round
    BY <1>3, <1>6, Zenon DEF Counted, Starts
  <2>2. i - 1 \in 1..n /\ ~(i <= i - 1)
    BY <1>3, <2>1
  <2>3. Run(rows, f, i - 1)
    BY <1>2, <2>2, Zenon
  <2> DEFINE k == f[i - 1]
  <2>4. k \in Nat /\ f[i] = k + 1
    BY <2>1, <2>2
  <2>5. /\ k < i - 1 /\ Starts(rows, (i - 1) - k)
        /\ \A u \in 0..k : /\ rows[(i - 1) - k + u].round = rows[i].round
                           /\ f[(i - 1) - k + u] = u
    BY <2>1, <2>3, Zenon DEF Run
  <2> HIDE DEF k
  <2>6. i - (k + 1) = (i - 1) - k /\ k + 1 < i /\ (i - 1) - k + (k + 1) = i
    BY <1>4, <2>4, <2>5
  <2>7. \A u \in 0..k + 1 : u \in 0..k \/ u = k + 1
    BY <2>4
  <2>8. \A u \in 0..k + 1 : /\ rows[(i - 1) - k + u].round = rows[i].round
                            /\ f[(i - 1) - k + u] = u
    BY <2>4, <2>5, <2>6, <2>7, Zenon
  <2>9. Run(rows, f, i)
    BY <2>4, <2>5, <2>6, <2>8, Zenon DEF Run
  <2>. QED
    BY <1>3, <2>9
<1>. QED
  BY <1>5, <1>6

(* In rows ordered by round, no two rows of a round have the same index. *)
LEMMA IndexesDiffer ==
    ASSUME NEW n \in Nat, NEW rows, NEW f \in [1..n -> Nat], \A i \in 1..n : Counted(rows, f, i),
           \A i \in 1..n : rows[i].round \in Nat,
           \A i, j \in 1..n : i <= j => rows[i].round <= rows[j].round
    PROVE  \A i, j \in 1..n : rows[i].round = rows[j].round /\ f[i] = f[j] => i = j
<1>1. ASSUME NEW i \in 1..n, NEW j \in 1..n, i < j, rows[i].round = rows[j].round
      PROVE  f[i] # f[j]
  <2> DEFINE v == f[j]
             s == j - v
  <2>1. Run(rows, f, j)
    BY RowsOfRun, Zenon
  <2>2. v \in Nat /\ i \in Nat /\ j \in Nat /\ i >= 1 /\ j <= n
    OBVIOUS
  <2>3. /\ v < j /\ Starts(rows, s)
        /\ \A u \in 0..v : rows[s + u].round = rows[j].round /\ f[s + u] = u
    BY <2>1, Zenon DEF Run
  <2> HIDE DEF v
  <2>4. s <= i
    <3> SUFFICES ASSUME ~(s <= i) PROVE FALSE
      OBVIOUS
    <3>1. s # 1 /\ s - 1 \in 1..n /\ i <= s - 1 /\ s - 1 <= j /\ 0 \in 0..v /\ s + 0 = s
      BY <2>2, <2>3
    <3>2. rows[s].round = rows[j].round /\ rows[s].round # rows[s - 1].round
      BY <2>3, <3>1, Zenon DEF Starts
    <3>3. rows[i].round <= rows[s - 1].round /\ rows[s - 1].round <= rows[j].round
      BY <3>1, Zenon
    <3>4. rows[i].round \in Nat /\ rows[s - 1].round \in Nat
      BY <3>1, Zenon
    <3> HIDE DEF s
    <3>. QED
      BY <1>1, <3>2, <3>3, <3>4, SMTT(30)
  <2>5. i - s \in 0..v /\ s + (i - s) = i /\ i - s # v
    BY <1>1, <2>2, <2>3, <2>4
  <2>6. f[i] = i - s
    BY <2>3, <2>5, Zenon
  <2>. QED
    BY <2>5, <2>6, Zenon DEF v
<1>2. ASSUME NEW i \in 1..n, NEW j \in 1..n, rows[i].round = rows[j].round, f[i] = f[j]
      PROVE  i = j
  <2>1. ~(i < j) /\ ~(j < i)
    BY <1>1, <1>2, Zenon
  <2>. QED
    BY <2>1
<1>. QED
  BY <1>2, Zenon

(* A set of numbers without a hole. *)
LEMMA WithoutHole ==
    ASSUME NEW I, NEW n \in Nat, I \subseteq 0..n - 1,
           \A v \in I : \A u \in 0..v : u \in I
    PROVE  I = 0..Cardinality(I) - 1
<1> DEFINE T == {m \in Nat : m \notin I}
<1>1. T \subseteq Nat /\ n \in T
  OBVIOUS
<1>2. PICK m \in T : \A y \in T : m <= y
  <2>1. T # {}
    BY <1>1, Zenon
  <2> HIDE DEF T
  <2>. QED
    BY <1>1, <2>1, LeastNumber, Zenon
<1>3. m \in Nat /\ m \notin I
  BY <1>2, Zenon
<1>4. \A u \in 0..m - 1 : u \in Nat /\ ~(m <= u)
  BY <1>3
<1>5. \A u \in 0..m - 1 : u \in I
  BY <1>2, <1>4, Zenon
<1>6. \A v \in I : v \in Nat /\ (v >= m => m \in 0..v)
  BY <1>3
<1>7. \A v \in I : v \in Nat /\ ~(v >= m)
  BY <1>3, <1>6, Zenon
<1>8. \A v \in I : v \in 0..m - 1
  BY <1>3, <1>7
<1>9. I = 0..m - 1
  BY <1>5, <1>8, Zenon
<1>10. Cardinality(0..m - 1) = m
  <2>1. 0 \in Int /\ m - 1 \in Int /\ (IF 0 > m - 1 THEN 0 ELSE m - 1 - 0 + 1) = m
    BY <1>3
  <2>2. Cardinality(0..m - 1) = IF 0 > m - 1 THEN 0 ELSE m - 1 - 0 + 1
    BY <2>1, FS_Interval, Zenon
  <2>. QED
    BY <2>1, <2>2, Zenon
<1>. QED
  BY <1>9, <1>10, Zenon

-----------------------------------------------------------------------------
(* A batch: the rows that replace a set of rows.                           *)

IsRow(l) ==
    /\ l.round \in Nat /\ l.index \in Nat
    /\ l = [round |-> l.round, tx |-> l.tx, index |-> l.index, data |-> l.data]

(* The indexes of each round in a set of rows are 0, 1, ... *)
Numbered(rows, r) ==
    LET mine == {l \in rows : l.round = r}
    IN  {l.index : l \in mine} = 0..Cardinality(mine) - 1

IndexesUnique(rows) == \A l, m \in rows : l.round = m.round /\ l.index = m.index => l = m

(* Every row of one set is in the other, but for the index. *)
KeptIn(old, new) == \A l \in old : \E m \in new : m = [l EXCEPT !.index = m.index]

NoneNew(old, new) == \A m \in new : IsRow(m) /\ \E l \in old : l.round = m.round /\ l.tx = m.tx

LEMMA RowWithIndex ==
    ASSUME NEW l, IsRow(l), NEW k \in Nat, NEW m, m = [l EXCEPT !.index = k]
    PROVE  IsRow(m) /\ m.round = l.round /\ m.tx = l.tx /\ m.index = k /\ m.data = l.data
<1>1. l = [round |-> l.round, tx |-> l.tx, index |-> l.index, data |-> l.data] /\ l.round \in Nat
  BY Zenon DEF IsRow
<1>2. m = [round |-> l.round, tx |-> l.tx, index |-> k, data |-> l.data]
  BY <1>1
<1>3. m.round = l.round /\ m.tx = l.tx /\ m.index = k /\ m.data = l.data
  BY <1>2
<1>. QED
  BY <1>1, <1>2, <1>3, Zenon DEF IsRow

LEMMA NumberedRound ==
    ASSUME NEW rows, NEW n \in Nat, NEW r, IndexesUnique(rows),
           \A l \in rows : l.index \in 0..n - 1,
           \A l \in rows : \A u \in 0..l.index : \E m \in rows : m.round = l.round /\ m.index = u
    PROVE  Numbered(rows, r)
<1> DEFINE mine == {l \in rows : l.round = r}
           I == {l.index : l \in mine}
           f == [l \in mine |-> l.index]
<1>1. I \subseteq 0..n - 1
  BY Zenon
<1>2. ASSUME NEW v \in I, NEW u \in 0..v PROVE u \in I
  <2>1. PICK l \in rows : l.round = r /\ l.index = v
    BY <1>2, Zenon
  <2>2. PICK m \in rows : m.round = r /\ m.index = u
    BY <1>2, <2>1, Zenon
  <2>. QED
    BY <2>2, Zenon
<1>3. IsFiniteSet(I)
  <2>1. 0 \in Int /\ n - 1 \in Int
    OBVIOUS
  <2>2. IsFiniteSet(0..n - 1) /\ I \in SUBSET (0..n - 1)
    BY <1>1, <2>1, FS_Interval, Zenon
  <2> HIDE DEF I
  <2>. QED
    BY <2>2, FS_Subset, Zenon
<1>4. f \in Injection(mine, I) /\ f \in Surjection(mine, I)
  <2>1. f \in [mine -> I]
    BY Zenon
  <2>2. \A a, b \in mine : f[a] = f[b] => a = b
    BY ZenonT(30) DEF IndexesUnique
  <2>3. \A t \in I : \E a \in mine : f[a] = t
    BY Zenon
  <2>4. DOMAIN f = mine
    BY Zenon
  <2> HIDE DEF f, I, mine
  <2>. QED
    BY <2>1, <2>2, <2>3, <2>4, Zenon DEF Injection, Surjection, IsInjective
<1>5. I = 0..Cardinality(I) - 1
  <2> HIDE DEF I
  <2>. QED
    BY <1>1, <1>2, WithoutHole, Zenon
<1>6. Cardinality(mine) = Cardinality(I)
  <2> HIDE DEF f, I, mine
  <2>. QED
    BY <1>3, <1>4, FS_Injection, Zenon
<1>. QED
  BY <1>5, <1>6, Zenon DEF Numbered

(* The rows of a batch, in any order that ascends by round, and what       *)
(* Renumber makes of them.                                                 *)
LEMMA BatchRows ==
    ASSUME NEW S, IsFiniteSet(S), \A l \in S : IsRow(l), NEW rows \in SetToSeqs(S),
           \A i \in 1..Len(rows) - 1 : rows[i].round <= rows[i + 1].round,
           NEW N, N = Range(Renumber(rows))
    PROVE  /\ IsFiniteSet(N) /\ Cardinality(N) = Cardinality(S)
           /\ KeptIn(S, N) /\ NoneNew(S, N) /\ IndexesUnique(N)
           /\ \A r : Numbered(N, r)
<1> DEFINE n == Cardinality(S)
<1>1. n \in Nat
  BY FS_CardinalityType, Zenon
<1>2. rows \in [1..n -> S] /\ \A i, j \in 1..n : i # j => rows[i] # rows[j]
  BY Zenon DEF SetToSeqs
<1>3. DOMAIN rows = 1..n /\ Len(rows) = n
  <2> HIDE DEF n
  <2>. QED
    BY <1>1, <1>2
<1>4. IsFiniteSet(1..n) /\ Cardinality(1..n) = n
  <2>1. 1 \in Int /\ n \in Int /\ (IF 1 > n THEN 0 ELSE n - 1 + 1) = n
    <3> HIDE DEF n
    <3>. QED
      BY <1>1
  <2>2. IsFiniteSet(1..n) /\ Cardinality(1..n) = IF 1 > n THEN 0 ELSE n - 1 + 1
    BY <2>1, FS_Interval, Zenon
  <2> HIDE DEF n
  <2>. QED
    BY <1>1, <2>2
<1>5. \A l \in S : \E i \in 1..n : rows[i] = l
  <2>1. rows \in Injection(1..n, S)
    BY <1>2, <1>3, Zenon DEF Injection, IsInjective
  <2>2. rows \in Surjection(1..n, S)
    BY <1>4, <2>1, FS_Injection, Zenon
  <2>. QED
    BY <2>2, Zenon DEF Surjection
<1> HIDE DEF n
<1>6. \A i \in 1..n : rows[i] \in S /\ IsRow(rows[i]) /\ rows[i].round \in Nat
  BY <1>2, Zenon DEF IsRow
<1>7. \A i, j \in 1..n : i <= j => rows[i].round <= rows[j].round
  <2>1. \A i \in 1..n - 1 : rows[i].round <= rows[i + 1].round
    BY <1>3, Zenon
  <2>. QED
    BY <1>1, <1>6, <2>1, RoundsAscend, Zenon
<1>7a. PICK f \in [1..n -> Nat] : Numbering(rows, n, f)
  BY <1>1, <1>2, RenumberCounts, Zenon
<1>8. /\ \A i \in 1..n : Counted(rows, f, i)
      /\ Renumber(rows) = [i \in 1..n |-> [rows[i] EXCEPT !.index = f[i]]]
  BY <1>7a, Zenon DEF Numbering
<1> DEFINE new == Renumber(rows)
<1>9. /\ DOMAIN new = 1..n
      /\ \A i \in 1..n : new[i] = [rows[i] EXCEPT !.index = f[i]]
  BY <1>8, Zenon
<1>10. \A i \in 1..n : /\ IsRow(new[i]) /\ new[i].index = f[i]
                       /\ new[i].round = rows[i].round /\ new[i].tx = rows[i].tx
  <2> SUFFICES ASSUME NEW i \in 1..n
               PROVE  /\ IsRow(new[i]) /\ new[i].index = f[i]
                      /\ new[i].round = rows[i].round /\ new[i].tx = rows[i].tx
    BY Zenon
  <2>1. f[i] \in Nat /\ IsRow(rows[i]) /\ new[i] = [rows[i] EXCEPT !.index = f[i]]
    BY <1>6, <1>8, <1>9, Zenon
  <2> HIDE DEF new
  <2>. QED
    BY <2>1, RowWithIndex
<1>11. N = {new[i] : i \in 1..n}
  BY <1>9, Zenon DEF Range
<1> HIDE DEF new
<1>12. \A i, j \in 1..n : new[i].round = new[j].round /\ new[i].index = new[j].index => i = j
  <2>1. \A i, j \in 1..n : rows[i].round = rows[j].round /\ f[i] = f[j] => i = j
    BY <1>1, <1>6, <1>7, <1>8, IndexesDiffer, Zenon
  <2>2. ASSUME NEW i \in 1..n, NEW j \in 1..n,
               new[i].round = new[j].round, new[i].index = new[j].index
        PROVE  i = j
    <3>1. rows[i].round = rows[j].round /\ f[i] = f[j]
      BY <1>10, <2>2
    <3>. QED
      BY <2>1, <3>1, Zenon
  <2>. QED
    BY <2>2, Zenon
<1>13. IndexesUnique(N)
  BY <1>11, <1>12, Zenon DEF IndexesUnique
<1>14. IsFiniteSet(N) /\ Cardinality(N) = n
  <2> DEFINE g == [i \in 1..n |-> new[i]]
  <2>1. g \in [1..n -> N] /\ DOMAIN g = 1..n /\ \A i \in 1..n : g[i] = new[i]
    BY <1>11, Zenon
  <2>2. \A i, j \in 1..n : g[i] = g[j] => i = j
    BY <1>12, <2>1, Zenon
  <2>3. \A t \in N : \E i \in 1..n : g[i] = t
    BY <1>11, <2>1, Zenon
  <2> HIDE DEF g
  <2>4. g \in Bijection(1..n, N)
    BY <2>1, <2>2, <2>3, Zenon DEF Bijection, Injection, Surjection, IsInjective
  <2>5. ExistsBijection(1..n, N)
    BY <2>4, Zenon DEF ExistsBijection
  <2>. QED
    BY <1>4, <2>5, FS_Bijection, Zenon
<1>15. KeptIn(S, N)
  <2> SUFFICES ASSUME NEW l \in S PROVE \E m \in N : m = [l EXCEPT !.index = m.index]
    BY Zenon DEF KeptIn
  <2>1. PICK i \in 1..n : rows[i] = l
    BY <1>5, Zenon
  <2>2. new[i] \in N /\ new[i] = [l EXCEPT !.index = f[i]] /\ new[i].index = f[i]
    BY <1>9, <1>10, <1>11, <2>1, Zenon DEF new
  <2>. QED
    BY <2>2, Zenon
<1>16. NoneNew(S, N)
  BY <1>6, <1>10, <1>11, Zenon DEF NoneNew
<1>17. ASSUME NEW i \in 1..n
       PROVE  /\ new[i].index \in 0..n - 1
              /\ \A u \in 0..new[i].index : \E m \in N : m.round = new[i].round /\ m.index = u
  <2>1. Run(rows, f, i) /\ f[i] \in Nat /\ new[i].index = f[i]
    BY <1>1, <1>8, <1>10, RowsOfRun, Zenon
  <2>2. f[i] \in 0..n - 1 /\ f[i] < i
    BY <1>1, <2>1 DEF Run
  <2>3. ASSUME NEW u \in 0..f[i] PROVE \E m \in N : m.round = new[i].round /\ m.index = u
    <3>1. i - f[i] + u \in 1..n
      BY <1>1, <2>1, <2>2
    <3>2. rows[i - f[i] + u].round = rows[i].round /\ f[i - f[i] + u] = u
      BY <2>1, Zenon DEF Run
    <3>. QED
      BY <1>10, <1>11, <3>1, <3>2, Zenon
  <2>. QED
    BY <2>1, <2>2, <2>3, Zenon
<1>18. /\ \A l \in N : l.index \in 0..n - 1
       /\ \A l \in N : \A u \in 0..l.index : \E m \in N : m.round = l.round /\ m.index = u
  <2>1. \A l \in N : \E i \in 1..n : l = new[i]
    BY <1>11, Zenon
  <2>2. ASSUME NEW l \in N
        PROVE  /\ l.index \in 0..n - 1
               /\ \A u \in 0..l.index : \E m \in N : m.round = l.round /\ m.index = u
    <3>1. PICK i \in 1..n : l = new[i]
      BY <2>1, Zenon
    <3>. QED
      BY <1>17, <3>1
  <2>. QED
    BY <2>2, Zenon
<1>19. \A r : Numbered(N, r)
  BY <1>1, <1>13, <1>18, NumberedRound, ZenonT(40)
<1>. QED
  BY <1>13, <1>14, <1>15, <1>16, <1>19, Zenon DEF n

-----------------------------------------------------------------------------
(* The loop of LogsUp.                                                     *)

IsTable(rows) ==
    /\ IsFiniteSet(rows) /\ KeysDiffer(rows)
    /\ \A l \in rows : IsRow(l)
    /\ \A l, m \in rows : l.tx = m.tx => l.round = m.round

(* The inductive invariant: the rounds that the loop has passed are        *)
(* numbered, and no row has been lost or added.                            *)
LogsInv ==
    /\ IsTable(logs) /\ IsTable(logsBefore)
    /\ logTips.lastRetained \in Nat /\ logTips.continues \in Nat
    /\ upRound \in Nat /\ upRound >= logTips.lastRetained
    /\ upPc = "done" => upRound > logTips.continues
    /\ Cardinality(logs) = Cardinality(logsBefore) /\ KeptIn(logsBefore, logs)
    /\ \A r \in logTips.lastRetained..logTips.continues : r < upRound => Numbered(logs, r)

LEMMA KeptInItself == ASSUME NEW rows, \A l \in rows : IsRow(l) PROVE KeptIn(rows, rows)
<1>1. ASSUME NEW l \in rows PROVE l = [l EXCEPT !.index = l.index]
  <2>1. l = [round |-> l.round, tx |-> l.tx, index |-> l.index, data |-> l.data]
    BY Zenon DEF IsRow
  <2>. QED
    BY <2>1
<1>. QED
  BY <1>1, Zenon DEF KeptIn

LEMMA LogsInitInv == ASSUME LogsInit PROVE LogsInv
<1>1. /\ logs \in LogTables /\ logsBefore = logs /\ logTips \in LogTips
      /\ upPc = "loop" /\ upRound = logTips.lastRetained
  BY Zenon DEF LogsInit
<1>2. IsTable(logs)
  BY <1>1, TablesAssumption, Zenon DEF IsTable, IsRow
<1>3. logTips.lastRetained \in Nat /\ logTips.continues \in Nat
  BY <1>1, LogsAssumption
<1>4. upRound \in Nat /\ upRound >= logTips.lastRetained
      /\ \A r \in logTips.lastRetained..logTips.continues : ~(r < upRound)
  BY <1>1, <1>3
<1>5. KeptIn(logs, logs)
  BY <1>2, KeptInItself, Zenon DEF IsTable
<1>. QED
  BY <1>1, <1>2, <1>3, <1>4, <1>5, Zenon DEF LogsInv

LEMMA FailsStep == ASSUME LogsInv, MigrationFails PROVE LogsInv'
<1>1. /\ logs' = logsBefore /\ upRound' = logTips.lastRetained
      /\ UNCHANGED <<logsBefore, logTips, upPc>> /\ upPc = "loop"
  BY Zenon DEF MigrationFails
<1>2. KeptIn(logsBefore, logsBefore)
  BY KeptInItself, Zenon DEF LogsInv, IsTable
<1>3. logTips.lastRetained \in Nat /\ logTips.continues \in Nat
  BY Zenon DEF LogsInv
<1>4. upRound' \in Nat /\ upRound' >= logTips.lastRetained
      /\ \A r \in logTips.lastRetained..logTips.continues : ~(r < upRound')
  BY <1>1, <1>3
<1>5. upPc' # "done"
  BY <1>1
<1>. QED
  BY <1>1, <1>2, <1>3, <1>4, <1>5, Zenon DEF LogsInv

LEMMA MigratedStep == ASSUME LogsInv, LogsMigrated PROVE LogsInv'
<1>1. UNCHANGED <<logs, logsBefore, logTips, upRound>> /\ upRound > logTips.continues
  BY Zenon DEF LogsMigrated
<1>. QED
  BY <1>1, Zenon DEF LogsInv

LEMMA BatchStep == ASSUME LogsInv, MigrateBatch PROVE LogsInv'
<1> DEFINE last == IF upRound + LogsBatchSize - 1 <= logTips.continues
                   THEN upRound + LogsBatchSize - 1 ELSE logTips.continues
           S == {l \in logs : l.round \in upRound..last}
           kept == {l \in logs : l.round \notin upRound..last}
<1>1. PICK rows \in GetLogs(upRound, last) : logs' = kept \cup Range(Renumber(rows))
  BY Zenon DEF MigrateBatch
<1>2. /\ upPc = "loop" /\ upRound <= logTips.continues /\ upRound' = upRound + LogsBatchSize
      /\ UNCHANGED <<logsBefore, logTips, upPc>>
  BY Zenon DEF MigrateBatch
<1>3. /\ upRound \in Nat /\ logTips.continues \in Nat /\ LogsBatchSize \in Nat \ {0}
      /\ logTips.lastRetained \in Nat /\ upRound >= logTips.lastRetained
  BY LogsAssumption, Zenon DEF LogsInv
<1>4. /\ upRound' \in Nat /\ upRound' >= logTips.lastRetained
      /\ \A r \in logTips.lastRetained..logTips.continues :
             r < upRound' => r \in upRound..last \/ (r < upRound /\ r \notin upRound..last)
  BY <1>2, <1>3
<1> HIDE DEF last
<1>5. IsFiniteSet(logs) /\ \A l \in logs : IsRow(l)
  BY Zenon DEF LogsInv, IsTable
<1>6. /\ kept \cup S = logs /\ kept \cap S = {}
      /\ S \in SUBSET logs /\ kept \in SUBSET logs
  BY Zenon
<1>7. /\ rows \in SetToSeqs(S)
      /\ \A i \in 1..Len(rows) - 1 : rows[i].round <= rows[i + 1].round
  BY Zenon DEF GetLogs
<1> DEFINE N == Range(Renumber(rows))
<1>8. \A l \in S : IsRow(l) /\ l.round \in upRound..last /\ l \in logs
  BY <1>5, Zenon
<1>9. \A l \in kept : IsRow(l) /\ l.round \notin upRound..last /\ l \in logs
  BY <1>5, Zenon
<1>10. \A l \in logs : l.round \notin upRound..last => l \in kept
  BY Zenon
<1>11. \A l \in logs : l \in kept \/ l \in S
  BY Zenon
<1> HIDE DEF S, kept
<1>12. IsFiniteSet(S) /\ IsFiniteSet(kept)
  BY <1>5, <1>6, FS_Subset, Zenon
<1>13. /\ IsFiniteSet(N) /\ Cardinality(N) = Cardinality(S)
       /\ KeptIn(S, N) /\ NoneNew(S, N) /\ IndexesUnique(N)
       /\ \A r : Numbered(N, r)
  BY <1>7, <1>8, <1>12, BatchRows, Zenon
<1>14. logs' = kept \cup N
  BY <1>1
<1> HIDE DEF N
<1>15. \A m \in N : IsRow(m) /\ m.round \in upRound..last
                   /\ \E l \in S : l.round = m.round /\ l.tx = m.tx
  BY <1>8, <1>13 DEF NoneNew
<1>16. kept \cap N = {}
  BY <1>9, <1>15, Zenon
<1>17. Cardinality(logs') = Cardinality(logs) /\ IsFiniteSet(logs')
  <2>1. Cardinality(logs) = Cardinality(kept) + Cardinality(S) - Cardinality(kept \cap S)
    BY <1>6, <1>12, FS_Union, Zenon
  <2>2. /\ Cardinality(logs') = Cardinality(kept) + Cardinality(N) - Cardinality(kept \cap N)
        /\ IsFiniteSet(logs')
    BY <1>12, <1>13, <1>14, FS_Union, Zenon
  <2>. QED
    BY <1>6, <1>13, <1>16, <2>1, <2>2, Zenon
<1>18. \A l \in logs' : IsRow(l) /\ \E k \in logs : k.round = l.round /\ k.tx = l.tx
  BY <1>8, <1>9, <1>14, <1>15, Zenon
<1>19. \A l, m \in logs' : l.tx = m.tx => l.round = m.round
  <2> SUFFICES ASSUME NEW l \in logs', NEW m \in logs', l.tx = m.tx PROVE l.round = m.round
    BY Zenon
  <2>1. PICK k \in logs : k.round = l.round /\ k.tx = l.tx
    BY <1>18, Zenon
  <2>2. PICK j \in logs : j.round = m.round /\ j.tx = m.tx
    BY <1>18, Zenon
  <2>3. k.tx = j.tx
    BY <2>1, <2>2, Zenon
  <2>4. k.round = j.round
    BY <2>3, Zenon DEF LogsInv, IsTable
  <2>. QED
    BY <2>1, <2>2, <2>4, Zenon
<1>20. KeysDiffer(logs')
  <2> SUFFICES ASSUME NEW l \in logs', NEW m \in logs', l.tx = m.tx, l.index = m.index
               PROVE  l = m
    BY Zenon DEF KeysDiffer
  <2>1. l.round = m.round
    BY <1>19, Zenon
  <2>2. CASE l \in N /\ m \in N
    BY <1>13, <2>1, <2>2, Zenon DEF IndexesUnique
  <2>3. CASE l \in kept /\ m \in kept
    BY <1>9, <2>3, Zenon DEF LogsInv, IsTable, KeysDiffer
  <2>. QED
    BY <1>9, <1>14, <1>15, <2>1, <2>2, <2>3, Zenon
<1>21. KeptIn(logsBefore, logs')
  <2> SUFFICES ASSUME NEW l \in logsBefore
               PROVE  \E m \in logs' : m = [l EXCEPT !.index = m.index]
    BY Zenon DEF KeptIn
  <2>1. PICK k \in logs : k = [l EXCEPT !.index = k.index]
    BY Zenon DEF LogsInv, KeptIn
  <2>2. CASE k \in kept
    BY <1>14, <2>1, <2>2, Zenon
  <2>3. CASE k \in S
    <3>1. PICK m \in N : m = [k EXCEPT !.index = m.index]
      BY <1>13, <2>3, Zenon DEF KeptIn
    <3>2. IsRow(l)
      BY Zenon DEF LogsInv, IsTable
    <3>3. m = [l EXCEPT !.index = m.index]
      <4>1. l = [round |-> l.round, tx |-> l.tx, index |-> l.index, data |-> l.data]
        BY <3>2, Zenon DEF IsRow
      <4>2. k = [round |-> l.round, tx |-> l.tx, index |-> k.index, data |-> l.data]
        BY <2>1, <4>1
      <4>3. m = [round |-> l.round, tx |-> l.tx, index |-> m.index, data |-> l.data]
        BY <3>1, <4>2
      <4>. QED
        BY <4>1, <4>3
    <3>. QED
      BY <1>14, <3>3, Zenon
  <2>. QED
    BY <1>11, <2>2, <2>3, SMTT(30)
<1>22. ASSUME NEW r \in logTips.lastRetained..logTips.continues, r < upRound'
       PROVE  Numbered(logs', r)
  <2>1. CASE r \in upRound..last
    <3>1. {l \in logs' : l.round = r} = {l \in N : l.round = r}
      BY <1>9, <1>14, <2>1, Zenon
    <3>. QED
      BY <1>13, <3>1, Zenon DEF Numbered
  <2>2. CASE r < upRound /\ r \notin upRound..last
    <3>1. {l \in logs' : l.round = r} = {l \in logs : l.round = r}
      BY <1>9, <1>10, <1>14, <1>15, <2>2, Zenon
    <3>2. Numbered(logs, r)
      BY <2>2, Zenon DEF LogsInv
    <3>. QED
      BY <3>1, <3>2, Zenon DEF Numbered
  <2>. QED
    BY <1>4, <1>22, <2>1, <2>2, SMTT(30)
<1>23. upPc' # "done"
  BY <1>2
<1>24. IsTable(logs')
  BY <1>17, <1>18, <1>19, <1>20, Zenon DEF IsTable
<1>. QED
  BY <1>2, <1>4, <1>17, <1>21, <1>22, <1>23, <1>24, Zenon DEF LogsInv

LEMMA LogsInvariant == LogsSpec => []LogsInv
<1>1. LogsInit => LogsInv
  BY LogsInitInv
<1>2. LogsInv /\ [LogsUp]_logsVars => LogsInv'
  <2> SUFFICES ASSUME LogsInv, [LogsUp]_logsVars PROVE LogsInv'
    OBVIOUS
  <2>1. CASE LogsUp
    BY <2>1, BatchStep, FailsStep, MigratedStep, Zenon DEF LogsUp
  <2>2. CASE UNCHANGED logsVars
    BY <2>2, Zenon DEF logsVars, LogsInv
  <2>. QED
    BY <2>1, <2>2
<1>. QED
  BY <1>1, <1>2, PTL DEF LogsSpec

(* The migration of the log indexes (LogsUp, 20220109122505_logs.up.go),   *)
(* for every log table, batch size, order in which the database returns    *)
(* the rows of a round, failure and restart: the logs of every retained    *)
(* round end up with the indexes 0, 1, ..., none is lost or added, and no  *)
(* insertion meets a primary key that is in the table.                     *)
THEOREM LogsMigrate == LogsSpec => []LogsRenumbered
<1>1. LogsInv => LogsRenumbered
  <2> SUFFICES ASSUME LogsInv PROVE LogsRenumbered
    OBVIOUS
  <2>1. KeysDiffer(logs)
    BY Zenon DEF LogsInv, IsTable
  <2>2. ASSUME upPc = "done", NEW r \in logTips.lastRetained..logTips.continues
        PROVE  Numbered(logs, r)
    <3>1. r < upRound
      BY <2>2 DEF LogsInv
    <3>. QED
      BY <3>1, Zenon DEF LogsInv
  <2>. QED
    BY <2>1, <2>2, Zenon DEF LogsRenumbered, LogsInv, Numbered, KeptIn
<1>. QED
  BY <1>1, LogsInvariant, PTL
=============================================================================
