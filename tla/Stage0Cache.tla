----------------------------- MODULE Stage0Cache -----------------------------
(***************************************************************************)
(* The cache of self-host stage 0 binaries, crates/drat/src/commands/      *)
(* selfhost_stage0.rs: processes that run `drat selfhost-stage0` with the  *)
(* same command and the same sources share one build directory, and a lock *)
(* directory beside it that holds the pid of its owner.                    *)
(*                                                                         *)
(* Each call into the file system is a step, and fs::write and             *)
(* remove_dir_all are two: the file is created, or truncated, before it is *)
(* written, and what is in a directory goes before the directory.  A       *)
(* process may be killed at any of them, and leaves the lock and the files *)
(* as they are.  The steps that write sources and configuration are one;   *)
(* the linker's output is two, its beginning and its end, because the file *)
(* exists in between.                                                      *)
(***************************************************************************)
EXTENDS Naturals, FiniteSets

CONSTANTS
  Procs,       \* the processes
  MaxCrashes,  \* a bound on the processes that are killed
  ProcFs,      \* /proc lists the living processes; FALSE on a system without it
  None,        \* no process
  Blank        \* the pid in a file that is still empty

ASSUME ProcsAssumption == IsFiniteSet(Procs) /\ None \notin Procs /\ Blank \notin Procs \cup {None}
ASSUME ProcFsAssumption == ProcFs \in BOOLEAN
ASSUME CrashesAssumption == MaxCrashes \in Nat

VARIABLES
  lock,      \* the lock directory: None, or who made it, owner.pid (None when there
             \* is no such file), whether the directory is old
  opened,    \* who has the owner.pid that is in the directory open, to write to it
  binary,    \* the cached binary: see Binaries
  files,     \* whose sources are in the build directory, None when it is not there
  pc,        \* where each process is in build_stage0_binary: see Steps
  ran,       \* per process, the binary it has executed, "absent" before
  misreaped  \* history: somebody removed the lock of a living process

vars == <<lock, opened, binary, files, pc, ran, misreaped>>

\* "outdated": older than the drat executable;  "partial": the linker has begun
\* to write it and was not seen to finish.
Binaries == {"absent", "outdated", "partial", "complete"}

\* How a process ends: "used" (it has run the binary), "built" is on its way to
\* that; "failed" (an error of the file system), "unbuilt" (a compile error),
\* "timedout", "killed".
Ended == {"used", "failed", "unbuilt", "timedout", "killed"}
Critical == {"recheck", "reset", "copy", "compile", "link", "finish", "unlock", "abandon"}
Steps == Ended \cup Critical \cup
         {"exists", "mtime", "peek", "create", "own", "pid", "reap", "stat", "removeDead",
          "removeOrphan", "rmdir", "wait", "unlocked", "abandoned", "run"}

Locks == [maker : Procs, owner : Procs \cup {None, Blank}, old : BOOLEAN]
ASSUME LocksAssumption == None \notin Locks

Alive(p) == pc[p] \notin Ended

Go(p, step) == pc' = [pc EXCEPT ![p] = step]

\* The lock on disk belongs to a process that has made it and not dropped it.
Held == lock # None /\ pc[lock.maker] \in Critical \cup {"own", "pid"}

\* mtime of the binary not before mtime of the executable.
Fresh == binary \in {"partial", "complete"}

-----------------------------------------------------------------------------
Init ==
  /\ lock = None
  /\ opened = {}
  /\ \/ binary = "absent" /\ files = None
     \/ binary \in {"outdated", "complete"} /\ files \in Procs
  /\ pc = [p \in Procs |-> "exists"]
  /\ ran = [p \in Procs |-> "absent"]
  /\ misreaped = FALSE

-----------------------------------------------------------------------------
(* The first look, without the lock *)

CheckExists(p) ==
  /\ pc[p] = "exists"
  /\ Go(p, IF binary = "absent" THEN "create" ELSE "mtime")
  /\ UNCHANGED <<lock, opened, binary, files, ran, misreaped>>

CheckMtime(p) ==
  /\ pc[p] = "mtime"
  /\ Go(p, IF binary = "absent" THEN "failed" ELSE IF Fresh THEN "peek" ELSE "create")
  /\ UNCHANGED <<lock, opened, binary, files, ran, misreaped>>

\* Mutant of PeekLock: the lock is not looked at.
PeekNothing(p) ==
  /\ pc[p] = "peek"
  /\ Go(p, "run")
  /\ UNCHANGED <<lock, opened, binary, files, ran, misreaped>>

\* A binary beside a lock may be one that is being written.
PeekLock(p) ==
  /\ pc[p] = "peek"
  /\ Go(p, IF lock = None THEN "run" ELSE "create")
  /\ UNCHANGED <<lock, opened, binary, files, ran, misreaped>>

-----------------------------------------------------------------------------
(* acquire_stage0_cache_lock *)

\* Mutant of CreateDir: create_dir_all, which does not mind an existing one.
CreateDirAll(p) ==
  /\ pc[p] = "create"
  /\ lock' = IF lock = None THEN [maker |-> p, owner |-> None, old |-> FALSE] ELSE lock
  /\ Go(p, "own")
  /\ UNCHANGED <<opened, binary, files, ran, misreaped>>

CreateDir(p) ==
  /\ pc[p] = "create"
  /\ IF lock = None
       THEN /\ lock' = [maker |-> p, owner |-> None, old |-> FALSE]
            /\ Go(p, "own")
       ELSE Go(p, "reap") /\ UNCHANGED lock
  /\ UNCHANGED <<opened, binary, files, ran, misreaped>>

\* fs::write creates owner.pid, or truncates it, in the directory that has the
\* lock's name by now; a new file makes its directory a new one.
OpenOwner(p) ==
  /\ pc[p] = "own"
  /\ IF lock = None
       THEN Go(p, "failed") /\ UNCHANGED <<lock, opened>>
       ELSE /\ lock' = [lock EXCEPT !.owner = Blank, !.old = lock.old /\ lock.owner # None]
            /\ opened' = opened \cup {p}
            /\ Go(p, "pid")
  /\ UNCHANGED <<binary, files, ran, misreaped>>

\* The pid goes to the file that was opened, whether or not it is still there.
WriteOwner(p) ==
  /\ pc[p] = "pid"
  /\ lock' = IF p \in opened THEN [lock EXCEPT !.owner = p] ELSE lock
  /\ opened' = opened \ {p}
  /\ Go(p, "recheck")
  /\ UNCHANGED <<binary, files, ran, misreaped>>

\* process_is_alive looks for /proc/<pid>; of an empty owner.pid it looks for
\* /proc itself.  Elsewhere nobody is alive.
OwnerAlive == ProcFs /\ (lock.owner = Blank \/ Alive(lock.owner))

ReadOwner(p) ==
  /\ pc[p] = "reap"
  /\ Go(p, IF lock = None \/ lock.owner = None THEN "stat"
           ELSE IF OwnerAlive THEN "wait" ELSE "removeDead")
  /\ UNCHANGED <<lock, opened, binary, files, ran, misreaped>>

\* Mutant of StatLock: a lock without owner is left to its maker.
StatWaits(p) ==
  /\ pc[p] = "stat"
  /\ Go(p, IF lock = None THEN "failed" ELSE "wait")
  /\ UNCHANGED <<lock, opened, binary, files, ran, misreaped>>

\* There was no owner.pid to read: no lock any more is an error, a lock that is
\* more than five seconds old is an orphan.
StatLock(p) ==
  /\ pc[p] = "stat"
  /\ Go(p, IF lock = None THEN "failed" ELSE IF lock.old THEN "removeOrphan" ELSE "wait")
  /\ UNCHANGED <<lock, opened, binary, files, ran, misreaped>>

\* remove_dir_all opens whatever lock has the name by now and deletes its owner.pid.
DeleteOwner(p) ==
  /\ lock' = IF lock.owner = None THEN lock ELSE [lock EXCEPT !.owner = None, !.old = FALSE]
  /\ opened' = {}
  /\ misreaped' = (misreaped \/ (lock.owner # None /\ lock.maker # p /\ Held))

\* ... and removes the directory of that name by then, if it is empty.
Removable == lock # None /\ lock.owner = None

ReapOwner(p) ==
  /\ pc[p] \in {"removeDead", "removeOrphan"}
  /\ IF lock = None THEN Go(p, "failed") /\ UNCHANGED <<lock, opened, misreaped>>
                    ELSE Go(p, "rmdir") /\ DeleteOwner(p)
  /\ UNCHANGED <<binary, files, ran>>

ReapDirectory(p) ==
  /\ pc[p] = "rmdir"
  /\ IF Removable THEN lock' = None /\ misreaped' = (misreaped \/ Held) /\ Go(p, "create")
                  ELSE Go(p, "failed") /\ UNCHANGED <<lock, misreaped>>
  /\ UNCHANGED <<opened, binary, files, ran>>

\* After 50 milliseconds, the next try.
Retry(p) ==
  /\ pc[p] = "wait"
  /\ Go(p, "create")
  /\ UNCHANGED <<lock, opened, binary, files, ran, misreaped>>

\* After 600 seconds of tries that all found a lock, whose ever they were.
TimeOut(p) ==
  /\ pc[p] = "wait"
  /\ Go(p, "timedout")
  /\ UNCHANGED <<lock, opened, binary, files, ran, misreaped>>

\* Five seconds pass since the directory was made or owner.pid last came or went;
\* the age counts for those who read no owner, then or some time before.
Age ==
  /\ lock # None
  /\ ~lock.old
  /\ lock' = [lock EXCEPT !.old = TRUE]
  /\ UNCHANGED <<opened, binary, files, pc, ran, misreaped>>

-----------------------------------------------------------------------------
(* With the lock *)

\* Mutant of Recheck: the binary is not looked at again.
RecheckNothing(p) ==
  /\ pc[p] = "recheck"
  /\ Go(p, "reset")
  /\ UNCHANGED <<lock, opened, binary, files, ran, misreaped>>

Recheck(p) ==
  /\ pc[p] = "recheck"
  /\ Go(p, IF Fresh THEN "unlock" ELSE "reset")
  /\ UNCHANGED <<lock, opened, binary, files, ran, misreaped>>

ResetRoot(p) ==
  /\ pc[p] = "reset"
  /\ files' = None
  /\ binary' = "absent"
  /\ Go(p, "copy")
  /\ UNCHANGED <<lock, opened, ran, misreaped>>

CopyEntries(p) ==
  /\ pc[p] = "copy"
  /\ files' = p
  /\ Go(p, "compile")
  /\ UNCHANGED <<lock, opened, binary, ran, misreaped>>

\* The sources compile or do not; they do not when somebody took them away.
Compile(p) ==
  /\ pc[p] = "compile"
  /\ \/ files # None /\ Go(p, "link")
     \/ Go(p, "abandon")
  /\ UNCHANGED <<lock, opened, binary, files, ran, misreaped>>

LinkBegins(p) ==
  /\ pc[p] = "link"
  /\ IF files = None THEN Go(p, "abandon") /\ UNCHANGED binary
                     ELSE Go(p, "finish") /\ binary' = "partial"
  /\ UNCHANGED <<lock, opened, files, ran, misreaped>>

LinkEnds(p) ==
  /\ pc[p] = "finish"
  /\ IF binary = "absent" THEN Go(p, "abandon") /\ UNCHANGED binary
                          ELSE Go(p, "unlock") /\ binary' = "complete"
  /\ UNCHANGED <<lock, opened, files, ran, misreaped>>

\* Stage0CacheLock is dropped on every way out; errors are ignored, and so is
\* whose lock it is that has the name by now.
Unlock(p) ==
  /\ pc[p] \in {"unlock", "abandon"}
  /\ IF lock = None
       THEN /\ Go(p, IF pc[p] = "unlock" THEN "run" ELSE "unbuilt")
            /\ UNCHANGED <<lock, opened, misreaped>>
       ELSE /\ Go(p, IF pc[p] = "unlock" THEN "unlocked" ELSE "abandoned")
            /\ DeleteOwner(p)
  /\ UNCHANGED <<binary, files, ran>>

DropDirectory(p) ==
  /\ pc[p] \in {"unlocked", "abandoned"}
  /\ Go(p, IF pc[p] = "unlocked" THEN "run" ELSE "unbuilt")
  /\ IF Removable THEN lock' = None /\ misreaped' = (misreaped \/ Held)
                  ELSE UNCHANGED <<lock, misreaped>>
  /\ UNCHANGED <<opened, binary, files, ran>>

-----------------------------------------------------------------------------
\* The caller executes the binary.
Run(p) ==
  /\ pc[p] = "run"
  /\ ran' = [ran EXCEPT ![p] = binary]
  /\ Go(p, "used")
  /\ UNCHANGED <<lock, opened, binary, files, misreaped>>

Killed == {p \in Procs : pc[p] = "killed"}

Crash(p) ==
  /\ Alive(p)
  /\ Cardinality(Killed) < MaxCrashes
  /\ Go(p, "killed")
  /\ UNCHANGED <<lock, opened, binary, files, ran, misreaped>>

Look(p) == CheckExists(p) \/ CheckMtime(p) \/ PeekLock(p)
Acquire(p) == CreateDir(p) \/ OpenOwner(p) \/ WriteOwner(p) \/ ReadOwner(p) \/ StatLock(p)
              \/ ReapOwner(p) \/ ReapDirectory(p) \/ Retry(p)
Build(p) == Recheck(p) \/ ResetRoot(p) \/ CopyEntries(p) \/ Compile(p)
            \/ LinkBegins(p) \/ LinkEnds(p) \/ Unlock(p) \/ DropDirectory(p)
Step(p) == Look(p) \/ Acquire(p) \/ Build(p) \/ Run(p)

Next ==
  \/ \E p \in Procs : Step(p) \/ TimeOut(p) \/ Crash(p)
  \/ Age

\* Processes that are not killed are run, and time passes.  That 600 seconds
\* pass while a process waits is not assumed.
Fairness == (\A p \in Procs : WF_vars(Step(p))) /\ WF_vars(Age)

Spec == Init /\ [][Next]_vars /\ Fairness

-----------------------------------------------------------------------------
(* Properties *)

\* Type invariant.  No process ever runs a binary older than its drat.
TypeOK ==
  /\ lock \in Locks \cup {None}
  /\ opened \in SUBSET Procs
  /\ binary \in Binaries
  /\ files \in Procs \cup {None}
  /\ pc \in [Procs -> Steps]
  /\ ran \in [Procs -> Binaries \ {"outdated"}]
  /\ misreaped \in BOOLEAN

\* One process builds at a time, and a lock that is held is on disk, unless the
\* lock of a living process was taken for a dead one's.  (That does happen: a
\* process that has read a dead owner's pid removes, a moment later, the lock
\* another process has made in the meantime.)
Holders == {p \in Procs : pc[p] \in Critical}
OneBuilder ==
  ~misreaped =>
    /\ Cardinality(Holders) <= 1
    /\ \A p \in Holders : lock # None /\ lock.maker = p /\ lock.owner = p

\* What a process runs was completely written, unless a process was killed or
\* a living process lost its lock.  The linker's unfinished output passes for
\* fresh by its time; looking at the lock after the binary tells them apart.
RanComplete ==
  \A p \in Procs : pc[p] = "used" /\ ~misreaped /\ Killed = {} => ran[p] = "complete"

\* A fresh binary stays until it is used: processes that hold no lock run it
\* on the strength of one look, and nobody who has the lock takes it away.
FreshIsKept ==
  [][Fresh /\ binary' \notin {"partial", "complete"} => misreaped]_vars

\* Who was killed between the creation of owner.pid and the write of its pid has
\* left an empty one, which passes for that of a living process.
PidLost == lock # None /\ lock.owner = Blank /\ opened \cap Killed # {}

\* Nobody needs the 600 second timeout to come to an end, whoever is killed.  (The
\* code does not keep this.)
EveryProcessEndsAtOnce == \A p \in Procs : <>(pc[p] \in Ended)

\* Whoever is killed, and wherever else, every other process comes to an end
\* without the help of the 600 second timeout: dead owners are recognised by their
\* pid, and a lock that was left without one, before owner.pid was created or
\* after it was deleted, by its age.  Only where owner.pid was left empty does the
\* timeout have to end the others.
EveryProcessEnds == <>[]PidLost \/ EveryProcessEndsAtOnce

\* When nobody is killed, waiting for the lock ends with the lock or with the
\* timeout, never with an error.
Waiting(p) == pc[p] \in {"own", "pid", "reap", "stat", "removeDead", "removeOrphan", "rmdir",
                          "wait"}
NoErrorWhileWaiting ==
  [][Killed = {} /\ ~misreaped =>
       \A p \in Procs : Waiting(p) => pc'[p] # "failed"]_vars
=============================================================================
