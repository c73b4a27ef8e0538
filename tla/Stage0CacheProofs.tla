-------------------------- MODULE Stage0CacheProofs --------------------------
(***************************************************************************)
(* Proofs about Stage0Cache, for any number of processes, any of which may *)
(* be killed.  While no living process has lost its lock, whoever made the *)
(* lock directory and has not dropped it is its maker on disk (LockIsMine), *)
(* so two are the same, and what each step of the build finds on disk is   *)
(* what its own steps before left there (BinaryFits).  While nobody was    *)
(* killed either, an unfinished binary has a process that is finishing it  *)
(* (PartialIsAttended).                                                    *)
(***************************************************************************)
EXTENDS Stage0Cache, FiniteSetTheorems, TLAPS

\* The lock directory a process has made carries its name; the owner.pid in it is
\* the one it has opened, and, from the write on, holds its pid.
Owning == Critical \cup {"own", "pid"}
LockIsMine ==
  ~misreaped =>
    \A p \in Procs :
      /\ pc[p] \in Owning => lock # None /\ lock.maker = p
      /\ pc[p] = "pid" => p \in opened
      /\ pc[p] \in Critical => lock.owner = p

\* A binary that was found or made fresh is never one of an older drat again.
NotOutdated == \A p \in Procs : pc[p] \in {"peek", "unlock", "unlocked", "run"} => binary # "outdated"

\* What the binary is while a process stands at a step.
BinaryFits ==
  ~misreaped =>
    \A p \in Procs :
      /\ pc[p] = "reset" => ~Fresh
      /\ pc[p] \in {"copy", "compile", "link"} => binary = "absent"
      /\ pc[p] = "finish" => binary = "partial"
      /\ pc[p] \in {"peek", "unlock", "unlocked", "run"} => Fresh

\* An unfinished binary is one that its builder is about to finish.
PartialIsAttended ==
  ~misreaped /\ Killed = {} =>
    /\ binary = "partial" => \E p \in Procs : pc[p] = "finish"
    /\ \A p \in Procs : pc[p] \in {"unlock", "unlocked", "run"} => binary = "complete"

\* Only an owner.pid that is in the directory counts as open.
OpenedIsThere == opened # {} => lock # None /\ lock.owner # None

IInv == /\ TypeOK /\ OpenedIsThere /\ NotOutdated /\ LockIsMine
        /\ BinaryFits /\ PartialIsAttended /\ RanComplete

-----------------------------------------------------------------------------
(* Types *)

LEMMA InitTypeOK == Init => TypeOK
  BY DEF Init, TypeOK, Binaries, Steps

LEMMA NextTypeOK == ASSUME TypeOK, OpenedIsThere, NotOutdated, [Next]_vars PROVE TypeOK'
<1>1. ASSUME NEW p \in Procs, CheckExists(p) PROVE TypeOK'
  BY <1>1 DEF CheckExists, Go, TypeOK, Locks, Binaries, Steps, Ended, Critical, Fresh
<1>2. ASSUME NEW p \in Procs, CheckMtime(p) PROVE TypeOK'
  BY <1>2 DEF CheckMtime, Go, TypeOK, Locks, Binaries, Steps, Ended, Critical, Fresh
<1>3. ASSUME NEW p \in Procs, PeekLock(p) PROVE TypeOK'
  BY <1>3 DEF PeekLock, Go, TypeOK, Locks, Binaries, Steps, Ended, Critical, Fresh
<1>4. ASSUME NEW p \in Procs, CreateDir(p) PROVE TypeOK'
  <2>1. [maker |-> p, owner |-> None, old |-> FALSE] \in Locks
    BY DEF Locks
  <2>2. lock' \in Locks \cup {None} /\ pc' \in [Procs -> Steps]
    BY <1>4, <2>1 DEF CreateDir, Go, TypeOK, Steps
  <2> QED
    BY <1>4, <2>2 DEF CreateDir, TypeOK
<1>5. ASSUME NEW p \in Procs, WriteOwner(p) PROVE TypeOK'
  <2>1. lock # None => [lock EXCEPT !.owner = p] \in Locks
    BY DEF TypeOK, Locks
  <2>2. lock' \in Locks \cup {None} /\ pc' \in [Procs -> Steps] /\ opened' \in SUBSET Procs
    BY <1>5, <2>1 DEF WriteOwner, Go, TypeOK, OpenedIsThere, Steps, Ended, Critical
  <2> QED
    BY <1>5, <2>2 DEF WriteOwner, TypeOK
<1>6. ASSUME NEW p \in Procs, ReadOwner(p) PROVE TypeOK'
  BY <1>6 DEF ReadOwner, Go, TypeOK, Locks, Binaries, Steps, Ended, Critical, Fresh
<1>7. ASSUME NEW p \in Procs, StatLock(p) PROVE TypeOK'
  BY <1>7 DEF StatLock, Go, TypeOK, Locks, Binaries, Steps, Ended, Critical, Fresh
<1>8. ASSUME NEW p \in Procs, ReapOwner(p) PROVE TypeOK'
  <2>1. lock # None => [lock EXCEPT !.owner = None, !.old = FALSE] \in Locks
    BY DEF TypeOK, Locks
  <2>2. lock' \in Locks \cup {None} /\ pc' \in [Procs -> Steps] /\ opened' \in SUBSET Procs
    BY <1>8, <2>1 DEF ReapOwner, DeleteOwner, Go, TypeOK, Steps, Ended, Critical
  <2>3. misreaped' \in BOOLEAN
    BY <1>8 DEF ReapOwner, DeleteOwner, TypeOK
  <2> QED
    BY <1>8, <2>2, <2>3 DEF ReapOwner, TypeOK
<1>9. ASSUME NEW p \in Procs, Retry(p) PROVE TypeOK'
  BY <1>9 DEF Retry, Go, TypeOK, Locks, Binaries, Steps, Ended, Critical, Fresh
<1>10. ASSUME NEW p \in Procs, TimeOut(p) PROVE TypeOK'
  BY <1>10 DEF TimeOut, Go, TypeOK, Locks, Binaries, Steps, Ended, Critical, Fresh
<1>11. ASSUME NEW p \in Procs, Recheck(p) PROVE TypeOK'
  BY <1>11 DEF Recheck, Go, TypeOK, Locks, Binaries, Steps, Ended, Critical, Fresh
<1>12. ASSUME NEW p \in Procs, ResetRoot(p) PROVE TypeOK'
  BY <1>12 DEF ResetRoot, Go, TypeOK, Locks, Binaries, Steps, Ended, Critical, Fresh
<1>13. ASSUME NEW p \in Procs, CopyEntries(p) PROVE TypeOK'
  BY <1>13 DEF CopyEntries, Go, TypeOK, Locks, Binaries, Steps, Ended, Critical, Fresh
<1>14. ASSUME NEW p \in Procs, Compile(p) PROVE TypeOK'
  BY <1>14 DEF Compile, Go, TypeOK, Locks, Binaries, Steps, Ended, Critical, Fresh
<1>15. ASSUME NEW p \in Procs, LinkBegins(p) PROVE TypeOK'
  BY <1>15 DEF LinkBegins, Go, TypeOK, Locks, Binaries, Steps, Ended, Critical, Fresh
<1>16. ASSUME NEW p \in Procs, LinkEnds(p) PROVE TypeOK'
  BY <1>16 DEF LinkEnds, Go, TypeOK, Locks, Binaries, Steps, Ended, Critical, Fresh
<1>17. ASSUME NEW p \in Procs, Unlock(p) PROVE TypeOK'
  <2>1. lock # None => [lock EXCEPT !.owner = None, !.old = FALSE] \in Locks
    BY DEF TypeOK, Locks
  <2>2. lock' \in Locks \cup {None} /\ pc' \in [Procs -> Steps] /\ opened' \in SUBSET Procs
    BY <1>17, <2>1 DEF Unlock, DeleteOwner, Go, TypeOK, Steps, Ended, Critical
  <2>3. misreaped' \in BOOLEAN
    BY <1>17 DEF Unlock, DeleteOwner, TypeOK
  <2> QED
    BY <1>17, <2>2, <2>3 DEF Unlock, TypeOK
<1>18. ASSUME NEW p \in Procs, Run(p) PROVE TypeOK'
  BY <1>18 DEF Run, Go, NotOutdated, TypeOK, Steps, Ended
<1>19. ASSUME NEW p \in Procs, Crash(p) PROVE TypeOK'
  BY <1>19 DEF Crash, Go, TypeOK, Locks, Binaries, Steps, Ended, Critical, Fresh
<1>20. CASE Age
  <2>1. lock' \in Locks
    BY <1>20 DEF Age, TypeOK, Locks
  <2> QED
    BY <1>20, <2>1 DEF Age, TypeOK
<1>21. CASE UNCHANGED vars
  BY <1>21 DEF vars, Go, TypeOK, Locks, Binaries, Steps, Ended, Critical, Fresh
<1>22. ASSUME NEW p \in Procs, OpenOwner(p) PROVE TypeOK'
  <2>1. lock # None => [lock EXCEPT !.owner = Blank, !.old = lock.old /\ lock.owner # None] \in Locks
    BY DEF TypeOK, Locks
  <2>2. lock' \in Locks \cup {None} /\ pc' \in [Procs -> Steps] /\ opened' \in SUBSET Procs
    BY <1>22, <2>1 DEF OpenOwner, Go, TypeOK, Steps, Ended, Critical
  <2> QED
    BY <1>22, <2>2 DEF OpenOwner, TypeOK
<1>23. ASSUME NEW p \in Procs, ReapDirectory(p) PROVE TypeOK'
  BY <1>23 DEF ReapDirectory, Removable, Held, Go, TypeOK, Locks, Binaries, Steps, Ended, Critical, Fresh
<1>24. ASSUME NEW p \in Procs, DropDirectory(p) PROVE TypeOK'
  BY <1>24 DEF DropDirectory, Removable, Held, Go, TypeOK, Locks, Binaries, Steps, Ended, Critical, Fresh
<1> QED
  BY <1>1, <1>2, <1>3, <1>4, <1>5, <1>6, <1>7, <1>8, <1>9, <1>10, <1>11, <1>12, <1>13, <1>14, <1>15, <1>16, <1>17, <1>18, <1>19, <1>20, <1>21,
     <1>22, <1>23, <1>24 DEF Next, Step, Look, Acquire, Build

-----------------------------------------------------------------------------
(* The lock *)

LEMMA NextOpenedIsThere == ASSUME TypeOK, OpenedIsThere, [Next]_vars PROVE OpenedIsThere'
<1>1. CASE UNCHANGED <<lock, opened>>
  BY <1>1 DEF OpenedIsThere
<1>2. ASSUME NEW p \in Procs, CreateDir(p) PROVE OpenedIsThere'
  BY <1>2 DEF CreateDir, OpenedIsThere
<1>3. ASSUME NEW p \in Procs, OpenOwner(p) PROVE OpenedIsThere'
  <2>1. CASE lock = None
    BY <1>3, <2>1 DEF OpenOwner, OpenedIsThere
  <2>2. CASE lock # None
    <3>1. lock' = [lock EXCEPT !.owner = Blank, !.old = lock.old /\ lock.owner # None]
      BY <1>3, <2>2 DEF OpenOwner
    <3>2. lock' \in Locks /\ lock'.owner = Blank
      BY <2>2, <3>1 DEF TypeOK, Locks
    <3> QED
      BY <3>2, LocksAssumption, ProcsAssumption DEF OpenedIsThere
  <2> QED
    BY <2>1, <2>2
<1>4. ASSUME NEW p \in Procs, WriteOwner(p) PROVE OpenedIsThere'
  <2>1. CASE p \notin opened
    BY <1>4, <2>1 DEF WriteOwner, OpenedIsThere
  <2>2. CASE p \in opened
    <3>1. lock \in Locks /\ lock' = [lock EXCEPT !.owner = p]
      BY <1>4, <2>2 DEF WriteOwner, OpenedIsThere, TypeOK
    <3>2. lock' \in Locks /\ lock'.owner = p
      BY <3>1 DEF Locks
    <3> QED
      BY <3>2, LocksAssumption, ProcsAssumption DEF OpenedIsThere
  <2> QED
    BY <2>1, <2>2
<1>5. ASSUME NEW p \in Procs, ReapOwner(p) PROVE OpenedIsThere'
  BY <1>5 DEF ReapOwner, DeleteOwner, OpenedIsThere
<1>6. ASSUME NEW p \in Procs, ReapDirectory(p) PROVE OpenedIsThere'
  BY <1>6 DEF ReapDirectory, Removable, OpenedIsThere
<1>7. ASSUME NEW p \in Procs, Unlock(p) PROVE OpenedIsThere'
  BY <1>7 DEF Unlock, DeleteOwner, OpenedIsThere
<1>8. ASSUME NEW p \in Procs, DropDirectory(p) PROVE OpenedIsThere'
  BY <1>8 DEF DropDirectory, Removable, OpenedIsThere
<1>9. CASE Age
  <2>1. CASE opened = {}
    BY <1>9, <2>1 DEF Age, OpenedIsThere
  <2>2. CASE opened # {}
    <3>1. lock' \in Locks /\ lock'.owner = lock.owner
      BY <1>9 DEF Age, TypeOK, Locks
    <3> QED
      BY <1>9, <2>2, <3>1, LocksAssumption DEF Age, OpenedIsThere
  <2> QED
    BY <2>1, <2>2
<1> QED
  BY <1>1, <1>2, <1>3, <1>4, <1>5, <1>6, <1>7, <1>8, <1>9
  DEF Next, Step, Look, Acquire, Build, vars, CheckExists, CheckMtime, PeekLock, ReadOwner, StatLock, Retry, TimeOut, Recheck,
      ResetRoot, CopyEntries, Compile, LinkBegins, LinkEnds, Run, Crash

LEMMA NextLockIsMine == ASSUME TypeOK, OpenedIsThere, LockIsMine, [Next]_vars PROVE LockIsMine'
<1>1. ASSUME NEW p \in Procs, CheckExists(p) PROVE LockIsMine'
  BY <1>1 DEF CheckExists, Go, LockIsMine, Owning, TypeOK, Critical, Ended
<1>2. ASSUME NEW p \in Procs, CheckMtime(p) PROVE LockIsMine'
  BY <1>2 DEF CheckMtime, Go, LockIsMine, Owning, TypeOK, Critical, Ended
<1>3. ASSUME NEW p \in Procs, PeekLock(p) PROVE LockIsMine'
  BY <1>3 DEF PeekLock, Go, LockIsMine, Owning, TypeOK, Critical, Ended
<1>4. ASSUME NEW p \in Procs, CreateDir(p) PROVE LockIsMine'
  <2>1. CASE lock # None
    BY <1>4, <2>1 DEF CreateDir, Go, LockIsMine, Owning, TypeOK, Critical
  <2>2. CASE lock = None
    <3>1. lock' # None /\ lock'.maker = p
      <4>1. lock' = [maker |-> p, owner |-> None, old |-> FALSE]
        BY <1>4, <2>2 DEF CreateDir
      <4>2. [maker |-> p, owner |-> None, old |-> FALSE] \in Locks
        BY DEF Locks
      <4> QED
        BY <4>1, <4>2, LocksAssumption
    <3>2. pc' = [pc EXCEPT ![p] = "own"]
      BY <1>4, <2>2 DEF CreateDir, Go
    <3>3. ~misreaped => \A q \in Procs : pc[q] \notin Owning
      BY <2>2 DEF LockIsMine
    <3> QED
      BY <1>4, <3>1, <3>2, <3>3 DEF CreateDir, LockIsMine, Owning, TypeOK, Critical
  <2> QED
    BY <2>1, <2>2
<1>5. ASSUME NEW p \in Procs, WriteOwner(p) PROVE LockIsMine'
  <2> SUFFICES ASSUME ~misreaped PROVE LockIsMine'
    BY <1>5 DEF WriteOwner, LockIsMine
  <2>1. lock \in Locks /\ lock.maker = p /\ p \in opened
    BY <1>5 DEF WriteOwner, LockIsMine, Owning, TypeOK
  <2>2. lock' \in Locks /\ lock'.maker = p /\ lock'.owner = p
    BY <1>5, <2>1 DEF WriteOwner, Locks
  <2>3. \A q \in Procs \ {p} : pc[q] \notin Owning
    BY <2>1 DEF LockIsMine
  <2>4. pc' = [pc EXCEPT ![p] = "recheck"]
    BY <1>5 DEF WriteOwner, Go
  <2> QED
    BY <2>2, <2>3, <2>4, LocksAssumption DEF LockIsMine, Owning, TypeOK
<1>6. ASSUME NEW p \in Procs, ReadOwner(p) PROVE LockIsMine'
  BY <1>6 DEF ReadOwner, Go, LockIsMine, Owning, TypeOK, Critical, Ended
<1>7. ASSUME NEW p \in Procs, StatLock(p) PROVE LockIsMine'
  BY <1>7 DEF StatLock, Go, LockIsMine, Owning, TypeOK, Critical, Ended
<1>8. ASSUME NEW p \in Procs, ReapOwner(p) PROVE LockIsMine'
  <2> SUFFICES ASSUME lock # None, ~misreaped' PROVE LockIsMine'
    BY <1>8 DEF ReapOwner, Go, LockIsMine, Owning, TypeOK, Critical
  <2>1. pc' = [pc EXCEPT ![p] = "rmdir"] /\ ~misreaped
    BY <1>8 DEF ReapOwner, DeleteOwner, Go
  <2>2. CASE lock.owner = None
    <3>1. \A q \in Procs : pc[q] \in Owning => pc[q] = "own"
      BY <2>1, <2>2, ProcsAssumption DEF LockIsMine, OpenedIsThere, Owning
    <3> QED
      BY <1>8, <2>1, <2>2, <3>1 DEF ReapOwner, DeleteOwner, LockIsMine, Owning, Critical, TypeOK
  <2>3. CASE lock.owner # None
    <3>1. lock.maker = p \/ pc[lock.maker] \notin Owning
      BY <1>8, <2>3 DEF ReapOwner, DeleteOwner, Held, Owning
    <3>2. \A q \in Procs : pc[q] \notin Owning
      BY <1>8, <2>1, <3>1 DEF ReapOwner, LockIsMine, Owning, Critical
    <3> QED
      BY <2>1, <3>2 DEF LockIsMine, Owning, Critical, TypeOK
  <2> QED
    BY <2>2, <2>3
<1>9. ASSUME NEW p \in Procs, Retry(p) PROVE LockIsMine'
  BY <1>9 DEF Retry, Go, LockIsMine, Owning, TypeOK, Critical, Ended
<1>10. ASSUME NEW p \in Procs, TimeOut(p) PROVE LockIsMine'
  BY <1>10 DEF TimeOut, Go, LockIsMine, Owning, TypeOK, Critical, Ended
<1>11. ASSUME NEW p \in Procs, Recheck(p) PROVE LockIsMine'
  BY <1>11 DEF Recheck, Go, LockIsMine, Owning, TypeOK, Critical, Ended
<1>12. ASSUME NEW p \in Procs, ResetRoot(p) PROVE LockIsMine'
  BY <1>12 DEF ResetRoot, Go, LockIsMine, Owning, TypeOK, Critical, Ended
<1>13. ASSUME NEW p \in Procs, CopyEntries(p) PROVE LockIsMine'
  BY <1>13 DEF CopyEntries, Go, LockIsMine, Owning, TypeOK, Critical, Ended
<1>14. ASSUME NEW p \in Procs, Compile(p) PROVE LockIsMine'
  BY <1>14 DEF Compile, Go, LockIsMine, Owning, TypeOK, Critical, Ended
<1>15. ASSUME NEW p \in Procs, LinkBegins(p) PROVE LockIsMine'
  BY <1>15 DEF LinkBegins, Go, LockIsMine, Owning, TypeOK, Critical, Ended
<1>16. ASSUME NEW p \in Procs, LinkEnds(p) PROVE LockIsMine'
  BY <1>16 DEF LinkEnds, Go, LockIsMine, Owning, TypeOK, Critical, Ended
<1>17. ASSUME NEW p \in Procs, Unlock(p) PROVE LockIsMine'
  <2> SUFFICES ASSUME ~misreaped' PROVE LockIsMine'
    BY DEF LockIsMine
  <2>1. ~misreaped
    BY <1>17 DEF Unlock, DeleteOwner
  <2>2. \A q \in Procs \ {p} : pc[q] \notin Owning
    BY <1>17, <2>1 DEF Unlock, LockIsMine, Owning, Critical
  <2>3. \A q \in Procs : pc'[q] \notin Owning
    BY <1>17, <2>2 DEF Unlock, Go, Owning, Critical, TypeOK
  <2> QED
    BY <2>3 DEF LockIsMine, Owning
<1>18. ASSUME NEW p \in Procs, Run(p) PROVE LockIsMine'
  BY <1>18 DEF Run, Go, LockIsMine, Owning, TypeOK, Critical, Ended
<1>19. ASSUME NEW p \in Procs, Crash(p) PROVE LockIsMine'
  BY <1>19 DEF Crash, Go, LockIsMine, Owning, TypeOK, Critical, Ended
<1>20. CASE Age
  <2>1. lock \in Locks /\ lock' = [lock EXCEPT !.old = TRUE]
    BY <1>20 DEF Age, TypeOK
  <2>2. lock' \in Locks /\ lock'.maker = lock.maker /\ lock'.owner = lock.owner
    BY <2>1 DEF Locks
  <2> QED
    BY <1>20, <2>2, LocksAssumption DEF Age, LockIsMine, Owning
<1>21. CASE UNCHANGED vars
  BY <1>21 DEF vars, Go, LockIsMine, Owning, TypeOK, Critical, Ended
<1>22. ASSUME NEW p \in Procs, OpenOwner(p) PROVE LockIsMine'
  <2> SUFFICES ASSUME ~misreaped PROVE LockIsMine'
    BY <1>22 DEF OpenOwner, LockIsMine
  <2>1. lock \in Locks /\ lock.maker = p /\ lock # None
    BY <1>22 DEF OpenOwner, LockIsMine, Owning, TypeOK
  <2>2. lock' \in Locks /\ lock'.maker = p
    BY <1>22, <2>1 DEF OpenOwner, Locks
  <2>3. \A q \in Procs \ {p} : pc[q] \notin Owning
    BY <2>1 DEF LockIsMine
  <2>4. pc' = [pc EXCEPT ![p] = "pid"] /\ opened' = opened \cup {p}
    BY <1>22, <2>1 DEF OpenOwner, Go
  <2> QED
    BY <2>2, <2>3, <2>4, LocksAssumption DEF LockIsMine, Owning, Critical, TypeOK
<1>23. ASSUME NEW p \in Procs, ReapDirectory(p) PROVE LockIsMine'
  <2> SUFFICES ASSUME Removable, ~misreaped' PROVE LockIsMine'
    BY <1>23 DEF ReapDirectory, Go, LockIsMine, Owning, TypeOK, Critical
  <2>1. ~misreaped /\ pc[lock.maker] \notin Owning /\ lock \in Locks
    BY <1>23 DEF ReapDirectory, Held, Removable, Owning, TypeOK
  <2>2. \A q \in Procs : pc[q] \notin Owning
    BY <2>1 DEF LockIsMine
  <2>3. \A q \in Procs : pc'[q] \notin Owning
    BY <1>23, <2>2 DEF ReapDirectory, Go, Owning, Critical, TypeOK
  <2> QED
    BY <2>3 DEF LockIsMine, Owning
<1>24. ASSUME NEW p \in Procs, DropDirectory(p) PROVE LockIsMine'
  <2> SUFFICES ASSUME Removable, ~misreaped' PROVE LockIsMine'
    BY <1>24 DEF DropDirectory, Go, LockIsMine, Owning, TypeOK, Critical
  <2>1. ~misreaped /\ pc[lock.maker] \notin Owning /\ lock \in Locks
    BY <1>24 DEF DropDirectory, Held, Removable, Owning, TypeOK
  <2>2. \A q \in Procs : pc[q] \notin Owning
    BY <2>1 DEF LockIsMine
  <2>3. \A q \in Procs : pc'[q] \notin Owning
    BY <1>24, <2>2 DEF DropDirectory, Go, Owning, Critical, TypeOK
  <2> QED
    BY <2>3 DEF LockIsMine, Owning
<1> QED
  BY <1>1, <1>2, <1>3, <1>4, <1>5, <1>6, <1>7, <1>8, <1>9, <1>10, <1>11, <1>12, <1>13, <1>14, <1>15, <1>16, <1>17, <1>18, <1>19, <1>20, <1>21,
     <1>22, <1>23, <1>24 DEF Next, Step, Look, Acquire, Build

-----------------------------------------------------------------------------
(* The binary *)

LEMMA NextNotOutdated == ASSUME TypeOK, NotOutdated, [Next]_vars PROVE NotOutdated'
<1>1. ASSUME NEW p \in Procs, CheckExists(p) PROVE NotOutdated'
  BY <1>1 DEF CheckExists, Go, NotOutdated, TypeOK, Fresh
<1>2. ASSUME NEW p \in Procs, CheckMtime(p) PROVE NotOutdated'
  BY <1>2 DEF CheckMtime, Go, NotOutdated, TypeOK, Fresh
<1>3. ASSUME NEW p \in Procs, PeekLock(p) PROVE NotOutdated'
  BY <1>3 DEF PeekLock, Go, NotOutdated, TypeOK, Fresh
<1>4. ASSUME NEW p \in Procs, CreateDir(p) PROVE NotOutdated'
  BY <1>4 DEF CreateDir, Go, NotOutdated, TypeOK, Fresh
<1>5. ASSUME NEW p \in Procs, WriteOwner(p) PROVE NotOutdated'
  BY <1>5 DEF WriteOwner, Go, NotOutdated, TypeOK, Fresh
<1>6. ASSUME NEW p \in Procs, ReadOwner(p) PROVE NotOutdated'
  BY <1>6 DEF ReadOwner, Go, NotOutdated, TypeOK, Fresh
<1>7. ASSUME NEW p \in Procs, StatLock(p) PROVE NotOutdated'
  BY <1>7 DEF StatLock, Go, NotOutdated, TypeOK, Fresh
<1>8. ASSUME NEW p \in Procs, ReapOwner(p) PROVE NotOutdated'
  BY <1>8 DEF ReapOwner, DeleteOwner, Held, Go, NotOutdated, TypeOK, Fresh
<1>9. ASSUME NEW p \in Procs, Retry(p) PROVE NotOutdated'
  BY <1>9 DEF Retry, Go, NotOutdated, TypeOK, Fresh
<1>10. ASSUME NEW p \in Procs, TimeOut(p) PROVE NotOutdated'
  BY <1>10 DEF TimeOut, Go, NotOutdated, TypeOK, Fresh
<1>11. ASSUME NEW p \in Procs, Recheck(p) PROVE NotOutdated'
  BY <1>11 DEF Recheck, Go, NotOutdated, TypeOK, Fresh
<1>12. ASSUME NEW p \in Procs, ResetRoot(p) PROVE NotOutdated'
  BY <1>12 DEF ResetRoot, Go, NotOutdated, TypeOK, Fresh
<1>13. ASSUME NEW p \in Procs, CopyEntries(p) PROVE NotOutdated'
  BY <1>13 DEF CopyEntries, Go, NotOutdated, TypeOK, Fresh
<1>14. ASSUME NEW p \in Procs, Compile(p) PROVE NotOutdated'
  BY <1>14 DEF Compile, Go, NotOutdated, TypeOK, Fresh
<1>15. ASSUME NEW p \in Procs, LinkBegins(p) PROVE NotOutdated'
  BY <1>15 DEF LinkBegins, Go, NotOutdated, TypeOK, Fresh
<1>16. ASSUME NEW p \in Procs, LinkEnds(p) PROVE NotOutdated'
  BY <1>16 DEF LinkEnds, Go, NotOutdated, TypeOK, Fresh
<1>17. ASSUME NEW p \in Procs, Unlock(p) PROVE NotOutdated'
  BY <1>17 DEF Unlock, DeleteOwner, Held, Go, NotOutdated, TypeOK, Fresh
<1>18. ASSUME NEW p \in Procs, Run(p) PROVE NotOutdated'
  BY <1>18 DEF Run, Go, NotOutdated, TypeOK, Fresh
<1>19. ASSUME NEW p \in Procs, Crash(p) PROVE NotOutdated'
  BY <1>19 DEF Crash, Go, NotOutdated, TypeOK, Fresh
<1>20. CASE Age
  BY <1>20 DEF Age, Go, NotOutdated, TypeOK, Fresh
<1>21. CASE UNCHANGED vars
  BY <1>21 DEF vars, Go, NotOutdated, TypeOK, Fresh
<1>22. ASSUME NEW p \in Procs, OpenOwner(p) PROVE NotOutdated'
  BY <1>22 DEF OpenOwner, Go, NotOutdated, TypeOK, Fresh
<1>23. ASSUME NEW p \in Procs, ReapDirectory(p) PROVE NotOutdated'
  BY <1>23 DEF ReapDirectory, Removable, Held, Go, NotOutdated, TypeOK, Fresh
<1>24. ASSUME NEW p \in Procs, DropDirectory(p) PROVE NotOutdated'
  BY <1>24 DEF DropDirectory, Removable, Held, Go, NotOutdated, TypeOK, Fresh
<1> QED
  BY <1>1, <1>2, <1>3, <1>4, <1>5, <1>6, <1>7, <1>8, <1>9, <1>10, <1>11, <1>12, <1>13, <1>14, <1>15, <1>16, <1>17, <1>18, <1>19, <1>20, <1>21,
     <1>22, <1>23, <1>24 DEF Next, Step, Look, Acquire, Build

\* With the lock one is alone.
LEMMA AloneWithLock ==
  ASSUME LockIsMine, ~misreaped, NEW p \in Procs, NEW q \in Procs,
         pc[p] \in Critical, pc[q] \in Critical
  PROVE  p = q
  BY DEF LockIsMine, Owning

LEMMA NextBinaryFits ==
  ASSUME TypeOK, LockIsMine, BinaryFits, [Next]_vars
  PROVE  BinaryFits'
<1>1. ASSUME NEW p \in Procs, CheckExists(p) PROVE BinaryFits'
  BY <1>1 DEF CheckExists, Go, BinaryFits, TypeOK, Fresh
<1>2. ASSUME NEW p \in Procs, CheckMtime(p) PROVE BinaryFits'
  BY <1>2 DEF CheckMtime, Go, BinaryFits, TypeOK, Fresh
<1>3. ASSUME NEW p \in Procs, PeekLock(p) PROVE BinaryFits'
  BY <1>3 DEF PeekLock, Go, BinaryFits, TypeOK, Fresh
<1>4. ASSUME NEW p \in Procs, CreateDir(p) PROVE BinaryFits'
  BY <1>4 DEF CreateDir, Go, BinaryFits, TypeOK, Fresh
<1>5. ASSUME NEW p \in Procs, WriteOwner(p) PROVE BinaryFits'
  BY <1>5 DEF WriteOwner, Go, BinaryFits, TypeOK, Fresh
<1>6. ASSUME NEW p \in Procs, ReadOwner(p) PROVE BinaryFits'
  BY <1>6 DEF ReadOwner, Go, BinaryFits, TypeOK, Fresh
<1>7. ASSUME NEW p \in Procs, StatLock(p) PROVE BinaryFits'
  BY <1>7 DEF StatLock, Go, BinaryFits, TypeOK, Fresh
<1>8. ASSUME NEW p \in Procs, ReapOwner(p) PROVE BinaryFits'
  BY <1>8 DEF ReapOwner, DeleteOwner, Held, Go, BinaryFits, TypeOK, Fresh
<1>9. ASSUME NEW p \in Procs, Retry(p) PROVE BinaryFits'
  BY <1>9 DEF Retry, Go, BinaryFits, TypeOK, Fresh
<1>10. ASSUME NEW p \in Procs, TimeOut(p) PROVE BinaryFits'
  BY <1>10 DEF TimeOut, Go, BinaryFits, TypeOK, Fresh
<1>11. ASSUME NEW p \in Procs, Recheck(p) PROVE BinaryFits'
  BY <1>11 DEF Recheck, Go, BinaryFits, TypeOK, Fresh
<1>12. ASSUME NEW p \in Procs, ResetRoot(p) PROVE BinaryFits'
  BY <1>12 DEF ResetRoot, Go, BinaryFits, TypeOK, Fresh
<1>13. ASSUME NEW p \in Procs, CopyEntries(p) PROVE BinaryFits'
  BY <1>13 DEF CopyEntries, Go, BinaryFits, TypeOK, Fresh
<1>14. ASSUME NEW p \in Procs, Compile(p) PROVE BinaryFits'
  BY <1>14 DEF Compile, Go, BinaryFits, TypeOK, Fresh
<1>15. ASSUME NEW p \in Procs, LinkBegins(p) PROVE BinaryFits'
  <2>1. ~misreaped => \A q \in Procs \ {p} : pc[q] \notin Critical
    BY <1>15, AloneWithLock DEF LinkBegins, Critical
  <2> QED
    BY <1>15, <2>1 DEF LinkBegins, Go, BinaryFits, TypeOK, Fresh, Critical
<1>16. ASSUME NEW p \in Procs, LinkEnds(p) PROVE BinaryFits'
  <2>1. ~misreaped => \A q \in Procs \ {p} : pc[q] \notin Critical
    BY <1>16, AloneWithLock DEF LinkEnds, Critical
  <2> QED
    BY <1>16, <2>1 DEF LinkEnds, Go, BinaryFits, TypeOK, Fresh, Critical
<1>17. ASSUME NEW p \in Procs, Unlock(p) PROVE BinaryFits'
  BY <1>17 DEF Unlock, DeleteOwner, Held, Go, BinaryFits, TypeOK, Fresh
<1>18. ASSUME NEW p \in Procs, Run(p) PROVE BinaryFits'
  BY <1>18 DEF Run, Go, BinaryFits, TypeOK, Fresh
<1>19. ASSUME NEW p \in Procs, Crash(p) PROVE BinaryFits'
  BY <1>19 DEF Crash, Go, BinaryFits, TypeOK, Fresh
<1>20. CASE Age
  BY <1>20 DEF Age, Go, BinaryFits, TypeOK, Fresh
<1>21. CASE UNCHANGED vars
  BY <1>21 DEF vars, Go, BinaryFits, TypeOK, Fresh
<1>22. ASSUME NEW p \in Procs, OpenOwner(p) PROVE BinaryFits'
  BY <1>22 DEF OpenOwner, Go, BinaryFits, TypeOK, Fresh
<1>23. ASSUME NEW p \in Procs, ReapDirectory(p) PROVE BinaryFits'
  BY <1>23 DEF ReapDirectory, Removable, Held, Go, BinaryFits, TypeOK, Fresh
<1>24. ASSUME NEW p \in Procs, DropDirectory(p) PROVE BinaryFits'
  BY <1>24 DEF DropDirectory, Removable, Held, Go, BinaryFits, TypeOK, Fresh
<1> QED
  BY <1>1, <1>2, <1>3, <1>4, <1>5, <1>6, <1>7, <1>8, <1>9, <1>10, <1>11, <1>12, <1>13, <1>14, <1>15, <1>16, <1>17, <1>18, <1>19, <1>20, <1>21,
     <1>22, <1>23, <1>24 DEF Next, Step, Look, Acquire, Build

LEMMA NextPartialIsAttended ==
  ASSUME TypeOK, LockIsMine, BinaryFits, PartialIsAttended, [Next]_vars
  PROVE  PartialIsAttended'
<1>1. ASSUME NEW p \in Procs, CheckExists(p) PROVE PartialIsAttended'
  BY <1>1 DEF CheckExists, Go, PartialIsAttended, BinaryFits, TypeOK, Fresh, Killed
<1>2. ASSUME NEW p \in Procs, CheckMtime(p) PROVE PartialIsAttended'
  BY <1>2 DEF CheckMtime, Go, PartialIsAttended, BinaryFits, TypeOK, Fresh, Killed
<1>3. ASSUME NEW p \in Procs, PeekLock(p) PROVE PartialIsAttended'
  <2> SUFFICES ASSUME ~misreaped, Killed' = {} PROVE PartialIsAttended'
    BY <1>3 DEF PeekLock, PartialIsAttended
  <2>1. Killed = {} /\ pc' = [pc EXCEPT ![p] = IF lock = None THEN "run" ELSE "create"]
    BY <1>3 DEF PeekLock, Go, Killed, TypeOK
  <2>2. lock = None => binary # "partial"
    BY <2>1 DEF PartialIsAttended, LockIsMine, Owning, Critical
  <2>3. lock = None => binary = "complete"
    BY <1>3, <2>2 DEF PeekLock, BinaryFits, Fresh
  <2> QED
    BY <1>3, <2>1, <2>3 DEF PeekLock, PartialIsAttended, TypeOK
<1>4. ASSUME NEW p \in Procs, CreateDir(p) PROVE PartialIsAttended'
  BY <1>4 DEF CreateDir, Go, PartialIsAttended, BinaryFits, TypeOK, Fresh, Killed
<1>5. ASSUME NEW p \in Procs, WriteOwner(p) PROVE PartialIsAttended'
  BY <1>5 DEF WriteOwner, Go, PartialIsAttended, BinaryFits, TypeOK, Fresh, Killed
<1>6. ASSUME NEW p \in Procs, ReadOwner(p) PROVE PartialIsAttended'
  BY <1>6 DEF ReadOwner, Go, PartialIsAttended, BinaryFits, TypeOK, Fresh, Killed
<1>7. ASSUME NEW p \in Procs, StatLock(p) PROVE PartialIsAttended'
  BY <1>7 DEF StatLock, Go, PartialIsAttended, BinaryFits, TypeOK, Fresh, Killed
<1>8. ASSUME NEW p \in Procs, ReapOwner(p) PROVE PartialIsAttended'
  BY <1>8 DEF ReapOwner, DeleteOwner, Held, Go, PartialIsAttended, BinaryFits, TypeOK, Fresh, Killed
<1>9. ASSUME NEW p \in Procs, Retry(p) PROVE PartialIsAttended'
  BY <1>9 DEF Retry, Go, PartialIsAttended, BinaryFits, TypeOK, Fresh, Killed
<1>10. ASSUME NEW p \in Procs, TimeOut(p) PROVE PartialIsAttended'
  BY <1>10 DEF TimeOut, Go, PartialIsAttended, BinaryFits, TypeOK, Fresh, Killed
<1>11. ASSUME NEW p \in Procs, Recheck(p) PROVE PartialIsAttended'
  <2> SUFFICES ASSUME ~misreaped, Killed' = {} PROVE PartialIsAttended'
    BY <1>11 DEF Recheck, PartialIsAttended
  <2>1. Killed = {} /\ pc' = [pc EXCEPT ![p] = IF Fresh THEN "unlock" ELSE "reset"]
    BY <1>11 DEF Recheck, Go, Killed, TypeOK
  <2>2. \A q \in Procs : pc[q] # "finish"
    BY <1>11, AloneWithLock DEF Recheck, Critical
  <2>3. Fresh => binary = "complete"
    BY <2>1, <2>2 DEF PartialIsAttended, Fresh
  <2> QED
    BY <1>11, <2>1, <2>2, <2>3 DEF Recheck, PartialIsAttended, TypeOK, Fresh
<1>12. ASSUME NEW p \in Procs, ResetRoot(p) PROVE PartialIsAttended'
  BY <1>12 DEF ResetRoot, Go, PartialIsAttended, BinaryFits, TypeOK, Fresh, Killed
<1>13. ASSUME NEW p \in Procs, CopyEntries(p) PROVE PartialIsAttended'
  BY <1>13 DEF CopyEntries, Go, PartialIsAttended, BinaryFits, TypeOK, Fresh, Killed
<1>14. ASSUME NEW p \in Procs, Compile(p) PROVE PartialIsAttended'
  BY <1>14 DEF Compile, Go, PartialIsAttended, BinaryFits, TypeOK, Fresh, Killed
<1>15. ASSUME NEW p \in Procs, LinkBegins(p) PROVE PartialIsAttended'
  BY <1>15 DEF LinkBegins, Go, PartialIsAttended, BinaryFits, TypeOK, Fresh, Killed
<1>16. ASSUME NEW p \in Procs, LinkEnds(p) PROVE PartialIsAttended'
  BY <1>16 DEF LinkEnds, Go, PartialIsAttended, BinaryFits, TypeOK, Fresh, Killed
<1>17. ASSUME NEW p \in Procs, Unlock(p) PROVE PartialIsAttended'
  BY <1>17 DEF Unlock, DeleteOwner, Held, Go, PartialIsAttended, BinaryFits, TypeOK, Fresh, Killed
<1>18. ASSUME NEW p \in Procs, Run(p) PROVE PartialIsAttended'
  BY <1>18 DEF Run, Go, PartialIsAttended, BinaryFits, TypeOK, Fresh, Killed
<1>19. ASSUME NEW p \in Procs, Crash(p) PROVE PartialIsAttended'
  BY <1>19 DEF Crash, Go, PartialIsAttended, BinaryFits, TypeOK, Fresh, Killed
<1>20. CASE Age
  BY <1>20 DEF Age, Go, PartialIsAttended, BinaryFits, TypeOK, Fresh, Killed
<1>21. CASE UNCHANGED vars
  BY <1>21 DEF vars, Go, PartialIsAttended, BinaryFits, TypeOK, Fresh, Killed
<1>22. ASSUME NEW p \in Procs, OpenOwner(p) PROVE PartialIsAttended'
  BY <1>22 DEF OpenOwner, Go, PartialIsAttended, BinaryFits, TypeOK, Fresh, Killed
<1>23. ASSUME NEW p \in Procs, ReapDirectory(p) PROVE PartialIsAttended'
  BY <1>23 DEF ReapDirectory, Removable, Held, Go, PartialIsAttended, BinaryFits, TypeOK, Fresh, Killed
<1>24. ASSUME NEW p \in Procs, DropDirectory(p) PROVE PartialIsAttended'
  BY <1>24 DEF DropDirectory, Removable, Held, Go, PartialIsAttended, BinaryFits, TypeOK, Fresh, Killed
<1> QED
  BY <1>1, <1>2, <1>3, <1>4, <1>5, <1>6, <1>7, <1>8, <1>9, <1>10, <1>11, <1>12, <1>13, <1>14, <1>15, <1>16, <1>17, <1>18, <1>19, <1>20, <1>21,
     <1>22, <1>23, <1>24 DEF Next, Step, Look, Acquire, Build

LEMMA NextRanComplete ==
  ASSUME TypeOK, PartialIsAttended, RanComplete, [Next]_vars
  PROVE  RanComplete'
<1>1. ASSUME NEW p \in Procs, CheckExists(p) PROVE RanComplete'
  BY <1>1 DEF CheckExists, Go, RanComplete, TypeOK, Killed
<1>2. ASSUME NEW p \in Procs, CheckMtime(p) PROVE RanComplete'
  BY <1>2 DEF CheckMtime, Go, RanComplete, TypeOK, Killed
<1>3. ASSUME NEW p \in Procs, PeekLock(p) PROVE RanComplete'
  BY <1>3 DEF PeekLock, Go, RanComplete, TypeOK, Killed
<1>4. ASSUME NEW p \in Procs, CreateDir(p) PROVE RanComplete'
  BY <1>4 DEF CreateDir, Go, RanComplete, TypeOK, Killed
<1>5. ASSUME NEW p \in Procs, WriteOwner(p) PROVE RanComplete'
  BY <1>5 DEF WriteOwner, Go, RanComplete, TypeOK, Killed
<1>6. ASSUME NEW p \in Procs, ReadOwner(p) PROVE RanComplete'
  BY <1>6 DEF ReadOwner, Go, RanComplete, TypeOK, Killed
<1>7. ASSUME NEW p \in Procs, StatLock(p) PROVE RanComplete'
  BY <1>7 DEF StatLock, Go, RanComplete, TypeOK, Killed
<1>8. ASSUME NEW p \in Procs, ReapOwner(p) PROVE RanComplete'
  BY <1>8 DEF ReapOwner, DeleteOwner, Held, Go, RanComplete, TypeOK, Killed
<1>9. ASSUME NEW p \in Procs, Retry(p) PROVE RanComplete'
  BY <1>9 DEF Retry, Go, RanComplete, TypeOK, Killed
<1>10. ASSUME NEW p \in Procs, TimeOut(p) PROVE RanComplete'
  BY <1>10 DEF TimeOut, Go, RanComplete, TypeOK, Killed
<1>11. ASSUME NEW p \in Procs, Recheck(p) PROVE RanComplete'
  BY <1>11 DEF Recheck, Go, RanComplete, TypeOK, Killed
<1>12. ASSUME NEW p \in Procs, ResetRoot(p) PROVE RanComplete'
  BY <1>12 DEF ResetRoot, Go, RanComplete, TypeOK, Killed
<1>13. ASSUME NEW p \in Procs, CopyEntries(p) PROVE RanComplete'
  BY <1>13 DEF CopyEntries, Go, RanComplete, TypeOK, Killed
<1>14. ASSUME NEW p \in Procs, Compile(p) PROVE RanComplete'
  BY <1>14 DEF Compile, Go, RanComplete, TypeOK, Killed
<1>15. ASSUME NEW p \in Procs, LinkBegins(p) PROVE RanComplete'
  BY <1>15 DEF LinkBegins, Go, RanComplete, TypeOK, Killed
<1>16. ASSUME NEW p \in Procs, LinkEnds(p) PROVE RanComplete'
  BY <1>16 DEF LinkEnds, Go, RanComplete, TypeOK, Killed
<1>17. ASSUME NEW p \in Procs, Unlock(p) PROVE RanComplete'
  BY <1>17 DEF Unlock, DeleteOwner, Held, Go, RanComplete, TypeOK, Killed
<1>18. ASSUME NEW p \in Procs, Run(p) PROVE RanComplete'
  <2> SUFFICES ASSUME NEW q \in Procs, pc'[q] = "used", ~misreaped, Killed' = {}
               PROVE  ran'[q] = "complete"
    BY <1>18 DEF Run, RanComplete
  <2>1. Killed = {} /\ pc' = [pc EXCEPT ![p] = "used"]
    BY <1>18 DEF Run, Go, Killed, TypeOK
  <2>2. CASE q = p
    BY <1>18, <2>1, <2>2 DEF Run, PartialIsAttended, TypeOK
  <2>3. CASE q # p
    BY <1>18, <2>1, <2>3 DEF Run, RanComplete, TypeOK
  <2> QED
    BY <2>2, <2>3
<1>19. ASSUME NEW p \in Procs, Crash(p) PROVE RanComplete'
  BY <1>19 DEF Crash, Go, RanComplete, TypeOK, Killed
<1>20. CASE Age
  BY <1>20 DEF Age, Go, RanComplete, TypeOK, Killed
<1>21. CASE UNCHANGED vars
  BY <1>21 DEF vars, Go, RanComplete, TypeOK, Killed
<1>22. ASSUME NEW p \in Procs, OpenOwner(p) PROVE RanComplete'
  BY <1>22 DEF OpenOwner, Go, RanComplete, TypeOK, Killed
<1>23. ASSUME NEW p \in Procs, ReapDirectory(p) PROVE RanComplete'
  BY <1>23 DEF ReapDirectory, Removable, Held, Go, RanComplete, TypeOK, Killed
<1>24. ASSUME NEW p \in Procs, DropDirectory(p) PROVE RanComplete'
  BY <1>24 DEF DropDirectory, Removable, Held, Go, RanComplete, TypeOK, Killed
<1> QED
  BY <1>1, <1>2, <1>3, <1>4, <1>5, <1>6, <1>7, <1>8, <1>9, <1>10, <1>11, <1>12, <1>13, <1>14, <1>15, <1>16, <1>17, <1>18, <1>19, <1>20, <1>21,
     <1>22, <1>23, <1>24 DEF Next, Step, Look, Acquire, Build

-----------------------------------------------------------------------------
(* The theorems *)

LEMMA InitIInv == Init => IInv
  BY InitTypeOK DEF Init, IInv, OpenedIsThere, NotOutdated, LockIsMine, BinaryFits, PartialIsAttended,
     RanComplete, Owning, Critical, Fresh

LEMMA NextIInv == IInv /\ [Next]_vars => IInv'
  BY NextTypeOK, NextOpenedIsThere, NextNotOutdated, NextLockIsMine, NextBinaryFits, NextPartialIsAttended,
     NextRanComplete DEF IInv

LEMMA Invariance == Spec => []IInv
  BY InitIInv, NextIInv, PTL DEF Spec

\* Types; and no process runs a binary that is older than its drat.
THEOREM TypeCorrect == Spec => []TypeOK
<1>1. IInv => TypeOK
  BY DEF IInv
<1> QED
  BY <1>1, Invariance, PTL

\* Unless a living process has lost its lock to a reaper, one process at a time
\* has the lock of the build directory, however many there are, whichever of
\* them are killed, and wherever the others stand (acquire_stage0_cache_lock).
THEOREM OneBuilderCorrect == Spec => []OneBuilder
<1>1. IInv => OneBuilder
  <2> SUFFICES ASSUME IInv, ~misreaped
               PROVE  /\ Cardinality(Holders) <= 1
                      /\ \A p \in Holders : lock # None /\ lock.maker = p /\ lock.owner = p
    BY DEF OneBuilder
  <2>1. \A p \in Holders : lock # None /\ lock.maker = p /\ lock.owner = p
    BY DEF IInv, LockIsMine, Owning, Holders
  <2>2. CASE Holders = {}
    <3>1. Cardinality({}) = 0
      BY FS_EmptySet
    <3> QED
      BY <2>1, <2>2, <3>1
  <2>3. CASE Holders # {}
    <3>1. Holders = {lock.maker}
      BY <2>1, <2>3
    <3>2. Cardinality({lock.maker}) = 1
      BY FS_Singleton
    <3>3. Cardinality(Holders) <= 1
      BY <3>1, <3>2
    <3> QED
      BY <2>1, <3>3
  <2> QED
    BY <2>2, <2>3
<1> QED
  BY <1>1, Invariance, PTL

\* Where nobody was killed and nobody lost its lock, what a process runs was
\* written to its end (build_stage0_binary).
THEOREM RanCompleteCorrect == Spec => []RanComplete
<1>1. IInv => RanComplete
  BY DEF IInv
<1> QED
  BY <1>1, Invariance, PTL

\* Who has the lock does not take away a binary that is fresh: the second look,
\* with the lock, is never out of date when the directory is reset.
THEOREM FreshIsKeptCorrect == Spec => FreshIsKept
<1>1. IInv /\ [Next]_vars => [Fresh /\ binary' \notin {"partial", "complete"} => misreaped]_vars
  <2> SUFFICES ASSUME IInv, Next, Fresh, ~misreaped
               PROVE  binary' \in {"partial", "complete"}
    BY DEF vars
  <2>1. ASSUME NEW p \in Procs, ResetRoot(p) PROVE FALSE
    BY <2>1 DEF ResetRoot, IInv, BinaryFits
  <2> QED
    BY <2>1 DEF Next, Step, Look, Acquire, Build, CheckExists, CheckMtime, PeekLock, CreateDir,
       OpenOwner, WriteOwner, ReadOwner, StatLock, ReapOwner, ReapDirectory, DropDirectory, Retry, TimeOut, Recheck, CopyEntries,
       Compile, LinkBegins, LinkEnds, Unlock, Run, Crash, Age, Fresh
<1> QED
  BY <1>1, Invariance, PTL DEF Spec, FreshIsKept
=============================================================================
