---------------------------- MODULE PidFileProofs ----------------------------
(***************************************************************************)
(* Proofs about PidFile, for any number of calls with any configurations.  *)
(***************************************************************************)
EXTENDS PidFile, TLAPS

Config == [daemonize : BOOLEAN, before : Paths, after : Paths]
Contents == Starts \cup {Absent, Invalid}

-----------------------------------------------------------------------------
(* Types *)

\* What Config.file_pid names is one of the paths.
LEMMA PathType == ASSUME TypeOK, NEW p \in Starts PROVE PidFile(p) \in Paths
  BY DEF TypeOK, PidFile

\* Writing to it keeps the type of the files.
LEMMA PutsType ==
    ASSUME TypeOK, NEW p \in Starts, NEW content \in Contents, Puts(p, content)
    PROVE  file' \in [Paths -> Contents]
  BY PathType DEF TypeOK, Puts, Contents

\* So does removing it, and fewer calls have it open.
LEMMA UnlinkType ==
    ASSUME TypeOK, NEW p \in Starts, Unlink(p)
    PROVE  file' \in [Paths -> Contents] /\ linked' \subseteq Starts
<1>1. Absent \in Contents
  BY DEF Contents
<1> QED
  BY <1>1, PutsType DEF Unlink, TypeOK

\* The initial state is well typed.
LEMMA TypeInit == Init => TypeOK
<1> SUFFICES ASSUME Init PROVE TypeOK
  OBVIOUS
<1>1. conf \in [Starts -> Config]
  BY ConfigsAssumption DEF Init, Config
<1> QED
  BY <1>1 DEF Init, TypeOK, Config, Starting, Gone

\* Each step keeps the types.
LEMMA TypeStep == TypeOK /\ [Next]_vars => TypeOK'
<1> SUFFICES ASSUME TypeOK, [Next]_vars PROVE TypeOK'
  OBVIOUS
<1> USE DEF TypeOK, Starting, Gone, Goto
<1>1. ASSUME NEW p \in Starts, ReadPidFile(p) PROVE TypeOK'
  BY <1>1, PathType DEF ReadPidFile
<1>2. ASSUME NEW p \in Starts, AlreadyRunning(p) \/ StalePid(p) \/ CannotRemove(p) PROVE TypeOK'
  BY <1>2 DEF AlreadyRunning, StalePid, CannotRemove
<1>3. ASSUME NEW p \in Starts, RemoveInvalid(p) \/ Exit(p) PROVE TypeOK'
  BY <1>3, UnlinkType DEF RemoveInvalid, Exit, Contents
<1>4. ASSUME NEW p \in Starts, CreatePidFile(p) PROVE TypeOK'
  <2>1. Invalid \in Contents /\ file[PidFile(p)] \in Contents
    BY PathType DEF Contents
  <2> QED
    BY <1>4, <2>1, PutsType DEF CreatePidFile, Contents
<1>5. ASSUME NEW p \in Starts, OpenFiles(p) \/ StartFails(p) PROVE TypeOK'
  BY <1>5 DEF OpenFiles, StartFails
<1>6. ASSUME NEW p \in Starts, TruncatePidFile(p) PROVE TypeOK'
  BY <1>6 DEF TruncatePidFile
<1>7. ASSUME NEW p \in Starts, DaemonizeFails(p) PROVE TypeOK'
  BY <1>7 DEF DaemonizeFails
<1>8. ASSUME NEW p \in Starts, WritePid(p) PROVE TypeOK'
  <2>1. p \in Contents
    BY DEF Contents
  <2>2. file' \in [Paths -> Contents]
    BY <1>8, <2>1, PutsType DEF WritePid, Contents
  <2> QED
    BY <1>8, <2>2 DEF WritePid, Contents
<1>9. ASSUME NEW p \in Starts, Kill(p) \/ ReusePid(p) \/ FreePid(p) PROVE TypeOK'
  BY <1>9 DEF Kill, ReusePid, FreePid
<1>10. CASE UNCHANGED vars
  BY <1>10 DEF vars
<1> QED
  BY <1>1, <1>2, <1>3, <1>4, <1>5, <1>6, <1>7, <1>8, <1>9, <1>10 DEF Next

\* Type correctness, for any number of calls.
THEOREM PidFileTypeCorrect == Spec => []TypeOK
  BY TypeInit, TypeStep, PTL DEF Spec

-----------------------------------------------------------------------------
(* One process per pid file *)

Passed == {"create", "open", "daemon", "write"}

\* daemon() comes last.
NotAway == \A p \in Starts : pc[p] \in {"new", "check", "create", "open", "daemon"} => p \notin away

\* The calls so far that came up are daemons, one after another.
Regular == orderly /\ OnlyOrdinary

\* One call starts at a time.
OneStarts == \A p, q \in Starts : pc[p] \in Starting /\ pc[q] \in Starting => p = q

\* The file of a process that runs holds its pid, ...
RunnersNamed == \A p \in Starts : pc[p] = "running" => file[conf[p].before] = p

\* ... which a call that checks the same file has read, ...
RunnersSeen ==
    \A p, q \in Starts :
        pc[p] = "running" /\ pc[q] = "check" /\ conf[p].before = conf[q].before => seen[q] = p

\* ... so that no call with the same file is beyond its check.
RunnersAlone ==
    \A p, q \in Starts :
        pc[p] = "running" /\ pc[q] \in Passed => conf[p].before # conf[q].before

\* The file that a daemon is about to write its pid to has its name still.
WritersLinked == \A p \in Starts : pc[p] = "write" => p \in linked

Guarded == OneStarts /\ RunnersNamed /\ RunnersSeen /\ RunnersAlone /\ WritersLinked
Inv == NotAway /\ (Regular => Guarded)

\* Nothing runs at first.
LEMMA InvInit == Init => Inv
  BY DEF Init, Inv, NotAway, Guarded, OneStarts, RunnersNamed, RunnersSeen, RunnersAlone,
         WritersLinked, Starting, Passed

\* Each step keeps a call that has not forked where it is.
LEMMA NotAwayStep == TypeOK /\ NotAway /\ [Next]_vars => NotAway'
<1> SUFFICES ASSUME TypeOK, NotAway, [Next]_vars PROVE NotAway'
  OBVIOUS
<1> USE DEF TypeOK, NotAway, Goto
<1>1. ASSUME NEW p \in Starts, ReadPidFile(p) \/ AlreadyRunning(p) \/ StalePid(p)
                               \/ CannotRemove(p) \/ RemoveInvalid(p) PROVE NotAway'
  BY <1>1 DEF ReadPidFile, AlreadyRunning, StalePid, CannotRemove, RemoveInvalid
<1>2. ASSUME NEW p \in Starts, CreatePidFile(p) \/ OpenFiles(p) \/ StartFails(p) PROVE NotAway'
  BY <1>2 DEF CreatePidFile, OpenFiles, StartFails
<1>3. ASSUME NEW p \in Starts, TruncatePidFile(p) \/ DaemonizeFails(p) \/ WritePid(p) PROVE NotAway'
  BY <1>3 DEF TruncatePidFile, DaemonizeFails, WritePid
<1>4. ASSUME NEW p \in Starts, Exit(p) \/ Kill(p) \/ ReusePid(p) \/ FreePid(p) PROVE NotAway'
  BY <1>4 DEF Exit, Kill, ReusePid, FreePid
<1>5. CASE UNCHANGED vars
  BY <1>5 DEF vars
<1> QED
  BY <1>1, <1>2, <1>3, <1>4, <1>5 DEF Next

\* What came up irregularly stays so.
LEMMA RegularBefore == ASSUME TypeOK, [Next]_vars, Regular' PROVE Regular
<1> USE DEF TypeOK, Regular, OnlyOrdinary, Ordinary, Goto
<1>1. ASSUME NEW p \in Starts, ReadPidFile(p) \/ AlreadyRunning(p) \/ StalePid(p)
                               \/ CannotRemove(p) \/ RemoveInvalid(p) PROVE Regular
  BY <1>1 DEF ReadPidFile, AlreadyRunning, StalePid, CannotRemove, RemoveInvalid
<1>2. ASSUME NEW p \in Starts, CreatePidFile(p) \/ OpenFiles(p) \/ StartFails(p) PROVE Regular
  BY <1>2 DEF CreatePidFile, OpenFiles, StartFails
<1>3. ASSUME NEW p \in Starts, TruncatePidFile(p) \/ DaemonizeFails(p) \/ WritePid(p) PROVE Regular
  BY <1>3 DEF TruncatePidFile, DaemonizeFails, WritePid
<1>4. ASSUME NEW p \in Starts, Exit(p) \/ Kill(p) \/ ReusePid(p) \/ FreePid(p) PROVE Regular
  BY <1>4 DEF Exit, Kill, ReusePid, FreePid
<1>5. CASE UNCHANGED vars
  BY <1>5 DEF vars
<1> QED
  BY <1>1, <1>2, <1>3, <1>4, <1>5 DEF Next

\* A call before it forks, and a process that runs, have the file they have checked.
LEMMA SameFile ==
    ASSUME NotAway, OnlyOrdinary, NEW p \in Starts,
           pc[p] \in Starting \cup {"new", "running"}
    PROVE  PidFile(p) = conf[p].before
  BY DEF NotAway, OnlyOrdinary, Ordinary, Starting, PidFile

\* Each step keeps one process per pid file.
LEMMA GuardedStep ==
    ASSUME TypeOK, NotAway, Regular, Guarded, Regular', [Next]_vars
    PROVE  Guarded'
<1> USE DEF Starting, Passed, Goto
<1>0. \A p \in Starts : pc[p] \in Starting \cup {"new", "running"} => PidFile(p) = conf[p].before
  BY SameFile DEF Regular
<1>a. conf' = conf
  BY DEF Next, vars, ReadPidFile, AlreadyRunning, StalePid, CannotRemove, RemoveInvalid,
         CreatePidFile, OpenFiles, StartFails, TruncatePidFile, DaemonizeFails, WritePid,
         Exit, Kill, ReusePid, FreePid
<1>b. \A p \in Starts : conf[p].before \in Paths /\ p # Absent /\ p # Invalid
  BY FileAssumption DEF TypeOK
<1> USE DEF Guarded, OneStarts, RunnersNamed, RunnersSeen, RunnersAlone, WritersLinked
<1>1. ASSUME NEW p \in Starts, ReadPidFile(p) PROVE Guarded'
  <2>1. /\ pc[p] = "new" /\ PidFile(p) = conf[p].before
        /\ seen' = [seen EXCEPT ![p] = file[conf[p].before]]
        /\ pc' = [pc EXCEPT ![p] = IF file[conf[p].before] = Absent THEN "create" ELSE "check"]
        /\ file' = file /\ linked' = linked
    BY <1>0, <1>1 DEF ReadPidFile
  <2>2. \A q \in Starts : pc[q] \notin Starting
    BY <1>1 DEF ReadPidFile, Regular
  <2>3. \A q \in Starts : pc[q] = "running" /\ conf[q].before = conf[p].before =>
                             file[conf[p].before] = q
    OBVIOUS
  <2>4. OneStarts' /\ WritersLinked'
    BY <2>1, <2>2 DEF TypeOK
  <2>5. RunnersNamed'
    BY <1>a, <2>1 DEF TypeOK
  <2>6. RunnersSeen' /\ RunnersAlone'
    BY <1>a, <1>b, <2>1, <2>2, <2>3 DEF TypeOK
  <2> QED
    BY <2>4, <2>5, <2>6
<1>2. ASSUME NEW p \in Starts, AlreadyRunning(p) PROVE Guarded'
  BY <1>a, <1>2 DEF AlreadyRunning, TypeOK
<1>3. ASSUME NEW p \in Starts, StalePid(p) PROVE Guarded'
  BY <1>a, <1>3 DEF StalePid, Alive, TypeOK
<1>4. ASSUME NEW p \in Starts, CannotRemove(p) PROVE Guarded'
  BY <1>a, <1>4 DEF CannotRemove, TypeOK
<1>5. ASSUME NEW p \in Starts, RemoveInvalid(p) PROVE Guarded'
  BY <1>0, <1>a, <1>b, <1>5 DEF RemoveInvalid, Unlink, Puts, TypeOK
<1>6. ASSUME NEW p \in Starts, CreatePidFile(p) PROVE Guarded'
  BY <1>0, <1>a, <1>b, <1>6 DEF CreatePidFile, Puts, TypeOK
<1>7. ASSUME NEW p \in Starts, OpenFiles(p) PROVE Guarded'
  <2>1. pc'[p] = "running" => Ordinary(p)'
    BY DEF Regular, OnlyOrdinary
  <2>2. pc'[p] = "daemon"
    BY <1>a, <1>7, <2>1 DEF OpenFiles, TypeOK, Ordinary
  <2> QED
    BY <1>a, <1>7, <2>2 DEF OpenFiles, TypeOK
<1>8. ASSUME NEW p \in Starts, StartFails(p) PROVE Guarded'
  BY <1>a, <1>8 DEF StartFails, TypeOK
<1>9. ASSUME NEW p \in Starts, TruncatePidFile(p) PROVE Guarded'
  <2>1. conf[p].after = conf[p].before
    BY <1>a, <1>9 DEF TruncatePidFile, Regular, OnlyOrdinary, Ordinary, TypeOK
  <2> QED
    BY <1>a, <1>b, <1>9, <2>1 DEF TruncatePidFile, TypeOK
<1>10. ASSUME NEW p \in Starts, DaemonizeFails(p) PROVE Guarded'
  BY <1>10 DEF DaemonizeFails, Regular
<1>11. ASSUME NEW p \in Starts, WritePid(p) PROVE Guarded'
  BY <1>0, <1>a, <1>b, <1>11 DEF WritePid, Puts, TypeOK
<1>12. ASSUME NEW p \in Starts, Exit(p) PROVE Guarded'
  BY <1>0, <1>a, <1>b, <1>12 DEF Exit, Unlink, Puts, TypeOK
<1>13. ASSUME NEW p \in Starts, Kill(p) PROVE Guarded'
  BY <1>a, <1>13 DEF Kill, TypeOK
<1>14. ASSUME NEW p \in Starts, ReusePid(p) \/ FreePid(p) PROVE Guarded'
  BY <1>14 DEF ReusePid, FreePid
<1>15. CASE UNCHANGED vars
  BY <1>15 DEF vars
<1> QED
  BY <1>1, <1>2, <1>3, <1>4, <1>5, <1>6, <1>7, <1>8, <1>9, <1>10, <1>11, <1>12, <1>13, <1>14,
     <1>15 DEF Next

\* Each step keeps the invariant.
LEMMA InvStep == TypeOK /\ Inv /\ [Next]_vars => Inv'
  BY NotAwayStep, RegularBefore, GuardedStep DEF Inv

\* However many calls there are, and whichever of them are killed, the pid file of
\* a process that runs names it: PidFileNamesRunner.
THEOREM RunnersAreNamed == Spec => []PidFileNamesRunner
<1>1. Inv => PidFileNamesRunner
  BY SameFile DEF Inv, Regular, Guarded, RunnersNamed, PidFileNamesRunner, Running
<1> QED
  BY <1>1, TypeInit, InvInit, TypeStep, InvStep, PTL DEF Spec

\* Of the calls that share a pid file one runs at most: OneAtATime.
THEOREM OnePerPidFile == Spec => []OneAtATime
<1>1. PidFileNamesRunner => OneAtATime
  BY DEF PidFileNamesRunner, OneAtATime
<1> QED
  BY <1>1, RunnersAreNamed, PTL

-----------------------------------------------------------------------------
(* What is left behind *)

\* A call that accounts for the file at a path: it will remove it, or it has ended
\* without doing so, or it has created it before it left for "/".
Accounts(q, path) ==
    \/ pc[q] \in {"open", "daemon", "write", "running"} /\ PidFile(q) = path
    \/ pc[q] \in {"failed", "killed"}
    \/ q \in away /\ conf[q].before = path /\ conf[q].after # path

Accounted == \A path \in Paths : file[path] # Absent => \E q \in Starts : Accounts(q, path)

\* A step of one call p: what it does to the place of p, and to nobody else's.
LEMMA OthersAccount ==
    ASSUME TypeOK, NEW p \in Starts, NEW q \in Starts \ {p}, NEW path \in Paths, Accounts(q, path),
           conf' = conf, \E where : Goto(p, where), away' \in {away, away \cup {p}}
    PROVE  Accounts(q, path)'
<1>1. pc'[q] = pc[q] /\ (q \in away' <=> q \in away)
  BY DEF Goto, TypeOK
<1> QED
  BY <1>1 DEF Accounts, PidFile

\* A step of p that creates no file, and after which p accounts for what it did.
LEMMA StepAccounts ==
    ASSUME TypeOK, Accounted, NEW p \in Starts,
           conf' = conf, \E where : Goto(p, where), away' \in {away, away \cup {p}},
           \A path \in Paths : file'[path] # Absent => file[path] # Absent \/ Accounts(p, path)',
           \A path \in Paths : file'[path] # Absent /\ Accounts(p, path) => Accounts(p, path)'
    PROVE  Accounted'
<1> SUFFICES ASSUME NEW path \in Paths, file'[path] # Absent
             PROVE  \E q \in Starts : Accounts(q, path)'
  BY DEF Accounted
<1>1. CASE file[path] = Absent
  BY <1>1
<1>2. CASE file[path] # Absent
  <2>1. PICK q \in Starts : Accounts(q, path)
    BY <1>2 DEF Accounted
  <2>2. CASE q = p
    BY <2>1, <2>2
  <2>3. CASE q # p
    BY <2>1, <2>3, OthersAccount
  <2> QED
    BY <2>2, <2>3
<1> QED
  BY <1>1, <1>2

\* Each step leaves an account of every file.
LEMMA AccountedStep == TypeOK /\ NotAway /\ Accounted /\ [Next]_vars => Accounted'
<1> SUFFICES ASSUME TypeOK, NotAway, Accounted, [Next]_vars PROVE Accounted'
  OBVIOUS
<1>0. \A p \in Starts : PidFile(p) \in Paths
  BY PathType
<1> USE DEF Goto
<1>1. ASSUME NEW p \in Starts, ReadPidFile(p) PROVE Accounted'
  BY <1>1, StepAccounts DEF ReadPidFile, Accounts, PidFile, TypeOK
<1>2. ASSUME NEW p \in Starts, AlreadyRunning(p) \/ StalePid(p) \/ CannotRemove(p) PROVE Accounted'
  BY <1>2, StepAccounts DEF AlreadyRunning, StalePid, CannotRemove, Accounts, PidFile, TypeOK
<1>3. ASSUME NEW p \in Starts, RemoveInvalid(p) PROVE Accounted'
  BY <1>0, <1>3, StepAccounts DEF RemoveInvalid, Unlink, Puts, Accounts, PidFile, TypeOK
<1>4. ASSUME NEW p \in Starts, CreatePidFile(p) PROVE Accounted'
  BY <1>0, <1>4, StepAccounts DEF CreatePidFile, Puts, Accounts, PidFile, TypeOK
<1>5. ASSUME NEW p \in Starts, OpenFiles(p) PROVE Accounted'
  BY <1>5, StepAccounts DEF OpenFiles, Accounts, PidFile, TypeOK
<1>6. ASSUME NEW p \in Starts, StartFails(p) PROVE Accounted'
  BY <1>6, StepAccounts DEF StartFails, Accounts, PidFile, TypeOK
<1>7. ASSUME NEW p \in Starts, TruncatePidFile(p) PROVE Accounted'
  BY <1>7, StepAccounts DEF TruncatePidFile, NotAway, Accounts, PidFile, TypeOK
<1>8. ASSUME NEW p \in Starts, DaemonizeFails(p) PROVE Accounted'
  BY <1>8, StepAccounts DEF DaemonizeFails, NotAway, Accounts, PidFile, TypeOK
<1>9. ASSUME NEW p \in Starts, WritePid(p) PROVE Accounted'
  BY <1>0, <1>9, StepAccounts DEF WritePid, Puts, Accounts, PidFile, TypeOK
<1>10. ASSUME NEW p \in Starts, Exit(p) PROVE Accounted'
  BY <1>0, <1>10, StepAccounts DEF Exit, Unlink, Puts, Accounts, PidFile, TypeOK
<1>11. ASSUME NEW p \in Starts, Kill(p) PROVE Accounted'
  BY <1>11, StepAccounts DEF Kill, Accounts, PidFile, TypeOK
<1>12. CASE UNCHANGED <<conf, pc, away, file>>
  BY <1>12 DEF Accounted, Accounts, PidFile
<1>13. \A p \in Starts : ReusePid(p) \/ FreePid(p) => UNCHANGED <<conf, pc, away, file>>
  BY DEF ReusePid, FreePid
<1> QED
  BY <1>1, <1>2, <1>3, <1>4, <1>5, <1>6, <1>7, <1>8, <1>9, <1>10, <1>11, <1>12, <1>13
     DEF Next, vars

\* However the steps of any number of calls overlap, clean exits leave no pid file
\* but one that a daemon could not find again: NothingLeftBehind.
THEOREM CleanExitsCleanUp == Spec => []NothingLeftBehind
<1>1. Init => Accounted
  BY DEF Init, Accounted
<1>2. Accounted => NothingLeftBehind
  BY DEF Accounted, Accounts, NothingLeftBehind
<1> QED
  BY <1>1, <1>2, TypeInit, InvInit, TypeStep, InvStep, AccountedStep, PTL DEF Spec, Inv
=============================================================================
