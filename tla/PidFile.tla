------------------------------- MODULE PidFile -------------------------------
(***************************************************************************)
(* How scrobby keeps to one process: CheckFiles of configuration.cpp looks *)
(* for a live process named by the pid file, Daemonize of misc.cpp writes  *)
(* the pid of the process it has forked, do_at_exit of scrobby.cpp removes *)
(* the file.                                                               *)
(*                                                                         *)
(* Each member of Starts is one call of the program, and names the process *)
(* id it will run under. Nothing locks the file: the steps of several      *)
(* starts, and of the processes that stop, interleave.                     *)
(*                                                                         *)
(* What a call does with which file is decided by its Configuration: a     *)
(* path without a leading "/" names one file where scrobby is called, and  *)
(* another one in "/", where daemon() goes.                                *)
(*                                                                         *)
(* A definition marked "Mutation" is a wrong version of the one that       *)
(* follows it, against which the properties are tried.                     *)
(***************************************************************************)
EXTENDS Naturals

CONSTANTS
    Starts,         \* calls of scrobby
    Paths,          \* files that are pid files to one of them
    Configs,        \* per call, the configurations it may have
    Absent,         \* no pid file
    Invalid         \* a pid file without a pid

\* Config.daemonize, and the file named by Config.file_pid before daemon() and after.
ASSUME ConfigsAssumption ==
    \A p \in Starts : Configs[p] \subseteq [daemonize : BOOLEAN, before : Paths, after : Paths]
ASSUME FileAssumption == Absent # Invalid /\ {Absent, Invalid} \cap Starts = {}

VARIABLES
    conf,       \* per call, its configuration
    pc,         \* per call, how far it is
    away,       \* calls for which daemon() has returned
    file,       \* per path, the pid file: Absent, Invalid, or the pid it holds
    seen,       \* per call, what CheckFiles has read
    linked,     \* calls whose open pid file is still the one with the name
    reused,     \* pids that belong to other programs
    orderly     \* each call came when the one before was up or gone, and each
                \* daemon() succeeded

vars == <<conf, pc, away, file, seen, linked, reused, orderly>>

Starting == {"check", "create", "open", "daemon", "write"}
Gone == {"refused", "failed", "killed", "exited"}

TypeOK ==
    /\ conf \in [Starts -> [daemonize : BOOLEAN, before : Paths, after : Paths]]
    /\ pc \in [Starts -> {"new", "running"} \cup Starting \cup Gone]
    /\ away \subseteq Starts
    /\ file \in [Paths -> Starts \cup {Absent, Invalid}]
    /\ seen \in [Starts -> Starts \cup {Absent, Invalid}]
    /\ linked \subseteq Starts
    /\ reused \subseteq Starts
    /\ orderly \in BOOLEAN

Init ==
    /\ conf \in [Starts -> UNION {Configs[p] : p \in Starts}]
    /\ \A p \in Starts : conf[p] \in Configs[p]
    /\ pc = [p \in Starts |-> "new"]
    /\ away = {}
    /\ file = [path \in Paths |-> Absent]
    /\ seen = [p \in Starts |-> Absent]
    /\ linked = {}
    /\ reused = {}
    /\ orderly = TRUE

\* Mutation: the process is looked for under the wrong name.
AliveNever(p) == FALSE

\* /proc/<pid> is there. Before daemon() returns, the pid is not in use.
Alive(p) == pc[p] \in {"write", "running"} \/ p \in reused

Goto(p, where) == pc' = [pc EXCEPT ![p] = where]

\* Mutation: the name does not depend on where the call is by now.
PidFileNamed(p) == conf[p].before

\* What Config.file_pid names.
PidFile(p) == IF p \in away THEN conf[p].after ELSE conf[p].before

Puts(p, content) == file' = [file EXCEPT ![PidFile(p)] = content]

\* The name of the file goes; who has it open writes to a file nobody finds.
Unlink(p) ==
    /\ Puts(p, Absent)
    /\ linked' = {q \in linked : PidFile(q) # PidFile(p)}

-----------------------------------------------------------------------------
(* CheckFiles *)

ReadPidFile(p) ==
    /\ pc[p] = "new"
    /\ orderly' = (orderly /\ \A q \in Starts : pc[q] \notin Starting)
    /\ seen' = [seen EXCEPT ![p] = file[PidFile(p)]]
    /\ Goto(p, IF file[PidFile(p)] = Absent THEN "create" ELSE "check")
    /\ UNCHANGED <<conf, away, file, linked, reused>>

AlreadyRunning(p) ==
    /\ pc[p] = "check"
    /\ seen[p] \in Starts /\ Alive(seen[p])
    /\ Goto(p, "refused")
    /\ UNCHANGED <<conf, away, file, seen, linked, reused, orderly>>

StalePid(p) ==
    /\ pc[p] = "check"
    /\ seen[p] \in Starts /\ ~Alive(seen[p])
    /\ Goto(p, "create")
    /\ UNCHANGED <<conf, away, file, seen, linked, reused, orderly>>

\* "pid file is invalid, trying to remove": whatever the file holds by now.
RemoveInvalid(p) ==
    /\ pc[p] = "check"
    /\ seen[p] = Invalid
    /\ file[PidFile(p)] # Absent
    /\ Unlink(p)
    /\ Goto(p, "create")
    /\ UNCHANGED <<conf, away, seen, reused, orderly>>

\* It is gone already, or the directory is not ours.
CannotRemove(p) ==
    /\ pc[p] = "check"
    /\ seen[p] = Invalid
    /\ Goto(p, "refused")
    /\ UNCHANGED <<conf, away, file, seen, linked, reused, orderly>>

\* Mutation: what is written is the answer of the check, not a pid.
CreatePidFileWrong(p) ==
    /\ pc[p] = "create"
    /\ Puts(p, seen[p] # Absent)
    /\ Goto(p, "open")
    /\ UNCHANGED <<conf, away, seen, linked, reused, orderly>>

\* The file is opened to append, and so comes into being.
CreatePidFile(p) ==
    /\ pc[p] = "create"
    /\ Puts(p, IF file[PidFile(p)] = Absent THEN Invalid ELSE file[PidFile(p)])
    /\ Goto(p, "open")
    /\ UNCHANGED <<conf, away, seen, linked, reused, orderly>>

\* The log and the cache file are opened: CheckFiles returns true.
OpenFiles(p) ==
    /\ pc[p] = "open"
    /\ Goto(p, IF conf[p].daemonize THEN "daemon" ELSE "running")
    /\ UNCHANGED <<conf, away, file, seen, linked, reused, orderly>>

\* main returns before CheckFiles, or a file cannot be opened: CheckFiles
\* returns false, and a pid file it has created is left behind.
StartFails(p) ==
    /\ pc[p] \in {"new", "create", "open"}
    /\ Goto(p, "failed")
    /\ UNCHANGED <<conf, away, file, seen, linked, reused, orderly>>

-----------------------------------------------------------------------------
(* Daemonize *)

\* daemon() forks and leaves for "/", and the child empties the file.
TruncatePidFile(p) ==
    /\ pc[p] = "daemon"
    /\ away' = away \cup {p}
    /\ file' = [file EXCEPT ![conf[p].after] = Invalid]
    /\ linked' = linked \cup {p}
    /\ Goto(p, "write")
    /\ UNCHANGED <<conf, seen, reused, orderly>>

\* "couldn't daemonize!": daemon() fails, or the file cannot be opened from
\* where it has gone. main goes on all the same.
DaemonizeFails(p) ==
    /\ pc[p] = "daemon"
    /\ away' \in {away, away \cup {p}}
    /\ Goto(p, "running")
    /\ orderly' = FALSE
    /\ UNCHANGED <<conf, file, seen, linked, reused>>

\* Mutation: the pid stays in the buffer of the stream.
WritePidUnflushed(p) ==
    /\ pc[p] = "write"
    /\ linked' = linked \ {p}
    /\ Goto(p, "running")
    /\ UNCHANGED <<conf, away, file, seen, reused, orderly>>

WritePid(p) ==
    /\ pc[p] = "write"
    /\ IF p \in linked THEN Puts(p, p) ELSE UNCHANGED file
    /\ linked' = linked \ {p}
    /\ Goto(p, "running")
    /\ UNCHANGED <<conf, away, seen, reused, orderly>>

-----------------------------------------------------------------------------
(* The end of a process *)

\* Mutation: an exit that bypasses do_at_exit.
ExitWithoutHandlers(p) ==
    /\ pc[p] = "running"
    /\ Goto(p, "exited")
    /\ UNCHANGED <<conf, away, file, seen, linked, reused, orderly>>

\* do_at_exit removes the pid file, whosever it is.
Exit(p) ==
    /\ pc[p] = "running"
    /\ Unlink(p)
    /\ Goto(p, "exited")
    /\ UNCHANGED <<conf, away, seen, reused, orderly>>

\* A crash or SIGKILL at any time, or any signal before the handler is set. An
\* exit that cannot remove the file leaves the same behind.
Kill(p) ==
    /\ pc[p] \in Starting \cup {"running"}
    /\ linked' = linked \ {p}
    /\ Goto(p, "killed")
    /\ UNCHANGED <<conf, away, file, seen, reused, orderly>>

ReusePid(p) ==
    /\ pc[p] \in Gone
    /\ reused' = reused \cup {p}
    /\ UNCHANGED <<conf, pc, away, file, seen, linked, orderly>>

FreePid(p) ==
    /\ p \in reused
    /\ reused' = reused \ {p}
    /\ UNCHANGED <<conf, pc, away, file, seen, linked, orderly>>

Next ==
    \E p \in Starts :
        \/ ReadPidFile(p) \/ AlreadyRunning(p) \/ StalePid(p)
        \/ RemoveInvalid(p) \/ CannotRemove(p)
        \/ CreatePidFile(p) \/ OpenFiles(p) \/ StartFails(p)
        \/ TruncatePidFile(p) \/ DaemonizeFails(p) \/ WritePid(p)
        \/ Exit(p) \/ Kill(p) \/ ReusePid(p) \/ FreePid(p)

Spec == Init /\ [][Next]_vars

-----------------------------------------------------------------------------
(* Properties *)

Running == {p \in Starts : pc[p] = "running"}

\* A daemon whose pid file is the one it has checked.
Ordinary(p) == conf[p].daemonize /\ conf[p].before = conf[p].after
OnlyOrdinary == \A p \in Starts : pc[p] \in {"write", "running", "exited", "killed"} => Ordinary(p)

\* Calls that come one after another, and become daemons, leave one process per
\* pid file at most, whatever is killed and whatever happens to its pid:
\* CheckFiles turns a call away while a scrobby runs. Two of them would submit
\* every song twice and share one cache file.
OneAtATime ==
    orderly /\ OnlyOrdinary => \A p, q \in Running : PidFile(p) = PidFile(q) => p = q

\* The pid file names the process that runs, all the time it does: what the
\* check of the next call, and PIDFile= of the service, rely on.
PidFileNamesRunner ==
    orderly /\ OnlyOrdinary => \A p \in Running : file[PidFile(p)] = p

\* However starts and stops overlap, when all that came up have exited and none
\* was killed or failed halfway, no pid file is left, except the one that a daemon
\* with a relative pid_file has created before it left for "/".
NothingLeftBehind ==
    (\A p \in Starts : pc[p] \in {"new", "refused", "exited"}) =>
        \A path \in Paths :
            \/ file[path] = Absent
            \/ \E p \in away : conf[p].before = path /\ conf[p].after # path

\* "scrobby is already running with PID" (configuration.cpp:200): while one
\* scrobby runs, with or without a console, a later call with the same pid_file
\* is turned away.
AtMostOneRunning ==
    orderly => \A p, q \in Running : conf[p].before = conf[q].before => p = q
=============================================================================
