------------------------------ MODULE MCPidFile ------------------------------
(* Calls of PidFile with settings that Configuration reads from their lines. *)
EXTENDS PidFile, SequencesExt

CONSTANTS p1, p2, p3

\* The operators of Configuration that read, given the settings so far.
Reader(config) ==
    INSTANCE Configuration
        WITH conf <- config, pc <- "lines", mpd <- << >>, home <- << >>, args <- 0,
             asked <- "undefined", text <- << >>, Homes <- {}, Arguments <- {}, Lines <- {},
             Numerals <- << >>, UserHome <- << >>, MaxArgs <- 0, MaxLines <- 0

Configured(arguments, lines) ==
    LET parse(config, arg) == Reader(config)!Parsed(arg)
        read(config, line) == Reader(config)!LineRead(line)
    IN  FoldLeft(read, FoldLeft(parse, Reader(<< >>)!DefaultConfiguration(<<"/home">>), arguments), lines)

\* A path from ".", where scrobby is called in /home.
In(dir, path) == IF path[1] = "." THEN dir \o Tail(path) ELSE path

Config(arguments, value) ==
    LET c == Configured(arguments, << <<"pid_file", "=", "\"">> \o value \o <<"\"">> >>)
    IN  [daemonize |-> c.daemonize, before |-> In(<<"/home">>, c.file_pid), after |-> In(<< >>, c.file_pid)]

Usual == Config(<< >>, <<"~", "/pid">>)
Console == Config(<< <<"--no-daemon">> >>, <<"~", "/pid">>)
Relative == Config(<< >>, <<".", "/pid">>)
Default == Config(<< >>, << >>)

MCConfigs == (p1 :> {Usual}) @@ (p2 :> {Usual, Default}) @@ (p3 :> {Usual, Console, Relative})
MCPaths == {c.before : c \in UNION {MCConfigs[p] : p \in Starts}}
           \cup {c.after : c \in UNION {MCConfigs[p] : p \in Starts}}
=============================================================================
