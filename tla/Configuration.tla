---------------------------- MODULE Configuration ----------------------------
(***************************************************************************)
(* The settings of scrobby: main of scrobby.cpp from its first line to     *)
(* CheckFiles and the setters of MPD::Connection, with                     *)
(* DefaultConfiguration, ParseArgv and ReadConfiguration of                *)
(* configuration.cpp and ChangeToUser of misc.cpp.                         *)
(*                                                                         *)
(* A text (an argument, a line, a value, a path) is a sequence of pieces:  *)
(* key words, quotes, "~", "@", or anything else as a whole; "~/pid" is    *)
(* <<"~", "/pid">>. A file is what its lines turn out to be when read.     *)
(*                                                                         *)
(* A definition marked "Mutation" is a wrong version of the one that       *)
(* follows it, against which the properties are tried.                     *)
(***************************************************************************)
EXTENDS Integers, SequencesExt, FiniteSetsExt

CONSTANTS
    Homes,      \* the HOME that scrobby may be called with
    Arguments,  \* what may be on the command line, besides the options
    Lines,      \* the lines that may be in a configuration file
    Numerals,   \* the number that a text begins with, where it does
    UserHome,   \* the home folder of the dedicated user
    MaxArgs,    \* bounds on the command line and on a file
    MaxLines

ASSUME BoundsAssumption == MaxArgs \in Nat /\ MaxLines \in Nat
ASSUME TextsAssumption ==
    Lines \cup Homes \cup {UserHome} \subseteq Seq(STRING) /\ \A v \in DOMAIN Numerals : Numerals[v] \in Int

VARIABLES
    pc,
    conf,       \* Config
    mpd,        \* itsHost, itsPassword, itsPort and itsTimeout of the connection
    \* History: HOME, the number of arguments, the level they ask for, the lines
    \* of the file.
    home, args, asked, text

vars == <<pc, conf, mpd, home, args, asked, text>>

Options == {<<"--help">>, <<"--no-daemon">>, <<"--quiet">>, <<"--verbose">>, <<"--version">>}
Levels == {"undefined", "none", "error", "warning", "info", "verbose"}
Keys == {"dedicated_user", "mpd_host", "mpd_port", "mpd_timeout", "log_file", "pid_file",
         "cache_file", "lastfm_user", "lastfm_password", "lastfm_md5_password", "log_level",
         "submit_only_songs_with_mbid"}
\* The order in which ReadConfiguration looks for them.
KeyOrder == <<"dedicated_user", "mpd_host", "mpd_port", "mpd_timeout", "log_file", "pid_file",
              "cache_file", "lastfm_user", "lastfm_password", "lastfm_md5_password", "log_level",
              "submit_only_songs_with_mbid">>
Field(key) == CASE key = "log_file" -> "file_log"
                [] key = "pid_file" -> "file_pid"
                [] key = "cache_file" -> "file_cache"
                [] OTHER -> key

DefaultConfiguration(h) ==
    [user_home_folder |-> h, dedicated_user |-> << >>, file_config |-> << >>,
     mpd_host |-> <<"localhost">>, mpd_port |-> 6600, mpd_timeout |-> 15,
     file_log |-> <<"/var/log">>, file_pid |-> <<"/var/run">>,
     file_cache |-> <<"/var/cache">>,
     lastfm_user |-> << >>, lastfm_password |-> << >>, lastfm_md5_password |-> << >>,
     log_level |-> "undefined", daemonize |-> TRUE, submit_only_songs_with_mbid |-> FALSE]

Unset == [host |-> <<"localhost">>, password |-> << >>, port |-> 6600, timeout |-> 15]

TypeOK ==
    /\ pc \in {"argv", "lines", "check", "user", "files", "up", "exited", "failed"}
    /\ DOMAIN conf = DOMAIN DefaultConfiguration(home)
    /\ conf.log_level \in Levels /\ conf.daemonize \in BOOLEAN
    /\ conf.submit_only_songs_with_mbid \in BOOLEAN
    /\ conf.mpd_port \in Int /\ conf.mpd_timeout \in Int
    /\ home \in Homes
    /\ args \in 0..MaxArgs
    /\ asked \in Levels
    /\ text \in Seq(Lines) /\ Len(text) <= MaxLines

Init ==
    /\ pc = "argv"
    /\ home \in Homes
    /\ conf = DefaultConfiguration(home)
    /\ mpd = Unset
    /\ args = 0 /\ asked = "undefined" /\ text = << >>

-----------------------------------------------------------------------------
(* ParseArgv *)

Parsed(arg) ==
    CASE arg = <<"--no-daemon">> -> [conf EXCEPT !.daemonize = FALSE]
      [] arg = <<"--quiet">>     -> [conf EXCEPT !.log_level = "none"]
      [] arg = <<"--verbose">>   -> [conf EXCEPT !.log_level = "verbose"]
      [] OTHER                   -> [conf EXCEPT !.file_config = arg]

ParseArgument ==
    /\ pc = "argv" /\ args < MaxArgs
    /\ \E arg \in (Options \cup Arguments) \ {<<"--help">>, <<"--version">>} :
          /\ conf' = Parsed(arg)
          /\ asked' = CASE arg = <<"--quiet">>   -> "none"
                        [] arg = <<"--verbose">> -> "verbose"
                        [] OTHER                 -> asked
    /\ args' = args + 1
    /\ UNCHANGED <<pc, mpd, home, text>>

\* --help or --version: whatever comes after it is not looked at.
Help ==
    /\ pc = "argv" /\ args < MaxArgs
    /\ pc' = "exited"
    /\ UNCHANGED <<conf, mpd, home, args, asked, text>>

-----------------------------------------------------------------------------
(* ReadConfiguration *)

\* The file named by an argument, or else one of two others, can be read ...
OpenConfiguration ==
    /\ pc = "argv"
    /\ pc' = "lines"
    /\ UNCHANGED <<conf, mpd, home, args, asked, text>>

\* ... or none.
NoConfiguration ==
    /\ pc = "argv"
    /\ pc' = "failed"
    /\ UNCHANGED <<conf, mpd, home, args, asked, text>>

Quote == "\""

\* What is between the first and the last quote.
GetLineValue(line) ==
    LET quotes == {i \in DOMAIN line : line[i] = Quote}
    IN  IF Cardinality(quotes) < 2 THEN << >>
        ELSE SubSeq(line, Min(quotes) + 1, Max(quotes) - 1)

\* Mutation: the home folder of the user scrobby will run as.
HomeFolderOfUser(v) ==
    IF v[1] # "~" THEN v
    ELSE (IF conf.dedicated_user = << >> THEN conf.user_home_folder ELSE UserHome) \o Tail(v)

HomeFolder(v) == IF v[1] = "~" THEN conf.user_home_folder \o Tail(v) ELSE v

StrToInt(v) == IF v \in DOMAIN Numerals THEN Numerals[v] ELSE 0

\* Mutation: without the default.
IntoLogLevelAny(v) == v[1]

IntoLogLevel(v) ==
    IF Len(v) = 1 /\ v[1] \in Levels \ {"undefined"} THEN v[1] ELSE "info"

\* Mutation: the file overrides the command line.
LevelOverridden(v) == IntoLogLevel(v)
\* The first of the command line and the lines of the file that gives one.
Level(v) == IF conf.log_level = "undefined" THEN IntoLogLevel(v) ELSE conf.log_level

\* What a value that is not empty does to the setting.
Setting(key, v) ==
    CASE key \in {"mpd_port", "mpd_timeout"}             -> StrToInt(v)
      [] key \in {"log_file", "pid_file", "cache_file"}  -> HomeFolder(v)
      [] key = "log_level"                               -> Level(v)
      [] key = "submit_only_songs_with_mbid"             ->
            conf[key] \/ v \in {<<"1">>, <<"true">>, <<"yes">>}
      [] OTHER                                           -> v

\* A line without a value empties the setting: the code tests line.empty() for these
\* two, where it tests v.empty() for all others.
MayBeEmpty == {"dedicated_user", "mpd_host"}

\* A line is about the first key that is anywhere in it.
LineRead(line) ==
    LET found == {i \in DOMAIN KeyOrder : Contains(line, KeyOrder[i])}
        key   == KeyOrder[Min(found)]
        v     == GetLineValue(line)
    IN  IF \/ line = << >> \/ line[1] = "#" \/ found = {}
           \/ v = << >> /\ key \notin MayBeEmpty
        THEN conf
        ELSE [conf EXCEPT ![Field(key)] = Setting(key, v)]

ReadLine ==
    /\ pc = "lines" /\ Len(text) < MaxLines
    /\ \E line \in Lines :
          /\ conf' = LineRead(line)
          /\ text' = Append(text, line)
    /\ UNCHANGED <<pc, mpd, home, args, asked>>

EndOfFile ==
    /\ pc = "lines"
    /\ pc' = "check"
    /\ UNCHANGED <<conf, mpd, home, args, asked, text>>

-----------------------------------------------------------------------------
(* The rest of main *)

Known == conf.lastfm_user # << >> /\ (conf.lastfm_md5_password # << >> \/ conf.lastfm_password # << >>)

CheckSettings ==
    /\ pc = "check"
    /\ conf' = [conf EXCEPT !.log_level = IF @ = "undefined" THEN "info" ELSE @]
    /\ pc' = IF Known THEN "user" ELSE "failed"
    /\ UNCHANGED <<mpd, home, args, asked, text>>

\* Called by root, with a dedicated user ...
ChangeToUser ==
    /\ pc = "user" /\ conf.dedicated_user # << >>
    /\ \/ conf' = [conf EXCEPT !.user_home_folder = UserHome] /\ pc' = "files"
       \/ conf' = conf /\ pc' = "failed"
    /\ UNCHANGED <<mpd, home, args, asked, text>>

\* ... or without, or by somebody else.
KeepUser ==
    /\ pc = "user"
    /\ pc' = "files"
    /\ UNCHANGED <<conf, mpd, home, args, asked, text>>

\* Mutation: the host is taken from the last "@" on.
HostFromLast(host) ==
    LET at == SelectLastInSeq(host, LAMBDA piece : piece = "@")
    IN  IF at = 0 THEN [mpd EXCEPT !.host = host]
        ELSE [mpd EXCEPT !.password = SubSeq(host, 1, at - 1),
                         !.host = SubSeq(host, at + 1, Len(host))]

\* Connection::SetHostname
Host(host) ==
    LET at == SelectInSeq(host, LAMBDA piece : piece = "@")
    IN  IF at = 0 THEN [mpd EXCEPT !.host = host]
        ELSE [mpd EXCEPT !.password = SubSeq(host, 1, at - 1),
                         !.host = SubSeq(host, at + 1, Len(host))]

\* CheckFiles (see PidFile) returns true, and the connection gets its settings ...
SetUp ==
    /\ pc = "files"
    /\ mpd' = [Host(conf.mpd_host) EXCEPT !.port = conf.mpd_port, !.timeout = conf.mpd_timeout]
    /\ pc' = "up"
    /\ UNCHANGED <<conf, home, args, asked, text>>

\* ... or false.
FilesFail ==
    /\ pc = "files"
    /\ pc' = "failed"
    /\ UNCHANGED <<conf, mpd, home, args, asked, text>>

Next ==
    \/ ParseArgument \/ Help \/ OpenConfiguration \/ NoConfiguration
    \/ ReadLine \/ EndOfFile
    \/ CheckSettings \/ ChangeToUser \/ KeepUser \/ SetUp \/ FilesFail

Spec == Init /\ [][Next]_vars

-----------------------------------------------------------------------------
(* Properties *)

\* The last of --quiet and --verbose decides what is logged, whatever the file
\* says: ReadConfiguration does not touch a level that ParseArgv has set.
ArgumentsPrevail == asked # "undefined" => conf.log_level = asked

\* A line as the example shows it: a key, a sign, and its value in quotes.
Written(key, v) == <<key, "=", Quote>> \o v \o <<Quote>>
AsExample(line) ==
    /\ Len(line) >= 4 /\ line[1] \in Keys
    /\ line = Written(line[1], SubSeq(line, 4, Len(line) - 1))
    /\ \A i \in 4 .. Len(line) - 1 : line[i] \notin Keys \cup {Quote}
Value(line) == SubSeq(line, 4, Len(line) - 1)

\* What a line with the given key and value is there for.
Meant(key, v) ==
    CASE key \in {"mpd_port", "mpd_timeout"} -> IF v \in DOMAIN Numerals THEN Numerals[v] ELSE 0
      [] key \in {"log_file", "pid_file", "cache_file"} -> IF v[1] = "~" THEN home \o Tail(v) ELSE v
      [] key = "log_level" -> IF v \in {<<l>> : l \in Levels \ {"undefined"}} THEN v[1] ELSE "info"
      [] OTHER -> v

\* The lines that set a key, and the values they give it. A line without a value sets
\* no key but two, and those to the empty string.
Setters(key) == {i \in DOMAIN text : /\ text[i] # << >> /\ text[i][1] = key
                                     /\ Value(text[i]) # << >> \/ key \in {"dedicated_user", "mpd_host"}}
Given(key) == {Value(text[i]) : i \in Setters(key)}
Stands(key) ==
    CASE key = "submit_only_songs_with_mbid" ->
            conf[key] = (Given(key) \cap {<<"1">>, <<"true">>, <<"yes">>} # {})
      [] key = "log_level" ->
            \/ asked # "undefined"
            \/ Setters(key) # {} /\ conf[key] = Meant(key, Value(text[Min(Setters(key))]))
            \/ Setters(key) = {} /\ conf[key] \in {"undefined", "info"}
      [] OTHER ->
            conf[Field(key)] = IF Setters(key) = {} THEN DefaultConfiguration(home)[Field(key)]
                               ELSE Meant(key, Value(text[Max(Setters(key))]))

\* For mpd_host and dedicated_user the last line counts, whether it has a value or is
\* empty: an empty one overrides the value before it, and the default (lines 268 and
\* 273 of configuration.cpp). For every other key an empty line changes nothing, and
\* the last line with a value counts, the first for log_level, and any that says yes
\* for submit_only_songs_with_mbid. Without such a line the default stands. Comments
\* and the order of the keys change nothing, and "~" is the home folder of the
\* caller, also once scrobby is another user.
AsWritten ==
    (\A i \in DOMAIN text : text[i] = << >> \/ text[i][1] = "#" \/ AsExample(text[i])) =>
        \A key \in Keys : Stands(key)

\* MPD is asked at the host of mpd_host, with the password before its "@": the
\* two make up the setting, and the password has no "@" in it.
HostAsSet ==
    pc = "up" =>
        /\ mpd.port = conf.mpd_port /\ mpd.timeout = conf.mpd_timeout
        /\ IF Contains(conf.mpd_host, "@")
           THEN mpd.password \o <<"@">> \o mpd.host = conf.mpd_host /\ ~Contains(mpd.password, "@")
           ELSE mpd.host = conf.mpd_host /\ mpd.password = << >>
=============================================================================
