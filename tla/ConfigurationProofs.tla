------------------------- MODULE ConfigurationProofs -------------------------
(***************************************************************************)
(* Proofs about Configuration: for files of any length, with any lines,    *)
(* after any number of arguments.                                          *)
(***************************************************************************)
EXTENDS Configuration, FiniteSetTheorems, SequenceTheorems, WellFoundedInduction, TLAPS

USE BoundsAssumption

-----------------------------------------------------------------------------
(* The least and the greatest of a set of positions *)

NatOrder == {ss \in Nat \X Nat : ss[1] < ss[2]}

\* The natural numbers are well ordered.
LEMMA LeastExists ==
    ASSUME NEW S, S \subseteq Nat, S # {}
    PROVE  \E x \in S : \A y \in S : x <= y
<1>1. IsWellFoundedOn(NatOrder, Nat)
  BY NatLessThanWellFounded DEF OpToRel, NatOrder
<1>2. PICK x \in S : \A y \in S : <<y, x>> \notin NatOrder
  BY <1>1, WFMin
<1>3. \A y \in S : x <= y
  <2> SUFFICES ASSUME NEW y \in S PROVE ~(y < x)
    OBVIOUS
  <2>1. y \in Nat /\ x \in Nat /\ <<y, x>> \in Nat \X Nat /\ <<y, x>>[1] = y /\ <<y, x>>[2] = x
    OBVIOUS
  <2>2. y < x => <<y, x>> \in NatOrder
    BY <2>1 DEF NatOrder
  <2> QED
    BY <1>2, <2>2
<1> QED
  BY <1>3

LEMMA MinIs ==
    ASSUME NEW S, S \subseteq Nat, S # {}
    PROVE  Min(S) \in S /\ \A y \in S : Min(S) <= y
BY LeastExists DEF Min

LEMMA MinUnique ==
    ASSUME NEW S, S \subseteq Nat, NEW x \in S, \A y \in S : x <= y
    PROVE  Min(S) = x
<1>1. Min(S) \in S /\ \A y \in S : Min(S) <= y
  BY MinIs
<1>2. Min(S) <= x /\ x <= Min(S) /\ x \in Nat /\ Min(S) \in Nat
  BY <1>1
<1> QED
  BY <1>2

LEMMA MaxUnique ==
    ASSUME NEW S, S \subseteq Nat, NEW x \in S, \A y \in S : y <= x
    PROVE  Max(S) = x
<1>1. \A z \in S : (\A y \in S : z >= y) => z = x
  <2> SUFFICES ASSUME NEW z \in S, \A y \in S : z >= y PROVE z = x
    OBVIOUS
  <2>1. z >= x /\ z <= x /\ z \in Nat /\ x \in Nat
    OBVIOUS
  <2> QED
    BY <2>1
<1>2. \E z \in S : \A y \in S : z >= y
  <2>1. \A y \in S : x >= y
    OBVIOUS
  <2> QED
    BY <2>1
<1> QED
  BY <1>1, <1>2 DEF Max

LEMMA MaxIs ==
    ASSUME NEW n \in Nat, NEW S, S \subseteq 1 .. n, S # {}
    PROVE  Max(S) \in S /\ \A y \in S : y <= Max(S)
<1> DEFINE T == {n - i : i \in S}
<1>1. T \subseteq Nat /\ T # {}
  <2>1. \A i \in S : n - i \in Nat
    OBVIOUS
  <2> QED
    BY <2>1
<1>2. PICK t \in T : \A y \in T : t <= y
  BY <1>1, LeastExists
<1>3. PICK x \in S : t = n - x
  BY <1>2
<1>4. \A y \in S : y <= x
  <2> TAKE y \in S
  <2>1. n - x <= n - y /\ x \in Nat /\ y \in Nat
    BY <1>2, <1>3
  <2> QED
    BY <2>1
<1>5. S \subseteq Nat
  OBVIOUS
<1> QED
  BY <1>4, <1>5, MaxUnique
-----------------------------------------------------------------------------
(* Types *)

Fields == {"user_home_folder", "dedicated_user", "file_config", "mpd_host", "mpd_port", "mpd_timeout",
           "file_log", "file_pid", "file_cache", "lastfm_user", "lastfm_password", "lastfm_md5_password",
           "log_level", "daemonize", "submit_only_songs_with_mbid"}

\* A text is a sequence of strings; that "localhost" is one the provers do not know.
Pieces == STRING \cup {"localhost"}
Texts == Seq(Pieces)

\* conf is a record, and the fields that others are made of are texts.
ConfType(c) ==
    /\ c = [f \in Fields |-> c[f]]
    /\ c.log_level \in Levels /\ c.daemonize \in BOOLEAN /\ c.submit_only_songs_with_mbid \in BOOLEAN
    /\ c.mpd_port \in Int /\ c.mpd_timeout \in Int
    /\ c.mpd_host \in Texts /\ c.user_home_folder \in Texts

TypeInv ==
    /\ ConfType(conf)
    /\ pc \in {"argv", "lines", "check", "user", "files", "up", "exited", "failed"}
    /\ home \in Homes
    /\ args \in 0..MaxArgs
    /\ asked \in Levels
    /\ text \in Seq(Lines) /\ Len(text) <= MaxLines

\* The settings go to the connection all at once.
HostInv ==
    /\ pc # "up" => mpd = Unset
    /\ HostAsSet

LEMMA DefaultType ==
    ASSUME NEW h \in Texts
    PROVE  ConfType(DefaultConfiguration(h)) /\ DOMAIN DefaultConfiguration(h) = Fields
<1> DEFINE d == DefaultConfiguration(h)
<1>1. DOMAIN d = Fields
  BY DEF DefaultConfiguration, Fields
<1>2. d = [f \in DOMAIN d |-> d[f]]
  BY DEF DefaultConfiguration
<1>3. /\ d.log_level = "undefined" /\ d.daemonize = TRUE /\ d.submit_only_songs_with_mbid = FALSE
      /\ d.mpd_port = 6600 /\ d.mpd_timeout = 15
      /\ d.mpd_host = <<"localhost">> /\ d.user_home_folder = h
  BY DEF DefaultConfiguration
<1>7. d.daemonize \in BOOLEAN /\ d.submit_only_songs_with_mbid \in BOOLEAN
  BY DEF DefaultConfiguration
<1>4. <<"localhost">> \in Texts
  <2>1. "localhost" \in Pieces
    BY DEF Pieces
  <2> QED
    BY <2>1 DEF Texts
<1> HIDE DEF d
<1>5. d = [f \in Fields |-> d[f]]
  BY <1>1, <1>2
<1>6. ConfType(d)
  <2>1. d.log_level \in Levels
    BY <1>3 DEF Levels
  <2>2. d.mpd_port \in Int /\ d.mpd_timeout \in Int /\ d.mpd_host \in Texts /\ d.user_home_folder \in Texts
    BY <1>3, <1>4
  <2> QED
    BY <1>5, <1>7, <2>1, <2>2 DEF ConfType
<1> QED
  BY <1>1, <1>6 DEF d

\* What scrobby is called with, and what it reads.
LEMMA GivenTexts ==
    /\ \A line \in Lines : line \in Texts
    /\ \A h \in Homes : h \in Texts
    /\ UserHome \in Texts
<1>1. \A t \in Seq(STRING) : t \in Seq(Pieces)
  BY DEF Pieces
<1> QED
  BY <1>1, TextsAssumption DEF Texts

\* Setting one field leaves the others.
Sets(c, d, f, v) == d = [c EXCEPT ![f] = v]

LEMMA FieldSet ==
    ASSUME NEW c, NEW d, NEW f, NEW v, Sets(c, d, f, v), ConfType(c), f \in Fields,
           f = "log_level" => v \in Levels,
           f \in {"daemonize", "submit_only_songs_with_mbid"} => v \in BOOLEAN,
           f \in {"mpd_port", "mpd_timeout"} => v \in Int,
           f \in {"mpd_host", "user_home_folder"} => v \in Texts
    PROVE  ConfType(d) /\ d[f] = v /\ \A g \in Fields \ {f} : d[g] = c[g]
<1>1. d = [g \in Fields |-> IF g = f THEN v ELSE c[g]]
  BY DEF ConfType, Sets
<1>2. d = [g \in Fields |-> d[g]] /\ d[f] = v /\ \A g \in Fields \ {f} : d[g] = c[g]
  BY <1>1
<1>3. \A g \in {"log_level", "daemonize", "submit_only_songs_with_mbid", "mpd_port", "mpd_timeout",
                "mpd_host", "user_home_folder"} : g \in Fields
  BY DEF Fields
<1>4. d.log_level \in Levels
  BY <1>2, <1>3 DEF ConfType
<1>5. d.daemonize \in BOOLEAN
  BY <1>2, <1>3 DEF ConfType
<1>6. d.submit_only_songs_with_mbid \in BOOLEAN
  BY <1>2, <1>3 DEF ConfType
<1>7. d.mpd_port \in Int /\ d.mpd_timeout \in Int
  BY <1>2, <1>3 DEF ConfType
<1>8. d.mpd_host \in Texts /\ d.user_home_folder \in Texts
  BY <1>2, <1>3 DEF ConfType
<1>9. ConfType(d)
  BY <1>2, <1>4, <1>5, <1>6, <1>7, <1>8 DEF ConfType
<1> QED
  BY <1>2, <1>9

-----------------------------------------------------------------------------
(* Reading a line *)

LEMMA ValueIsText ==
    ASSUME NEW line \in Texts
    PROVE  GetLineValue(line) \in Texts
<1> DEFINE quotes == {i \in DOMAIN line : line[i] = Quote}
<1>1. DOMAIN line = 1 .. Len(line) /\ Len(line) \in Nat
  BY DEF Texts
<1>2. quotes \subseteq 1 .. Len(line)
  BY <1>1
<1>3. CASE Cardinality(quotes) < 2
  <2>1. GetLineValue(line) = << >>
    BY <1>3 DEF GetLineValue
  <2> QED
    BY <2>1 DEF Texts
<1>4. CASE ~(Cardinality(quotes) < 2)
  <2> HIDE DEF quotes
  <2>1. quotes # {}
    BY <1>4, FS_EmptySet
  <2>2. /\ Min(quotes) \in quotes /\ \A y \in quotes : Min(quotes) <= y
        /\ Max(quotes) \in quotes /\ \A y \in quotes : y <= Max(quotes)
    <3>1. quotes \subseteq Nat
      BY <1>1, <1>2
    <3> QED
      BY <1>1, <1>2, <2>1, <3>1, MinIs, MaxIs
  <2>6. /\ Min(quotes) \in Nat /\ Min(quotes) >= 1 /\ Min(quotes) <= Max(quotes)
        /\ Max(quotes) \in Nat /\ Max(quotes) <= Len(line)
    <3>1. Min(quotes) \in 1 .. Len(line) /\ Max(quotes) \in 1 .. Len(line) /\ Min(quotes) <= Max(quotes)
      BY <1>2, <2>2
    <3> QED
      BY <1>1, <3>1
  <2>3. Min(quotes) # Max(quotes)
    <3> SUFFICES ASSUME Min(quotes) = Max(quotes) PROVE FALSE
      OBVIOUS
    <3>1. quotes = {Min(quotes)}
      <4>1. \A y \in quotes : y = Min(quotes)
        BY <1>1, <1>2, <2>2, <2>6
      <4> QED
        BY <2>2, <4>1
    <3>2. Cardinality(quotes) = 1
      BY <3>1, FS_Singleton
    <3> QED
      BY <1>4, <3>2
  <2>4. Min(quotes) + 1 \in 1 .. Len(line) + 1 /\ Max(quotes) - 1 \in Min(quotes) .. Len(line)
    BY <1>1, <2>6, <2>3
  <2>5. SubSeq(line, Min(quotes) + 1, Max(quotes) - 1) \in Texts
    BY <2>4 DEF Texts
  <2> QED
    BY <1>4, <2>5 DEF GetLineValue, quotes
<1> QED
  BY <1>3, <1>4
\* A line leaves everything, or sets the field of one key to its value.
LEMMA LineReadIs ==
    ASSUME NEW line \in Texts
    PROVE  \/ LineRead(line) = conf
           \/ \E key \in Keys :
                 /\ GetLineValue(line) = << >> => key \in MayBeEmpty
                 /\ LineRead(line) = [conf EXCEPT ![Field(key)] = Setting(key, GetLineValue(line))]
<1> DEFINE found == {i \in DOMAIN KeyOrder : Contains(line, KeyOrder[i])}
           key   == KeyOrder[Min(found)]
           v     == GetLineValue(line)
           sets  == ~(line = << >> \/ line[1] = "#" \/ found = {} \/ (v = << >> /\ key \notin MayBeEmpty))
<1>1. CASE ~sets
  BY <1>1 DEF LineRead
<1>2. CASE sets
  <2>1. LineRead(line) = [conf EXCEPT ![Field(key)] = Setting(key, v)]
    BY <1>2 DEF LineRead
  <2>2. \A i \in DOMAIN KeyOrder : i \in Nat /\ KeyOrder[i] \in Keys
    BY DEF KeyOrder, Keys
  <2>3. found \subseteq Nat /\ found # {} /\ (v = << >> => key \in MayBeEmpty)
    BY <1>2, <2>2
  <2>4. Min(found) \in found
    <3> HIDE DEF found
    <3> QED
      BY <2>3, MinIs
  <2>5. key \in Keys
    BY <2>2, <2>4
  <2> HIDE DEF found, key, v
  <2>6. (v = << >> => key \in MayBeEmpty) /\ LineRead(line) = [conf EXCEPT ![Field(key)] = Setting(key, v)]
    BY <2>1, <2>3
  <2> QED
    BY <2>5, <2>6 DEF v
<1> QED
  BY <1>1, <1>2

\* Each setting is one its field may have.
LEMMA SettingType ==
    ASSUME ConfType(conf), NEW key \in Keys, NEW v \in Texts
    PROVE  /\ Field(key) \in Fields
           /\ Field(key) = "log_level" => key = "log_level" /\ Setting(key, v) \in Levels
           /\ Field(key) \in {"daemonize", "submit_only_songs_with_mbid"} => Setting(key, v) \in BOOLEAN
           /\ Field(key) \in {"mpd_port", "mpd_timeout"} => Setting(key, v) \in Int
           /\ Field(key) \in {"mpd_host", "user_home_folder"} => Setting(key, v) \in Texts
<1>1. Field(key) \in Fields
  BY DEF Field, Fields, Keys
<1>2. Field(key) = "log_level" => key = "log_level"
  BY DEF Field
<1>3. Setting("log_level", v) \in Levels
  BY DEF Setting, Level, IntoLogLevel, ConfType, Levels
<1>4. Field(key) \in {"daemonize", "submit_only_songs_with_mbid"} => key = "submit_only_songs_with_mbid"
  BY DEF Field, Keys
<1>5. Setting("submit_only_songs_with_mbid", v) \in BOOLEAN
  BY DEF Setting
<1>6. Field(key) \in {"mpd_port", "mpd_timeout"} => key \in {"mpd_port", "mpd_timeout"}
  BY DEF Field
<1>7. key \in {"mpd_port", "mpd_timeout"} => Setting(key, v) \in Int
  BY TextsAssumption DEF Setting, StrToInt
<1>8. Field(key) \in {"mpd_host", "user_home_folder"} => key = "mpd_host"
  BY DEF Field, Keys
<1>9. Setting("mpd_host", v) = v
  BY DEF Setting
<1> QED
  BY <1>1, <1>2, <1>3, <1>4, <1>5, <1>6, <1>7, <1>8, <1>9

\* A line, in a file of any length, sets at most one field, and gives the level
\* only where none has been given.
LEMMA LineSets ==
    ASSUME ConfType(conf), NEW line \in Lines
    PROVE  /\ ConfType(LineRead(line))
           /\ LineRead(line).user_home_folder = conf.user_home_folder
           /\ conf.log_level # "undefined" => LineRead(line).log_level = conf.log_level
<1>1. line \in Texts /\ GetLineValue(line) \in Texts
  BY GivenTexts, ValueIsText
<1>2. CASE LineRead(line) = conf
  BY <1>2
<1>3. ASSUME NEW key \in Keys, LineRead(line) = [conf EXCEPT ![Field(key)] = Setting(key, GetLineValue(line))]
      PROVE  /\ ConfType(LineRead(line))
             /\ LineRead(line).user_home_folder = conf.user_home_folder
             /\ conf.log_level # "undefined" => LineRead(line).log_level = conf.log_level
  <2> DEFINE v == Setting(key, GetLineValue(line))
             d == [conf EXCEPT ![Field(key)] = v]
  <2>1. /\ Field(key) \in Fields
        /\ Field(key) = "log_level" => key = "log_level" /\ v \in Levels
        /\ Field(key) \in {"daemonize", "submit_only_songs_with_mbid"} => v \in BOOLEAN
        /\ Field(key) \in {"mpd_port", "mpd_timeout"} => v \in Int
        /\ Field(key) \in {"mpd_host", "user_home_folder"} => v \in Texts
    BY <1>1, SettingType
  <2>2. ConfType(d) /\ d[Field(key)] = v /\ \A g \in Fields \ {Field(key)} : d[g] = conf[g]
    <3>1. Sets(conf, d, Field(key), v)
      BY DEF Sets
    <3> HIDE DEF v, d
    <3> QED
      BY <2>1, <3>1, FieldSet
  <2>3. Field(key) # "user_home_folder"
    BY DEF Field, Keys
  <2>4. key = "log_level" /\ conf.log_level # "undefined" => v = conf.log_level
    BY DEF Setting, Level
  <2>5. "user_home_folder" \in Fields /\ "log_level" \in Fields
    BY DEF Fields
  <2> HIDE DEF v
  <2> HIDE DEF d
  <2>6. d.user_home_folder = conf.user_home_folder
    BY <2>2, <2>3, <2>5
  <2>7. conf.log_level # "undefined" => d.log_level = conf.log_level
    BY <2>1, <2>2, <2>4, <2>5
  <2> QED
    BY <1>3, <2>2, <2>6, <2>7 DEF d, v
<1> QED
  BY <1>1, <1>2, <1>3, LineReadIs
-----------------------------------------------------------------------------
(* The steps of main *)

\* How each step changes the settings.
LEMMA ArgumentSets ==
    ASSUME TypeInv, ParseArgument
    PROVE  /\ pc = "argv" /\ UNCHANGED <<pc, mpd, home, text>> /\ args' \in 0..MaxArgs
           /\ ConfType(conf') /\ \A f \in Fields \ {"log_level", "daemonize", "file_config"} : conf'[f] = conf[f]
           /\ \/ asked' = asked /\ conf'.log_level = conf.log_level
              \/ asked' \in Levels \ {"undefined"} /\ conf'.log_level = asked'
<1>1. /\ pc = "argv" /\ UNCHANGED <<pc, mpd, home, text>>
      /\ args < MaxArgs /\ args' = args + 1 /\ args \in 0..MaxArgs /\ ConfType(conf)
  BY DEF ParseArgument, TypeInv
<1>2. PICK arg \in (Options \cup Arguments) \ {<<"--help">>, <<"--version">>} :
        /\ conf' = Parsed(arg)
        /\ asked' = CASE arg = <<"--quiet">>   -> "none"
                      [] arg = <<"--verbose">> -> "verbose"
                      [] OTHER                 -> asked
  BY DEF ParseArgument
<1>3. \A f \in {"log_level", "daemonize", "file_config"} : f \in Fields
  BY DEF Fields
<1>4. \A l \in {"none", "verbose"} : l \in Levels \ {"undefined"}
  BY DEF Levels
<1>5. ASSUME NEW f \in {"log_level", "daemonize", "file_config"}, NEW v, Sets(conf, conf', f, v),
             f = "log_level" => v \in Levels, f = "daemonize" => v \in BOOLEAN
      PROVE  /\ ConfType(conf') /\ conf'[f] = v /\ \A g \in Fields \ {f} : conf'[g] = conf[g]
  <2>1. f \in Fields /\ f \notin {"mpd_port", "mpd_timeout", "mpd_host", "user_home_folder", "submit_only_songs_with_mbid"}
    BY <1>3
  <2>2. /\ f \in Fields
        /\ f = "log_level" => v \in Levels
        /\ f \in {"daemonize", "submit_only_songs_with_mbid"} => v \in BOOLEAN
        /\ f \in {"mpd_port", "mpd_timeout"} => v \in Int
        /\ f \in {"mpd_host", "user_home_folder"} => v \in Texts
    BY <1>5, <2>1
  <2>3. ConfType(conf) /\ Sets(conf, conf', f, v)
    BY <1>1, <1>5
  <2> QED
    BY <2>2, <2>3, FieldSet
<1>6. CASE arg = <<"--no-daemon">>
  <2>1. conf' = [conf EXCEPT !["daemonize"] = FALSE]
    BY <1>2, <1>6 DEF Parsed
  <2>5. asked' = asked
    BY <1>2, <1>6
  <2>2. PICK v \in BOOLEAN : Sets(conf, conf', "daemonize", v)
    BY <2>1 DEF Sets
  <2>3. ConfType(conf') /\ \A g \in Fields \ {"daemonize"} : conf'[g] = conf[g]
    BY <1>1, <1>3, <1>5, <2>2
  <2>4. conf'.log_level = conf.log_level
    BY <1>3, <2>3
  <2> QED
    BY <1>1, <2>3, <2>4, <2>5
<1>7. CASE arg = <<"--quiet">>
  <2>1. Sets(conf, conf', "log_level", "none") /\ asked' = "none"
    BY <1>2, <1>7 DEF Parsed, Sets
  <2> QED
    BY <1>1, <1>3, <1>4, <1>5, <2>1
<1>8. CASE arg = <<"--verbose">>
  <2>1. Sets(conf, conf', "log_level", "verbose") /\ asked' = "verbose"
    BY <1>2, <1>8 DEF Parsed, Sets
  <2> QED
    BY <1>1, <1>3, <1>4, <1>5, <2>1
<1>9. CASE arg \notin {<<"--no-daemon">>, <<"--quiet">>, <<"--verbose">>}
  <2>1. Sets(conf, conf', "file_config", arg) /\ asked' = asked
    BY <1>2, <1>9 DEF Parsed, Sets
  <2> QED
    BY <1>1, <1>3, <1>5, <2>1
<1> QED
  BY <1>6, <1>7, <1>8, <1>9

LEMMA CheckSets ==
    ASSUME TypeInv, CheckSettings
    PROVE  /\ pc = "check" /\ pc' \in {"user", "failed"} /\ UNCHANGED <<mpd, home, args, asked, text>>
           /\ ConfType(conf') /\ \A f \in Fields \ {"log_level"} : conf'[f] = conf[f]
           /\ conf'.log_level = IF conf.log_level = "undefined" THEN "info" ELSE conf.log_level
<1> DEFINE l == IF conf.log_level = "undefined" THEN "info" ELSE conf.log_level
<1>1. ConfType(conf) /\ l \in Levels /\ "log_level" \in Fields
  BY DEF TypeInv, ConfType, Levels, Fields
<1>2. Sets(conf, conf', "log_level", l)
  BY DEF CheckSettings, Sets
<1> HIDE DEF l
<1>3. ConfType(conf') /\ conf'["log_level"] = l /\ \A f \in Fields \ {"log_level"} : conf'[f] = conf[f]
  BY <1>1, <1>2, FieldSet
<1> QED
  BY <1>3 DEF CheckSettings, l

LEMMA UserSets ==
    ASSUME TypeInv, ChangeToUser
    PROVE  /\ pc = "user" /\ pc' \in {"files", "failed"} /\ UNCHANGED <<mpd, home, args, asked, text>>
           /\ ConfType(conf') /\ \A f \in Fields \ {"user_home_folder"} : conf'[f] = conf[f]
<1>1. ConfType(conf) /\ UserHome \in Texts /\ "user_home_folder" \in Fields
  BY GivenTexts DEF TypeInv, Fields
<1>2. conf' = conf \/ Sets(conf, conf', "user_home_folder", UserHome)
  BY DEF ChangeToUser, Sets
<1>3. ConfType(conf') /\ \A f \in Fields \ {"user_home_folder"} : conf'[f] = conf[f]
  BY <1>1, <1>2, FieldSet
<1> QED
  BY <1>3 DEF ChangeToUser

\* The steps that leave the settings alone.
Moves == Help \/ OpenConfiguration \/ NoConfiguration \/ EndOfFile \/ KeepUser \/ SetUp \/ FilesFail \/ UNCHANGED vars

LEMMA MovesKeep ==
    ASSUME TypeInv, Moves
    PROVE  /\ UNCHANGED <<conf, home, args, asked, text>> /\ pc' \in {"lines", "check", "files", "up", "exited", "failed", pc}
           /\ pc \in {"argv", "lines", "check", "user"} \/ pc' \notin {"argv", "lines", "check", "user"}
           /\ pc' \in {"argv", "lines"} => pc \in {"argv", "lines"}
           /\ pc' = "argv" => pc = "argv"
BY DEF Moves, Help, OpenConfiguration, NoConfiguration, EndOfFile, KeepUser, SetUp, FilesFail, vars, TypeInv

LEMMA TypeInit == Init => TypeInv
<1> SUFFICES ASSUME Init PROVE TypeInv
  OBVIOUS
<1>1. ConfType(conf)
  BY GivenTexts, DefaultType DEF Init
<1>2. text \in Seq(Lines) /\ Len(text) <= MaxLines
  BY DEF Init
<1> QED
  BY <1>1, <1>2 DEF Init, TypeInv, Levels

LEMMA TypeStep == TypeInv /\ [Next]_vars => TypeInv'
<1> SUFFICES ASSUME TypeInv, [Next]_vars PROVE TypeInv'
  OBVIOUS
<1>1. CASE ParseArgument
  BY <1>1, ArgumentSets DEF TypeInv
<1>2. CASE ReadLine
  <2>1. PICK line \in Lines : conf' = LineRead(line) /\ text' = Append(text, line)
    BY <1>2 DEF ReadLine
  <2>2. ConfType(conf')
    BY <2>1, LineSets DEF TypeInv
  <2>3. text' \in Seq(Lines) /\ Len(text') <= MaxLines
    BY <1>2, <2>1 DEF ReadLine, TypeInv
  <2> QED
    BY <1>2, <2>2, <2>3 DEF ReadLine, TypeInv
<1>3. CASE CheckSettings
  BY <1>3, CheckSets DEF TypeInv
<1>4. CASE ChangeToUser
  BY <1>4, UserSets DEF TypeInv
<1>5. CASE Moves
  BY <1>5, MovesKeep DEF TypeInv
<1> QED
  BY <1>1, <1>2, <1>3, <1>4, <1>5 DEF Next, Moves

LEMMA TypeInvariance == Spec => []TypeInv
BY TypeInit, TypeStep, PTL DEF Spec

\* TypeOK: no line and no argument gives a setting a value of another type.
THEOREM ConfigurationTypeCorrect == Spec => []TypeOK
<1>1. TypeInv => TypeOK
  <2> SUFFICES ASSUME TypeInv PROVE TypeOK
    OBVIOUS
  <2>1. DOMAIN conf = Fields
    BY DEF TypeInv, ConfType
  <2>2. DOMAIN DefaultConfiguration(home) = Fields
    BY GivenTexts, DefaultType DEF TypeInv
  <2> QED
    BY <2>1, <2>2 DEF TypeInv, ConfType, TypeOK
<1> QED
  BY <1>1, TypeInvariance, PTL

-----------------------------------------------------------------------------
(* The command line *)


LEMMA LevelStep == TypeInv /\ ArgumentsPrevail /\ [Next]_vars => ArgumentsPrevail'
<1> SUFFICES ASSUME TypeInv, ArgumentsPrevail, [Next]_vars PROVE ArgumentsPrevail'
  OBVIOUS
<1> USE DEF ArgumentsPrevail
<1>1. CASE ParseArgument
  BY <1>1, ArgumentSets
<1>2. CASE ReadLine
  BY <1>2, LineSets DEF ReadLine, TypeInv
<1>3. CASE CheckSettings
  BY <1>3, CheckSets
<1>4. CASE ChangeToUser
  <2>1. "log_level" \in Fields \ {"user_home_folder"}
    BY DEF Fields
  <2> QED
    BY <1>4, <2>1, UserSets
<1>5. CASE Moves
  BY <1>5, MovesKeep
<1> QED
  BY <1>1, <1>2, <1>3, <1>4, <1>5 DEF Next, Moves

\* ArgumentsPrevail: a level asked for by --quiet or --verbose is the one scrobby
\* logs with, whatever the files say.
THEOREM CommandLinePrevails == Spec => []ArgumentsPrevail
<1>1. Init => ArgumentsPrevail
  BY DEF Init, ArgumentsPrevail
<1> QED
  BY <1>1, LevelStep, TypeInvariance, PTL DEF Spec
-----------------------------------------------------------------------------
(* The host *)

LEMMA TextsConcat ==
    ASSUME NEW s \in Texts, NEW t \in Texts, NEW u \in Texts
    PROVE  (s \o t) \o u = s \o (t \o u)
  BY ConcatAssociative DEF Texts

\* SetHostname cuts a setting at its first "@".
LEMMA HostIs ==
    ASSUME mpd = Unset, NEW host \in Texts
    PROVE  LET m == Host(host)
           IN  /\ m = [f \in {"host", "password", "port", "timeout"} |-> m[f]]
               /\ IF Contains(host, "@")
                  THEN m.password \o <<"@">> \o m.host = host /\ ~Contains(m.password, "@")
                  ELSE m.host = host /\ m.password = << >>
<1> DEFINE ats == {i \in 1 .. Len(host) : host[i] = "@"}
           m   == Host(host)
<1>1. Host(host) = IF ats = {} THEN [mpd EXCEPT !.host = host]
                   ELSE [mpd EXCEPT !.password = SubSeq(host, 1, Min(ats) - 1),
                                    !.host = SubSeq(host, Min(ats) + 1, Len(host))]
  <2>1. ats # {} => Min(ats) # 0
    <3>1. ats \subseteq Nat /\ 0 \notin ats
      BY DEF Texts
    <3> HIDE DEF ats
    <3> QED
      BY <3>1, MinIs
  <2>2. SelectInSeq(host, LAMBDA piece : piece = "@") = IF ats # {} THEN Min(ats) ELSE 0
    BY DEF SelectInSeq
  <2> QED
    BY <2>1, <2>2 DEF Host
<1>2. Contains(host, "@") <=> ats # {}
  BY DEF Contains
<1>3. CASE ats = {}
  BY <1>1, <1>2, <1>3 DEF Unset
<1>4. CASE ats # {}
  <2>1. Min(ats) \in 1 .. Len(host) /\ host[Min(ats)] = "@" /\ \A i \in 1 .. Min(ats) - 1 : host[i] # "@"
    <3>1. Len(host) \in Nat /\ ats \subseteq Nat /\ \A i \in 1 .. Len(host) : host[i] = "@" => i \in ats
      BY DEF Texts
    <3>2. Min(ats) \in ats /\ \A i \in ats : Min(ats) <= i
      <4> HIDE DEF ats
      <4> QED
        BY <1>4, <3>1, MinIs
    <3>3. Min(ats) \in 1 .. Len(host) /\ host[Min(ats)] = "@"
      BY <3>2
    <3> HIDE DEF ats
    <3>4. ASSUME NEW i \in 1 .. Min(ats) - 1 PROVE host[i] # "@"
      <4>1. i \in 1 .. Len(host) /\ ~(Min(ats) <= i)
        BY <3>1, <3>3
      <4> QED
        BY <3>1, <3>2, <4>1
    <3> QED
      BY <3>3, <3>4
  <2> DEFINE at == Min(ats)
             before == SubSeq(host, 1, at - 1)
             after == SubSeq(host, at + 1, Len(host))
  <2>2. m.password = before /\ m.host = after /\ m = [f \in {"host", "password", "port", "timeout"} |-> m[f]]
    <3>1. m = [mpd EXCEPT !.password = before, !.host = after]
      BY <1>1, <1>4
    <3>2. mpd = [f \in {"host", "password", "port", "timeout"} |-> mpd[f]]
      BY DEF Unset
    <3> HIDE DEF m, before, after
    <3> QED
      BY <3>1, <3>2
  <2> HIDE DEF ats, m
  <2>3. Len(host) \in Nat /\ at \in 1 .. Len(host) /\ host[at] = "@"
    BY <2>1 DEF Texts
  <2> HIDE DEF at
  <2>4. SubSeq(host, at, Len(host)) = <<host[at]>> \o after
    BY <2>3, SubSeqRecursiveFirst DEF Texts
  <2>5. before \o SubSeq(host, at, Len(host)) = host
    BY <2>3 DEF Texts
  <2>6. before \in Texts /\ after \in Texts /\ <<host[at]>> \in Texts /\ Len(before) = at - 1
        /\ \A i \in 1 .. at - 1 : before[i] = host[i]
    BY <2>3 DEF Texts
  <2>7. before \o <<"@">> \o after = host
    <3>1. (before \o <<host[at]>>) \o after = before \o (<<host[at]>> \o after)
      <4> HIDE DEF before, after
      <4> QED
        BY <2>6, TextsConcat
    <3> QED
      BY <2>3, <2>4, <2>5, <3>1
  <2>8. ~Contains(before, "@")
    BY <2>1, <2>3, <2>6 DEF Contains, at
  <2> QED
    BY <1>2, <1>4, <2>2, <2>7, <2>8 DEF m
<1> QED
  BY <1>3, <1>4

LEMMA HostStep == TypeInv /\ HostInv /\ [Next]_vars => HostInv'
<1> SUFFICES ASSUME TypeInv, HostInv, [Next]_vars PROVE HostInv'
  OBVIOUS
<1> USE DEF HostInv, HostAsSet
<1>1. CASE SetUp
  <2>1. mpd = Unset /\ conf.mpd_host \in Texts /\ conf' = conf /\ pc' = "up"
    BY <1>1 DEF SetUp, TypeInv, ConfType
  <2> DEFINE m == Host(conf.mpd_host)
  <2>2. /\ m = [f \in {"host", "password", "port", "timeout"} |-> m[f]]
        /\ IF Contains(conf.mpd_host, "@")
           THEN m.password \o <<"@">> \o m.host = conf.mpd_host /\ ~Contains(m.password, "@")
           ELSE m.host = conf.mpd_host /\ m.password = << >>
    BY <2>1, HostIs
  <2>3. mpd' = [m EXCEPT !.port = conf.mpd_port, !.timeout = conf.mpd_timeout]
    BY <1>1 DEF SetUp
  <2> HIDE DEF m
  <2>4. mpd'.port = conf.mpd_port /\ mpd'.timeout = conf.mpd_timeout /\ mpd'.host = m.host /\ mpd'.password = m.password
    BY <2>2, <2>3
  <2> QED
    BY <2>1, <2>2, <2>4
<1>2. CASE UNCHANGED vars
  BY <1>2 DEF vars
<1>3. CASE ParseArgument \/ ReadLine \/ CheckSettings \/ ChangeToUser
           \/ Help \/ OpenConfiguration \/ NoConfiguration \/ EndOfFile \/ KeepUser \/ FilesFail
  <2>1. pc # "up" /\ pc' # "up" /\ mpd' = mpd
    BY <1>3 DEF ParseArgument, ReadLine, CheckSettings, ChangeToUser, Help, OpenConfiguration, NoConfiguration, EndOfFile,
       KeepUser, FilesFail
  <2> QED
    BY <2>1
<1> QED
  BY <1>1, <1>2, <1>3 DEF Next

\* HostAsSet: MPD is looked for where mpd_host says, with the password that it
\* says, however many "@" there are in it.
THEOREM HostIsAsSet == Spec => []HostAsSet
<1>1. Init => HostInv
  BY DEF Init, HostInv, HostAsSet
<1>2. HostInv => HostAsSet
  BY DEF HostInv
<1> QED
  BY <1>1, <1>2, HostStep, TypeInvariance, PTL DEF Spec
-----------------------------------------------------------------------------
(* The file as it is written *)

\* A file in which every line is empty, a comment, or like the example.
Plain(t) == \A i \in DOMAIN t : t[i] = << >> \/ t[i][1] = "#" \/ AsExample(t[i])

\* Whether a line sets a key: a member of Setters is the number of such a line.
SetsKey(line, key) == line # << >> /\ line[1] = key /\ (Value(line) # << >> \/ key \in MayBeEmpty)

LEMMA QuoteIsNoKey == Quote \notin Keys
BY Zenon DEF Quote, Keys

\* The places of a line of the example.
LEMMA ExampleIs ==
    ASSUME NEW line \in Texts, AsExample(line)
    PROVE  /\ Len(line) \in Nat /\ Len(line) >= 4 /\ line # << >> /\ line[1] \in Keys
           /\ line[2] = "=" /\ line[3] = Quote /\ line[Len(line)] = Quote
           /\ \A i \in 4 .. Len(line) - 1 : line[i] \notin Keys \cup {Quote}
           /\ Value(line) \in Texts
<1> DEFINE n == Len(line)
           v == SubSeq(line, 4, n - 1)
<1>1. n \in Nat /\ n >= 4 /\ line # << >> /\ line[1] \in Keys
  BY DEF AsExample, Texts
<1>2. v \in Texts /\ Len(v) = n - 4
  <2> HIDE DEF n
  <2>1. n - 1 \in 4 - 1 .. Len(line) /\ 4 \in 1 .. Len(line) + 1 /\ (n - 1) - 4 + 1 = n - 4
    BY <1>1 DEF n
  <2> QED
    BY <2>1, SubSeqProperties DEF Texts
<1>3. line = <<line[1], "=", Quote>> \o v \o <<Quote>>
  BY DEF AsExample, Written
<1>4. line[1] \in Pieces /\ line[n] \in Pieces
  BY <1>1 DEF Texts
<1> HIDE DEF v, n
<1>5. ASSUME NEW k, NEW w \in Seq(Pieces), NEW x, x = <<k, "=", Quote>> \o w \o <<Quote>>
      PROVE  x[2] = "=" /\ x[3] = Quote /\ x[Len(w) + 4] = Quote
  <2> DEFINE h == <<k, "=", Quote>>
             q == <<Quote>>
             S == Pieces \cup {k, "=", Quote}
  <2>1. /\ h \in Seq(S) /\ Len(h) = 3 /\ h[2] = "=" /\ h[3] = Quote
        /\ w \in Seq(S) /\ Len(w) \in Nat
        /\ q \in Seq(S) /\ Len(q) = 1 /\ q[1] = Quote
    OBVIOUS
  <2>2. x = (h \o w) \o q
    BY <1>5
  <2> HIDE DEF h, q, S
  <2> DEFINE hw == h \o w
  <2>3. hw \in Seq(S) /\ Len(hw) = 3 + Len(w) /\ \A i \in {2, 3} : hw[i] = h[i]
    <3>1. \A i \in {2, 3} : i \in 1 .. Len(h) + Len(w) /\ i <= Len(h)
      BY <2>1
    <3>2. hw \in Seq(S) /\ Len(hw) = Len(h) + Len(w)
          /\ \A i \in 1 .. Len(h) + Len(w) : hw[i] = IF i <= Len(h) THEN h[i] ELSE w[i - Len(h)]
      BY <2>1, ConcatProperties
    <3> QED
      BY <2>1, <3>1, <3>2
  <2> HIDE DEF hw
  <2>4. x[2] = hw[2] /\ x[3] = hw[3] /\ x[Len(w) + 4] = q[1]
    <3>1. \A i \in 1 .. Len(hw) + Len(q) : x[i] = IF i <= Len(hw) THEN hw[i] ELSE q[i - Len(hw)]
      <4>1. x = hw \o q
        BY <2>2 DEF hw
      <4> QED
        BY <2>1, <2>3, <4>1, ConcatProperties
    <3>2. /\ 2 \in 1 .. Len(hw) + Len(q) /\ 2 <= Len(hw) /\ 3 \in 1 .. Len(hw) + Len(q) /\ 3 <= Len(hw)
          /\ Len(w) + 4 \in 1 .. Len(hw) + Len(q) /\ ~(Len(w) + 4 <= Len(hw)) /\ (Len(w) + 4) - Len(hw) = 1
      BY <2>1, <2>3
    <3> QED
      BY <3>1, <3>2
  <2> QED
    BY <2>1, <2>3, <2>4
<1>6. n - 4 \in Nat /\ (n - 4) + 4 = n
  BY <1>1
<1>7. line[2] = "=" /\ line[3] = Quote /\ line[n] = Quote
  <2>1. line[(n - 4) + 4] = Quote /\ line[2] = "=" /\ line[3] = Quote
    BY <1>2, <1>3, <1>5, <1>6 DEF Texts
  <2> QED
    BY <1>6, <2>1
<1> QED
  BY <1>1, <1>2, <1>7 DEF AsExample, Value, v, n

\* The value of such a line is what is between its two quotes.
LEMMA ExampleValue ==
    ASSUME NEW line \in Texts, AsExample(line)
    PROVE  GetLineValue(line) = Value(line)
<1> DEFINE n == Len(line)
           quotes == {i \in DOMAIN line : line[i] = Quote}
<1>1. /\ n \in Nat /\ n >= 4 /\ line[1] \in Keys
      /\ line[2] = "=" /\ line[3] = Quote /\ line[n] = Quote
      /\ \A i \in 4 .. n - 1 : line[i] # Quote
  BY ExampleIs
<1>2. DOMAIN line = 1 .. n
  BY DEF Texts
<1> HIDE DEF n
<1>3. quotes = {3, n}
  <2>1. Quote \notin Keys
    BY QuoteIsNoKey
  <2>2. \A i \in 1 .. n : i = 1 \/ i = 2 \/ i = 3 \/ i \in 4 .. n - 1 \/ i = n
    BY <1>1
  <2>3. line[1] # Quote /\ line[2] # Quote
    BY <1>1, <2>1, Zenon DEF Quote
  <2>5. \A i \in 1 .. n : line[i] = Quote <=> (i = 3 \/ i = n)
    BY <1>1, <2>2, <2>3
  <2>4. 3 \in 1 .. n /\ n \in 1 .. n
    BY <1>1
  <2> QED
    BY <1>2, <2>4, <2>5
<1> HIDE DEF quotes
<1>4. Cardinality(quotes) = 2
  <2>1. IsFiniteSet({3}) /\ Cardinality({3}) = 1
    BY FS_Singleton
  <2>4. n \notin {3}
    BY <1>1
  <2>5. Cardinality({3} \cup {n}) = Cardinality({3}) + 1
    BY <2>1, <2>4, FS_AddElement
  <2>2. Cardinality({3} \cup {n}) = 2
    BY <2>1, <2>5
  <2>3. quotes = {3} \cup {n}
    BY <1>3
  <2> QED
    BY <2>2, <2>3
<1>5. Min(quotes) = 3 /\ Max(quotes) = n
  <2>1. quotes \subseteq Nat /\ 3 \in quotes /\ n \in quotes /\ \A y \in quotes : 3 <= y /\ y <= n
    BY <1>1, <1>3
  <2>2. Min(quotes) = 3
    BY <2>1, MinUnique
  <2>3. Max(quotes) = n
    BY <2>1, MaxUnique
  <2> QED
    BY <2>2, <2>3
<1>6. GetLineValue(line) = SubSeq(line, Min(quotes) + 1, Max(quotes) - 1)
  <2>1. GetLineValue(line) = IF Cardinality(quotes) < 2 THEN << >> ELSE SubSeq(line, Min(quotes) + 1, Max(quotes) - 1)
    BY DEF GetLineValue, quotes
  <2> QED
    BY <1>4, <2>1
<1> QED
  BY <1>5, <1>6 DEF Value, n

\* Such a line is about its own key, and no other.
LEMMA ExampleRead ==
    ASSUME NEW line \in Texts, AsExample(line)
    PROVE  LineRead(line) = IF SetsKey(line, line[1])
                            THEN [conf EXCEPT ![Field(line[1])] = Setting(line[1], Value(line))] ELSE conf
<1> DEFINE found == {i \in DOMAIN KeyOrder : Contains(line, KeyOrder[i])}
<1>1. /\ Len(line) \in Nat /\ Len(line) >= 4 /\ line # << >> /\ line[1] \in Keys
      /\ line[2] = "=" /\ line[3] = Quote /\ line[Len(line)] = Quote
      /\ \A i \in 4 .. Len(line) - 1 : line[i] \notin Keys
  BY ExampleIs
<1>2. PICK k \in DOMAIN KeyOrder : KeyOrder[k] = line[1]
  BY <1>1 DEF Keys, KeyOrder
<1>3. DOMAIN KeyOrder \subseteq Nat /\ \A i \in DOMAIN KeyOrder : KeyOrder[i] \in Keys /\ (KeyOrder[i] = KeyOrder[k] => i = k)
  <2>1. DOMAIN KeyOrder = 1 .. 12
    BY DEF KeyOrder
  <2>2. \A i \in 1 .. 12 : KeyOrder[i] \in Keys
    BY DEF KeyOrder, Keys
  <2>3. \A i, j \in 1 .. 12 : KeyOrder[i] = KeyOrder[j] => i = j
    BY DEF KeyOrder
  <2> QED
    BY <2>1, <2>2, <2>3
<1>4. \A key \in Keys : Contains(line, key) <=> key = line[1]
  <2>1. "=" \notin Keys /\ Quote \notin Keys
    BY QuoteIsNoKey DEF Keys
  <2>2. \A i \in 1 .. Len(line) : i = 1 \/ i = 2 \/ i = 3 \/ i \in 4 .. Len(line) - 1 \/ i = Len(line)
    BY <1>1
  <2>3. \A i \in 1 .. Len(line) : line[i] \in Keys => i = 1
    BY <1>1, <2>1, <2>2
  <2>4. 1 \in 1 .. Len(line)
    BY <1>1
  <2> QED
    BY <2>3, <2>4 DEF Contains
<1>5. found = {k}
  BY <1>2, <1>3, <1>4
<1>6. Min(found) = k
  <2> HIDE DEF found
  <2>1. k \in Nat /\ found \subseteq Nat /\ k \in found /\ \A y \in found : k <= y
    BY <1>3, <1>5
  <2> QED
    BY <2>1, MinUnique
<1>7. KeyOrder[Min(found)] = line[1] /\ found # {}
  BY <1>2, <1>5, <1>6
<1>8. line[1] # "#"
  BY <1>1 DEF Keys
<1>9. GetLineValue(line) = Value(line)
  BY ExampleValue
<1> HIDE DEF found
<1>10. LineRead(line) =
          IF \/ line = << >> \/ line[1] = "#" \/ found = {}
             \/ Value(line) = << >> /\ line[1] \notin MayBeEmpty
          THEN conf
          ELSE [conf EXCEPT ![Field(line[1])] = Setting(line[1], Value(line))]
  BY <1>7, <1>9 DEF LineRead, found
<1> QED
  BY <1>1, <1>7, <1>8, <1>10 DEF SetsKey
SettersOf(t, key) == {i \in DOMAIN t : SetsKey(t[i], key)}

\* Setters, Meant and Stands of any settings and file.
MeantBy(h, key, v) ==
    CASE key \in {"mpd_port", "mpd_timeout"} -> IF v \in DOMAIN Numerals THEN Numerals[v] ELSE 0
      [] key \in {"log_file", "pid_file", "cache_file"} -> IF v[1] = "~" THEN h \o Tail(v) ELSE v
      [] key = "log_level" -> IF v \in {<<l>> : l \in Levels \ {"undefined"}} THEN v[1] ELSE "info"
      [] OTHER -> v

YesTexts == {<<"1">>, <<"true">>, <<"yes">>}

StandsFor(c, h, a, t, key) ==
    LET setters == SettersOf(t, key)
    IN  CASE key = "submit_only_songs_with_mbid" ->
                c[Field(key)] = ({Value(t[i]) : i \in setters} \cap YesTexts # {})
          [] key = "log_level" ->
                \/ a # "undefined"
                \/ setters # {} /\ c[Field(key)] = MeantBy(h, key, Value(t[Min(setters)]))
                \/ setters = {} /\ c[Field(key)] \in {"undefined", "info"}
          [] OTHER ->
                c[Field(key)] = IF setters = {} THEN DefaultConfiguration(h)[Field(key)]
                                ELSE MeantBy(h, key, Value(t[Max(setters)]))

LEMMA StandsIs ==
    ASSUME NEW key \in Keys
    PROVE  /\ Setters(key) = SettersOf(text, key) /\ Setters(key)' = SettersOf(text', key)
           /\ Stands(key) <=> StandsFor(conf, home, asked, text, key)
           /\ Stands(key)' <=> StandsFor(conf', home', asked', text', key)
<1>1. Setters(key) = SettersOf(text, key) /\ Setters(key)' = SettersOf(text', key)
  BY DEF Setters, SettersOf, SetsKey, MayBeEmpty
<1>2. key = "submit_only_songs_with_mbid" \/ key = "log_level" => Field(key) = key
  BY DEF Field
<1>3. Stands(key) <=> StandsFor(conf, home, asked, text, key)
  BY <1>1, <1>2 DEF Stands, StandsFor, Given, Meant, MeantBy, YesTexts
<1>4. Stands(key)' <=> StandsFor(conf', home', asked', text', key)
  BY <1>1, <1>2 DEF Stands, StandsFor, Given, Meant, MeantBy, YesTexts
<1> QED
  BY <1>1, <1>3, <1>4

\* The numbers of the lines that set a key, with one line more.
LEMMA SettersGrow ==
    ASSUME NEW t \in Seq(Lines), NEW line \in Lines, NEW key
    PROVE  /\ SettersOf(t, key) \subseteq 1 .. Len(t) /\ Len(t) \in Nat
           /\ SettersOf(Append(t, line), key) = IF SetsKey(line, key) THEN SettersOf(t, key) \cup {Len(t) + 1}
                                                ELSE SettersOf(t, key)
           /\ Append(t, line)[Len(t) + 1] = line /\ \A i \in 1 .. Len(t) : Append(t, line)[i] = t[i]
           /\ Plain(Append(t, line)) => Plain(t) /\ (line = << >> \/ line[1] = "#" \/ AsExample(line))
<1> DEFINE u == Append(t, line)
<1>1. /\ Len(t) \in Nat /\ DOMAIN t = 1 .. Len(t) /\ DOMAIN u = 1 .. Len(t) + 1
      /\ u[Len(t) + 1] = line /\ \A i \in 1 .. Len(t) : u[i] = t[i]
  OBVIOUS
<1>2. \A i : i \in 1 .. Len(t) + 1 <=> i \in 1 .. Len(t) \/ i = Len(t) + 1
  BY <1>1
<1>3. Len(t) + 1 \notin 1 .. Len(t)
  BY <1>1
<1>4. SettersOf(u, key) = IF SetsKey(line, key) THEN SettersOf(t, key) \cup {Len(t) + 1} ELSE SettersOf(t, key)
  <2>1. \A i : i \in SettersOf(u, key) <=> i \in SettersOf(t, key) \/ (i = Len(t) + 1 /\ SetsKey(line, key))
    BY <1>1, <1>2, <1>3 DEF SettersOf
  <2> QED
    BY <2>1
<1>5. SettersOf(t, key) \subseteq 1 .. Len(t)
  BY <1>1 DEF SettersOf
<1>6. Plain(u) => Plain(t) /\ (line = << >> \/ line[1] = "#" \/ AsExample(line))
  BY <1>1, <1>2 DEF Plain
<1> QED
  BY <1>1, <1>4, <1>5, <1>6

\* The first and the last of them.
LEMMA Extremes ==
    ASSUME NEW n \in Nat, NEW S, S \subseteq 1 .. n
    PROVE  /\ Max(S \cup {n + 1}) = n + 1
           /\ S = {} => Min(S \cup {n + 1}) = n + 1
           /\ S # {} => Min(S) \in S /\ Max(S) \in S /\ Min(S \cup {n + 1}) = Min(S)
<1> DEFINE T == S \cup {n + 1}
<1>1. S \subseteq Nat /\ T \subseteq Nat /\ n + 1 \in T /\ \A y \in T : y <= n + 1
  OBVIOUS
<1>2. Max(T) = n + 1
  <2> HIDE DEF T
  <2> QED
    BY <1>1, MaxUnique
<1>3. ASSUME S = {} PROVE Min(T) = n + 1
  <2>1. \A y \in T : n + 1 <= y
    BY <1>3
  <2> HIDE DEF T
  <2> QED
    BY <1>1, <2>1, MinUnique
<1>4. ASSUME S # {} PROVE Min(S) \in S /\ Max(S) \in S /\ Min(T) = Min(S)
  <2>1. Min(S) \in S /\ (\A y \in S : Min(S) <= y) /\ Max(S) \in S
    BY <1>1, <1>4, MinIs, MaxIs
  <2>2. Min(S) \in T /\ \A y \in T : Min(S) <= y
    BY <1>1, <2>1
  <2>3. Min(T) = Min(S)
    <3> HIDE DEF T
    <3> QED
      BY <1>1, <2>2, MinUnique
  <2> QED
    BY <2>1, <2>3
<1> QED
  BY <1>2, <1>3, <1>4
\* What a line is not about stays as it is ...
LEMMA StandsOther ==
    ASSUME NEW key \in Keys, NEW c, NEW d, NEW h, NEW a, NEW t \in Seq(Lines), NEW line \in Lines,
           ~SetsKey(line, key), d[Field(key)] = c[Field(key)], StandsFor(c, h, a, t, key)
    PROVE  StandsFor(d, h, a, Append(t, line), key)
<1> DEFINE u == Append(t, line)
           S == SettersOf(t, key)
           n == Len(t)
<1>1. S \subseteq 1 .. n /\ n \in Nat /\ SettersOf(u, key) = S /\ \A i \in 1 .. n : u[i] = t[i]
  <2>1. /\ SettersOf(t, key) \subseteq 1 .. Len(t) /\ Len(t) \in Nat
        /\ SettersOf(u, key) = IF SetsKey(line, key) THEN SettersOf(t, key) \cup {Len(t) + 1}
                               ELSE SettersOf(t, key)
        /\ u[Len(t) + 1] = line /\ \A i \in 1 .. Len(t) : u[i] = t[i]
    <3> HIDE DEF S, n
    <3> QED
      BY SettersGrow
  <2> QED
    BY <2>1
<1>2. S # {} => Min(S) \in S /\ Max(S) \in S
  <2> HIDE DEF S, n
  <2> QED
    BY <1>1, Extremes
<1> HIDE DEF S
<1>3. {Value(u[i]) : i \in S} = {Value(t[i]) : i \in S}
  BY <1>1
<1>4. S # {} => Value(u[Min(S)]) = Value(t[Min(S)]) /\ Value(u[Max(S)]) = Value(t[Max(S)])
  BY <1>1, <1>2
<1> HIDE DEF n
<1>5. CASE key = "submit_only_songs_with_mbid"
  BY <1>1, <1>3, <1>5 DEF StandsFor, S
<1>6. CASE key = "log_level"
  BY <1>1, <1>4, <1>6 DEF StandsFor, S
<1>7. CASE key \notin {"submit_only_songs_with_mbid", "log_level"}
  BY <1>1, <1>4, <1>7 DEF StandsFor, S
<1> QED
  BY <1>5, <1>6, <1>7

\* ... and what it is about gets its value.
LEMMA StandsSet ==
    ASSUME NEW key \in Keys, NEW c, NEW d, NEW h, NEW a, NEW t \in Seq(Lines), NEW line \in Lines,
           SetsKey(line, key), StandsFor(c, h, a, t, key),
           key = "submit_only_songs_with_mbid" =>
               d[Field(key)] \in BOOLEAN /\ c[Field(key)] \in BOOLEAN /\ (d[Field(key)] <=> c[Field(key)] \/ Value(line) \in YesTexts),
           key = "log_level" =>
               \/ a # "undefined"
               \/ SettersOf(t, key) = {} /\ d[Field(key)] = MeantBy(h, key, Value(line))
               \/ SettersOf(t, key) # {} /\ d[Field(key)] = c[Field(key)],
           key \notin {"submit_only_songs_with_mbid", "log_level"} => d[Field(key)] = MeantBy(h, key, Value(line))
    PROVE  StandsFor(d, h, a, Append(t, line), key)
<1> DEFINE u == Append(t, line)
           v == Value(line)
           S == SettersOf(t, key)
           n == Len(t)
           T == S \cup {n + 1}
<1>1. S \subseteq 1 .. n /\ n \in Nat /\ SettersOf(u, key) = T /\ u[n + 1] = line /\ \A i \in 1 .. n : u[i] = t[i]
  <2>1. /\ SettersOf(t, key) \subseteq 1 .. Len(t) /\ Len(t) \in Nat
        /\ SettersOf(u, key) = IF SetsKey(line, key) THEN SettersOf(t, key) \cup {Len(t) + 1}
                               ELSE SettersOf(t, key)
        /\ u[Len(t) + 1] = line /\ \A i \in 1 .. Len(t) : u[i] = t[i]
    <3> HIDE DEF S, n
    <3> QED
      BY SettersGrow
  <2> QED
    BY <2>1
<1>2. /\ Max(T) = n + 1 /\ T # {}
      /\ S = {} => Min(T) = n + 1
      /\ S # {} => Min(S) \in S /\ Min(T) = Min(S)
  <2> HIDE DEF S, n
  <2> QED
    BY <1>1, Extremes
<1> HIDE DEF S, n
<1>3. {Value(u[i]) : i \in T} = {Value(t[i]) : i \in S} \cup {v}
  <2>1. \A i \in S : u[i] = t[i]
    BY <1>1
  <2> QED
    BY <1>1, <2>1
<1> HIDE DEF T
<1>4. /\ Value(u[Max(T)]) = v
      /\ S = {} => Value(u[Min(T)]) = v
      /\ S # {} => Value(u[Min(T)]) = Value(t[Min(S)])
  BY <1>1, <1>2
<1>5. CASE key = "submit_only_songs_with_mbid"
  <2> DEFINE G == {Value(t[i]) : i \in S} \cap YesTexts
             H == {Value(u[i]) : i \in T} \cap YesTexts
  <2>1. c[Field(key)] = (G # {})
    BY <1>5 DEF StandsFor, S
  <2>2. H # {} <=> G # {} \/ v \in YesTexts
    BY <1>3
  <2> HIDE DEF G, H
  <2>3. d[Field(key)] <=> H # {}
    BY <1>5, <2>1, <2>2
  <2>4. d[Field(key)] = (H # {})
    BY <1>5, <2>3
  <2> QED
    BY <1>1, <1>5, <2>4 DEF StandsFor, H
<1>6. CASE key = "log_level"
  <2>1. CASE a # "undefined"
    BY <1>6, <2>1 DEF StandsFor
  <2>2. CASE a = "undefined"
    <3>1. d[Field(key)] = MeantBy(h, key, Value(u[Min(T)]))
      <4>1. CASE S = {}
        BY <1>4, <1>6, <2>2, <4>1 DEF S
      <4>2. CASE S # {}
        <5>1. c[Field(key)] = MeantBy(h, key, Value(t[Min(S)]))
          BY <1>6, <2>2, <4>2 DEF StandsFor, S
        <5> QED
          BY <1>4, <1>6, <2>2, <4>2, <5>1 DEF S
      <4> QED
        BY <4>1, <4>2
    <3> QED
      BY <1>1, <1>2, <1>6, <3>1 DEF StandsFor
  <2> QED
    BY <2>1, <2>2
<1>7. CASE key \notin {"submit_only_songs_with_mbid", "log_level"}
  BY <1>1, <1>2, <1>4, <1>7 DEF StandsFor
<1> QED
  BY <1>5, <1>6, <1>7

\* Two keys never share a field, and no key has the field of an argument or of the home folder.
LEMMA FieldsApart ==
    /\ \A key, other \in Keys : Field(key) = Field(other) => key = other
    /\ \A key \in Keys : Field(key) \in Fields \ {"user_home_folder", "daemonize", "file_config"}
    /\ \A key \in Keys : Field(key) = "log_level" => key = "log_level"
<1>1. \A key \in Keys : Field(key) \in Fields \ {"user_home_folder", "daemonize", "file_config"}
  BY DEF Field, Fields, Keys
<1>2. ASSUME NEW key \in Keys, NEW other \in Keys, Field(key) = Field(other) PROVE key = other
  BY <1>2, SMTT(60) DEF Field, Keys
<1>3. \A key \in Keys : Field(key) = "log_level" => key = "log_level"
  BY DEF Field
<1> QED
  BY <1>1, <1>2, <1>3
\* What ReadConfiguration makes of a value is what the value is there for.
LEMMA SettingIsMeant ==
    ASSUME NEW key \in Keys, NEW v \in Texts, conf.user_home_folder = home
    PROVE  /\ key \notin {"submit_only_songs_with_mbid", "log_level"} => Setting(key, v) = MeantBy(home, key, v)
           /\ conf.log_level = "undefined" => Setting("log_level", v) = MeantBy(home, "log_level", v)
<1>1. key \notin {"submit_only_songs_with_mbid", "log_level"} => Setting(key, v) = MeantBy(home, key, v)
  BY DEF Setting, MeantBy, StrToInt, HomeFolder
<1>2. IntoLogLevel(v) = MeantBy(home, "log_level", v)
  <2>1. Len(v) = 1 /\ v[1] \in Levels \ {"undefined"} <=> v \in {<<l>> : l \in Levels \ {"undefined"}}
    <3>1. Len(v) = 1 => v = <<v[1]>>
      BY DEF Texts
    <3>2. \A l : Len(<<l>>) = 1 /\ <<l>>[1] = l
      OBVIOUS
    <3> QED
      BY <3>1, <3>2
  <2> QED
    BY <2>1 DEF IntoLogLevel, MeantBy
<1>3. conf.log_level = "undefined" => Setting("log_level", v) = IntoLogLevel(v)
  BY DEF Setting, Level
<1> QED
  BY <1>1, <1>2, <1>3

LEMMA MeantIsALevel ==
    ASSUME NEW h, NEW v
    PROVE  MeantBy(h, "log_level", v) # "undefined"
<1>1. CASE v \in {<<l>> : l \in Levels \ {"undefined"}}
  <2>1. v[1] # "undefined"
    BY <1>1
  <2> QED
    BY <1>1, <2>1 DEF MeantBy
<1>2. CASE v \notin {<<l>> : l \in Levels \ {"undefined"}}
  BY <1>2 DEF MeantBy
<1> QED
  BY <1>1, <1>2

\* Until the file has been read no level has been set but by the command line
\* or the file, and "~" is the home folder of the caller until scrobby is
\* another user.
AsWrittenInv ==
    /\ pc = "argv" => text = << >>
    /\ pc \in {"argv", "lines", "check", "user"} => conf.user_home_folder = home
    /\ (/\ pc \in {"argv", "lines"} /\ asked = "undefined"
        /\ Plain(text) /\ SettersOf(text, "log_level") = {}) => conf.log_level = "undefined"
    /\ AsWritten

\* AsWritten in terms of a file and settings.
LEMMA AsWrittenIs ==
    /\ AsWritten <=> (Plain(text) => \A key \in Keys : StandsFor(conf, home, asked, text, key))
    /\ AsWritten' <=> (Plain(text') => \A key \in Keys : StandsFor(conf', home', asked', text', key))
<1>1. AsWritten <=> (Plain(text) => \A key \in Keys : StandsFor(conf, home, asked, text, key))
  BY StandsIs DEF AsWritten, Plain
<1>2. AsWritten' <=> (Plain(text') => \A key \in Keys : Stands(key)')
  BY DEF AsWritten, Plain
<1> QED
  BY <1>1, <1>2, StandsIs

LEMMA AsWrittenLine == TypeInv /\ AsWrittenInv /\ ReadLine => AsWrittenInv'
<1> SUFFICES ASSUME TypeInv, AsWrittenInv, ReadLine PROVE AsWrittenInv'
  OBVIOUS
<1>1. PICK line \in Lines : conf' = LineRead(line) /\ text' = Append(text, line)
  BY DEF ReadLine
<1>2. /\ pc = "lines" /\ pc' = "lines" /\ home' = home /\ asked' = asked /\ text \in Seq(Lines) /\ ConfType(conf)
      /\ line \in Texts /\ conf.user_home_folder = home
  BY GivenTexts DEF ReadLine, TypeInv, AsWrittenInv
<1>3. conf'.user_home_folder = home'
  BY <1>1, <1>2, LineSets
<1>4. SUFFICES ASSUME Plain(text')
               PROVE  /\ \A key \in Keys : StandsFor(conf', home, asked, text', key)
                      /\ (asked = "undefined" /\ SettersOf(text', "log_level") = {}) => conf'.log_level = "undefined"
  BY <1>2, <1>3, AsWrittenIs DEF AsWrittenInv
<1>5. Plain(text) /\ (line = << >> \/ line[1] = "#" \/ AsExample(line))
  BY <1>1, <1>2, <1>4, SettersGrow
<1>6. /\ \A key \in Keys : StandsFor(conf, home, asked, text, key)
      /\ (asked = "undefined" /\ SettersOf(text, "log_level") = {}) => conf.log_level = "undefined"
  BY <1>2, <1>5, AsWrittenIs DEF AsWrittenInv
<1>7. CASE conf' = conf /\ \A key \in Keys : ~SetsKey(line, key)
  <2>1. \A key \in Keys : StandsFor(conf', home, asked, text', key)
    BY <1>1, <1>2, <1>6, <1>7, StandsOther
  <2>2. SettersOf(text', "log_level") = SettersOf(text, "log_level")
    BY <1>1, <1>2, <1>7, SettersGrow DEF Keys
  <2> QED
    BY <1>6, <1>7, <2>1, <2>2
<1>8. CASE AsExample(line) /\ SetsKey(line, line[1])
  <2> DEFINE k == line[1]
             v == Value(line)
             w == Setting(k, v)
  <2>1. k \in Keys /\ v \in Texts /\ SetsKey(line, k) /\ \A key \in Keys \ {k} : ~SetsKey(line, key)
    BY <1>2, <1>8, ExampleIs DEF SetsKey
  <2>2. Sets(conf, conf', Field(k), w)
    BY <1>1, <1>2, <1>8, ExampleRead DEF Sets
  <2> HIDE DEF k, v
  <2>3. conf'[Field(k)] = w /\ \A f \in Fields \ {Field(k)} : conf'[f] = conf[f]
    <3> HIDE DEF w
    <3>1. /\ Field(k) \in Fields
          /\ Field(k) = "log_level" => w \in Levels
          /\ Field(k) \in {"daemonize", "submit_only_songs_with_mbid"} => w \in BOOLEAN
          /\ Field(k) \in {"mpd_port", "mpd_timeout"} => w \in Int
          /\ Field(k) \in {"mpd_host", "user_home_folder"} => w \in Texts
      BY <1>2, <2>1, SettingType DEF w
    <3> QED
      BY <1>2, <2>2, <3>1, FieldSet
  <2>4. ASSUME NEW key \in Keys \ {k} PROVE StandsFor(conf', home, asked, text', key)
    <3>1. conf'[Field(key)] = conf[Field(key)]
      BY <2>1, <2>3, FieldsApart
    <3> QED
      BY <1>1, <1>2, <1>6, <2>1, <3>1, StandsOther
  <2>5. StandsFor(conf', home, asked, text', k)
    <3>1. k = "submit_only_songs_with_mbid" =>
             /\ conf'[Field(k)] \in BOOLEAN /\ conf[Field(k)] \in BOOLEAN
             /\ conf'[Field(k)] <=> (conf[Field(k)] \/ v \in YesTexts)
      <4> SUFFICES ASSUME k = "submit_only_songs_with_mbid"
                   PROVE  /\ conf'[Field(k)] \in BOOLEAN /\ conf[Field(k)] \in BOOLEAN
                          /\ conf'[Field(k)] <=> (conf[Field(k)] \/ v \in YesTexts)
        OBVIOUS
      <4>1. Field(k) = k /\ conf[k] \in BOOLEAN
        BY <1>2 DEF Field, ConfType
      <4>2. w = (conf[k] \/ v \in YesTexts)
        BY DEF Setting, YesTexts
      <4> HIDE DEF w
      <4>3. w \in BOOLEAN /\ (w <=> conf[k] \/ v \in YesTexts)
        BY <4>1, <4>2
      <4> QED
        BY <2>3, <4>1, <4>3
    <3>2. k = "log_level" =>
             \/ asked # "undefined"
             \/ SettersOf(text, k) = {} /\ conf'[Field(k)] = MeantBy(home, k, v)
             \/ SettersOf(text, k) # {} /\ conf'[Field(k)] = conf[Field(k)]
      <4> SUFFICES ASSUME k = "log_level", asked = "undefined"
                   PROVE  \/ SettersOf(text, k) = {} /\ conf'[Field(k)] = MeantBy(home, k, v)
                          \/ SettersOf(text, k) # {} /\ conf'[Field(k)] = conf[Field(k)]
        OBVIOUS
      <4>1. Field(k) = "log_level"
        BY DEF Field
      <4>2. CASE SettersOf(text, k) = {}
        BY <1>2, <1>6, <2>1, <2>3, <4>1, <4>2, SettingIsMeant
      <4>3. CASE SettersOf(text, k) # {}
        <5>1. conf["log_level"] = MeantBy(home, "log_level", Value(text[Min(SettersOf(text, k))]))
          BY <1>6, <2>1, <4>1, <4>3 DEF StandsFor
        <5>2. conf.log_level # "undefined"
          BY <5>1, MeantIsALevel
        <5>3. w = conf.log_level
          BY <5>2 DEF Setting, Level
        <5> QED
          BY <2>3, <4>1, <4>3, <5>3
      <4> QED
        BY <4>2, <4>3
    <3>3. k \notin {"submit_only_songs_with_mbid", "log_level"} => conf'[Field(k)] = MeantBy(home, k, v)
      BY <1>2, <2>1, <2>3, SettingIsMeant
    <3>4. StandsFor(conf, home, asked, text, k) /\ v = Value(line)
      BY <1>6, <2>1 DEF v
    <3> HIDE DEF w
    <3>5. StandsFor(conf', home, asked, Append(text, line), k)
      BY <1>2, <2>1, <3>1, <3>2, <3>3, <3>4, StandsSet
    <3> QED
      BY <1>1, <3>5
  <2>6. (asked = "undefined" /\ SettersOf(text', "log_level") = {}) => conf'.log_level = "undefined"
    <3>1. CASE k = "log_level"
      <4>1. SettersOf(text', "log_level") # {}
        BY <1>1, <1>2, <2>1, <3>1, SettersGrow
      <4> QED
        BY <4>1
    <3>2. CASE k # "log_level"
      <4>1. "log_level" \in Keys /\ "log_level" \in Fields
        BY DEF Keys, Fields
      <4>2. SettersOf(text', "log_level") = SettersOf(text, "log_level")
        BY <1>1, <1>2, <2>1, <3>2, <4>1, SettersGrow
      <4>3. conf'["log_level"] = conf["log_level"]
        BY <2>1, <2>3, <3>2, <4>1, FieldsApart
      <4> QED
        BY <1>6, <4>2, <4>3
    <3> QED
      BY <3>1, <3>2
  <2> QED
    BY <2>4, <2>5, <2>6
<1>9. CASE line = << >> \/ line[1] = "#"
  <2>1. conf' = conf
    BY <1>1, <1>9 DEF LineRead
  <2>2. \A key \in Keys : ~SetsKey(line, key)
    BY <1>9 DEF SetsKey, Keys
  <2> QED
    BY <1>7, <2>1, <2>2
<1>10. CASE AsExample(line) /\ ~SetsKey(line, line[1])
  <2>1. conf' = conf
    BY <1>1, <1>2, <1>10, ExampleRead
  <2>2. \A key \in Keys : ~SetsKey(line, key)
    BY <1>10 DEF SetsKey
  <2> QED
    BY <1>7, <2>1, <2>2
<1> QED
  BY <1>5, <1>8, <1>9, <1>10
\* A step that reads no line.
LEMMA StandsKept ==
    ASSUME NEW key \in Keys, NEW c, NEW d, NEW h, NEW a, NEW b, NEW t, StandsFor(c, h, a, t, key),
           key # "log_level" => d[Field(key)] = c[Field(key)],
           key = "log_level" => b # "undefined" \/ (b = a /\ d[Field(key)] = c[Field(key)])
    PROVE  StandsFor(d, h, b, t, key)
<1>1. CASE key = "submit_only_songs_with_mbid"
  BY <1>1 DEF StandsFor
<1>2. CASE key = "log_level"
  BY <1>2 DEF StandsFor
<1>3. CASE key \notin {"submit_only_songs_with_mbid", "log_level"}
  BY <1>3 DEF StandsFor
<1> QED
  BY <1>1, <1>2, <1>3

LEMMA AsWrittenStep == TypeInv /\ AsWrittenInv /\ [Next]_vars => AsWrittenInv'
<1> SUFFICES ASSUME TypeInv, AsWrittenInv, [Next]_vars PROVE AsWrittenInv'
  OBVIOUS
<1>1. /\ Plain(text) => \A key \in Keys : StandsFor(conf, home, asked, text, key)
      /\ pc = "argv" => text = << >>
      /\ pc \in {"argv", "lines", "check", "user"} => conf.user_home_folder = home
      /\ (/\ pc \in {"argv", "lines"} /\ asked = "undefined"
          /\ Plain(text) /\ SettersOf(text, "log_level") = {}) => conf.log_level = "undefined"
  BY AsWrittenIs DEF AsWrittenInv
<1>2. \A f \in {"log_level", "user_home_folder"} : f \in Fields
  BY DEF Fields
<1>3. CASE ParseArgument
  <2>1. /\ pc = "argv" /\ UNCHANGED <<pc, mpd, home, text>>
        /\ \A f \in Fields \ {"log_level", "daemonize", "file_config"} : conf'[f] = conf[f]
        /\ \/ asked' = asked /\ conf'.log_level = conf.log_level
           \/ asked' \in Levels \ {"undefined"} /\ conf'.log_level = asked'
    BY <1>3, ArgumentSets
  <2>2. conf'.user_home_folder = conf.user_home_folder
    BY <1>2, <2>1
  <2>3. ASSUME NEW key \in Keys, Plain(text) PROVE StandsFor(conf', home', asked', text', key)
    <3>1. key # "log_level" => conf'[Field(key)] = conf[Field(key)]
      BY <2>1, FieldsApart
    <3>2. key = "log_level" => asked' # "undefined" \/ (asked' = asked /\ conf'[Field(key)] = conf[Field(key)])
      BY <2>1 DEF Field
    <3>3. StandsFor(conf', home, asked', text, key)
      BY <1>1, <2>3, <3>1, <3>2, StandsKept
    <3> QED
      BY <2>1, <3>3
  <2>4. AsWritten'
    BY <2>1, <2>3, AsWrittenIs
  <2>5. asked' = "undefined" => asked = "undefined" /\ conf'.log_level = conf.log_level
    BY <2>1
  <2> QED
    BY <1>1, <2>1, <2>2, <2>4, <2>5 DEF AsWrittenInv
<1>4. CASE ReadLine
  BY <1>4, AsWrittenLine
<1>5. CASE CheckSettings
  <2>1. /\ pc = "check" /\ pc' \in {"user", "failed"} /\ UNCHANGED <<mpd, home, args, asked, text>>
        /\ \A f \in Fields \ {"log_level"} : conf'[f] = conf[f]
        /\ conf'.log_level = IF conf.log_level = "undefined" THEN "info" ELSE conf.log_level
    BY <1>5, CheckSets
  <2>2. conf'.user_home_folder = conf.user_home_folder
    BY <1>2, <2>1
  <2>3. ASSUME NEW key \in Keys, Plain(text) PROVE StandsFor(conf', home, asked, text, key)
    <3>1. StandsFor(conf, home, asked, text, key)
      BY <1>1, <2>3
    <3>2. CASE key # "log_level"
      <4>1. conf'[Field(key)] = conf[Field(key)]
        BY <2>1, <3>2, FieldsApart
      <4> QED
        BY <3>1, <3>2, <4>1, StandsKept
    <3>3. CASE key = "log_level"
      <4>1. Field(key) = "log_level"
        BY <3>3 DEF Field
      <4>2. \A v : MeantBy(home, key, v) # "undefined"
        BY <3>3, MeantIsALevel
      <4> QED
        BY <2>1, <3>1, <3>3, <4>1, <4>2 DEF StandsFor
    <3> QED
      BY <3>2, <3>3
  <2>4. AsWritten'
    BY <2>1, <2>3, AsWrittenIs
  <2> QED
    BY <1>1, <2>1, <2>2, <2>4 DEF AsWrittenInv
<1>6. CASE ChangeToUser
  <2>1. /\ pc = "user" /\ pc' \in {"files", "failed"} /\ UNCHANGED <<mpd, home, args, asked, text>>
        /\ \A f \in Fields \ {"user_home_folder"} : conf'[f] = conf[f]
    BY <1>6, UserSets
  <2>2. ASSUME NEW key \in Keys, Plain(text) PROVE StandsFor(conf', home, asked, text, key)
    <3>1. conf'[Field(key)] = conf[Field(key)]
      BY <2>1, FieldsApart
    <3> QED
      BY <1>1, <2>2, <3>1, StandsKept
  <2>3. AsWritten'
    BY <2>1, <2>2, AsWrittenIs
  <2> QED
    BY <2>1, <2>3 DEF AsWrittenInv
<1>7. CASE Moves
  <2>1. /\ UNCHANGED <<conf, home, args, asked, text>>
        /\ pc \in {"argv", "lines", "check", "user"} \/ pc' \notin {"argv", "lines", "check", "user"}
        /\ pc' \in {"argv", "lines"} => pc \in {"argv", "lines"}
        /\ pc' = "argv" => pc = "argv"
    BY <1>7, MovesKeep
  <2>2. AsWritten'
    BY <1>1, <2>1, AsWrittenIs
  <2> QED
    BY <1>1, <2>1, <2>2 DEF AsWrittenInv
<1> QED
  BY <1>3, <1>4, <1>5, <1>6, <1>7 DEF Next, Moves

LEMMA AsWrittenInit == Init => AsWrittenInv
<1> SUFFICES ASSUME Init PROVE AsWrittenInv
  OBVIOUS
<1>1. pc = "argv" /\ conf = DefaultConfiguration(home) /\ asked = "undefined" /\ text = << >>
  BY DEF Init
<1>2. conf.user_home_folder = home /\ conf.log_level = "undefined" /\ conf.submit_only_songs_with_mbid = FALSE
  BY <1>1 DEF DefaultConfiguration
<1>3. \A key : SettersOf(text, key) = {}
  BY <1>1 DEF SettersOf
<1>4. ASSUME NEW key \in Keys PROVE StandsFor(conf, home, asked, text, key)
  <2>1. CASE key = "submit_only_songs_with_mbid"
    <3>1. Field(key) = key
      BY <2>1 DEF Field
    <3>2. {Value(text[i]) : i \in SettersOf(text, key)} \cap YesTexts = {}
      BY <1>3
    <3>3. conf[Field(key)] = ({Value(text[i]) : i \in SettersOf(text, key)} \cap YesTexts # {})
      BY <1>2, <2>1, <3>1, <3>2
    <3> QED
      BY <2>1, <3>3 DEF StandsFor
  <2>2. CASE key = "log_level"
    <3>1. Field(key) = key
      BY <2>2 DEF Field
    <3> QED
      BY <1>2, <1>3, <2>2, <3>1 DEF StandsFor
  <2>3. CASE key \notin {"submit_only_songs_with_mbid", "log_level"}
    BY <1>1, <1>3, <2>3 DEF StandsFor
  <2> QED
    BY <2>1, <2>2, <2>3
<1>5. AsWritten
  BY <1>4, AsWrittenIs
<1> QED
  BY <1>1, <1>2, <1>5 DEF AsWrittenInv

\* AsWritten: what each key stands for after a file of any length whose lines are
\* comments or like the example, whatever the arguments were and whoever scrobby
\* runs as: the last line for mpd_host and dedicated_user, which an empty one
\* clears; for the others the last line with a value, the first for log_level.
THEOREM FileIsAsWritten == Spec => []AsWritten
<1>1. AsWrittenInv => AsWritten
  BY DEF AsWrittenInv
<1> QED
  BY <1>1, AsWrittenInit, AsWrittenStep, TypeInvariance, PTL DEF Spec
=============================================================================
