--------------------------- MODULE MCConfiguration ---------------------------
(* Lines as the example shows them, and some as an editor leaves them. *)
EXTENDS Configuration

MCHomes == {<<"/home">>, << >>}
MCUserHome == <<"/srv">>
MCArguments == {<<"my.conf">>}
MCNumerals == (<<"6601">> :> 6601) @@ (<<"5", "s">> :> 5)
MCLines ==
    {Written("dedicated_user", <<"scrobby">>), Written("dedicated_user", << >>),
     Written("mpd_host", <<"p", "@", "w", "@", "nas">>), Written("mpd_host", << >>),
     Written("mpd_port", <<"6601">>), Written("mpd_port", << >>), Written("mpd_timeout", <<"5", "s">>),
     Written("pid_file", <<"~", "/pid">>), Written("pid_file", <<".", "/pid">>),
     Written("lastfm_user", <<"me">>), Written("lastfm_password", <<"secret">>),
     Written("log_level", <<"error">>), Written("log_level", <<"loud">>),
     Written("submit_only_songs_with_mbid", <<"yes">>),
     Written("submit_only_songs_with_mbid", <<"no">>),
     << >>, <<"#", "mpd_port", "=", "\"", "6601", "\"">>, <<"mpd_host", "=", "\"">>,
     Written("lastfm_password", <<"mpd_port">>)}
=============================================================================
