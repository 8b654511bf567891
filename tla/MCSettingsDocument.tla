-------------------------- MODULE MCSettingsDocument --------------------------
(***************************************************************************)
(* SettingsDocument for TLC: files of the first schema and of the current  *)
(* one, with unknown fields at every level, with values that are coerced,  *)
(* with a version from the future and with sections that are no objects;   *)
(* updates that name known and unknown fields at every depth, replace a    *)
(* section by a scalar, carry null, ask for a migration, or are refused.   *)
(***************************************************************************)
EXTENDS SettingsDocument, TLC

MCKeys == STRING

RemotePort == <<"client", "remote_host", "port">>
RemoteX == <<"client", "remote_host", "x">>

MCFiles ==
    {Tree(<< >>),
     Tree(<<"routing_mode">> :> Str("remote") @@ <<"listen_ip">> :> Str("10.0.0.1")
          @@ <<"x">> :> Num("1")),
     Tree(Version :> Num("0") @@ <<"client", "routing_mode">> :> Str("remote")
          @@ <<"client", "llm_mode">> :> Str("local")
          @@ <<"host", "listen_port">> :> Str("8080") @@ <<"listen_ip">> :> Str("10.0.0.1")),
     Tree(<<"routing_mode">> :> False @@ <<"client", "routing_mode">> :> Str("remote")),
     Tree(Version :> Num("2") @@ RemotePort :> True @@ RemoteX :> Num("0")
          @@ <<"host", "llm">> :> Null @@ <<"x", "y">> :> Num("0") @@ <<"x", "z">> :> Num("1")),
     Tree(Version :> Num("1") @@ <<"ui">> :> List("[]")),
     Tree(<< >> :> List("[]"))}

MCUpdates ==
    {Tree(RemotePort :> Num("8081")),
     Tree(RemoteX :> Num("1") @@ <<"client", "sam3_mode">> :> Str("remote")),
     Tree(<<"client", "remote_host">> :> Num("0")),
     Tree(<<"host", "llm", "request_timeout_seconds">> :> Null
          @@ <<"host", "llm", "auto_start">> :> Num("1")
          @@ <<"host", "llm", "arguments">> :> List("['a''']")
          @@ <<"host", "llm", "model_id">> :> Num("8080")),
     Tree(<<"host", "listen_port">> :> Num("70000")),
     Tree(<<"host">> :> Null),
     Tree(<<"x", "y">> :> Num("1")),
     Tree(Version :> Num("0") @@ <<"routing_mode">> :> Str("remote"))}
=============================================================================
