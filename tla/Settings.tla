------------------------------ MODULE Settings ------------------------------
(***************************************************************************)
(* What the environment of the process makes of it: Config::from_env of    *)
(* src/config.rs, and the settings that are read apart from it for         *)
(* autoconfiguration (src/autoconfig.rs) and for the provider connections  *)
(* (src/smtp.rs, src/imap.rs).                                             *)
(*                                                                         *)
(* Spelling is abstracted: a switch is unset, one of the words for true,   *)
(* one of those for false, or anything else.                               *)
(*                                                                         *)
(* A definition introduced by "Slip" is no part of the model: it is a      *)
(* plausible fault of the definition after it, which a run must detect.    *)
(***************************************************************************)
EXTENDS Naturals

CONSTANTS
    DefaultCap,     \* DEFAULT_MAX_ATTACHMENT_BYTES
    MaxUsize,       \* usize::MAX
    None            \* unset, absent, no result

Switch == {"unset", "true", "false", "other"}

\* A key as it is written: `padded` when there are blanks around it.
KeyText == [core : {"", "key", "another"}, padded : BOOLEAN]

\* A number as it is written; one that is no usize does not parse.
NumberText == [parses : BOOLEAN, value : 0 .. MaxUsize]

\* The variables OVERFWD_*, and MAIL_TLS_INSECURE.
Environment ==
    [bind : {"unset", "address", "other"}, requireKey : Switch, key : KeyText \cup {None},
     mcp : Switch, block : Switch, cap : NumberText \cup {None},
     autoconfig : Switch, insecure : Switch]

\* parse_bool, on a switch that is not "other"
ParseBool(text, default) == IF text = "unset" THEN default ELSE text = "true"

\* The other reading of a switch, of AutoconfigSettings and SmtpSettings:
\* whatever is set and no word for true is false.
Permissive(text, default) == IF text = "unset" THEN default ELSE text = "true"

\* The api_key: an empty one counts as unset, one with blanks does not.
ApiKey(env) ==
    IF env.key # None /\ env.key # [core |-> "", padded |-> FALSE] THEN env.key ELSE None

\* Config::from_env: whether there is a configuration at all.
Loads(env) ==
    /\ env.bind # "other"
    /\ "other" \notin {env.requireKey, env.mcp, env.block}
    /\ ParseBool(env.requireKey, FALSE) => ApiKey(env) # None
    /\ env.cap # None => env.cap.parses

\* Config, with the settings of Autoconfig::from_env and SmtpSettings::from_env
Config(env) ==
    [requireKey |-> ParseBool(env.requireKey, FALSE),
     apiKey     |-> ApiKey(env),
     mcp        |-> ParseBool(env.mcp, TRUE),
     block      |-> ParseBool(env.block, FALSE),
     cap        |-> IF env.cap = None THEN DefaultCap ELSE env.cap.value,
     autoconfig |-> Permissive(env.autoconfig, TRUE),
     insecure   |-> Permissive(env.insecure, FALSE)]

\* bearer_token: the token is trimmed, and an empty one is none.  `presented`
\* is the text after the scheme, None without a header of that form.
BearerToken(presented) ==
    IF presented = None \/ presented.core = "" THEN None ELSE [presented EXCEPT !.padded = FALSE]

\* Slip: a request without a token passes.
AccessUnlessWrong(config, presented) ==
    \/ ~config.requireKey
    \/ BearerToken(presented) \in {config.apiKey, None}

\* require_gateway_access
Access(config, presented) ==
    \/ ~config.requireKey
    \/ config.apiKey # None /\ BearerToken(presented) = config.apiKey
=============================================================================
