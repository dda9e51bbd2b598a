------------------------------ MODULE Configuration ------------------------------
(***************************************************************************)
(* From the files to the settings a server runs with: renv.ParseCmd,       *)
(* SetDefaults and the getters of server/env/env.go, and the limits of     *)
(* LoadDatabaseConfig (server/bsql/open.go).                               *)
(*                                                                         *)
(* Both libraries read a limit of zero, or less, as no limit: Redis keeps  *)
(* an entry without a time to live for ever, and database/sql opens any    *)
(* number of connections.                                                  *)
(***************************************************************************)
EXTENDS Integers

CONSTANTS
    Ports, SigningKeys, Durations,   \* texts that the files and the environment have
    Parsed,     \* time.ParseDuration, in hours, of those texts it takes
    PoolSizes   \* what the database file has for maxOpenConnection, 0 if nothing

None  == ""
Empty == <<>>

ASSUME ConfigurationAssumption ==
    /\ None \notin Ports \cup SigningKeys \cup Durations
    /\ "8080" # None /\ "24h" # None
    /\ DOMAIN Parsed \subseteq Durations
    /\ Parsed \in [DOMAIN Parsed -> Int]
    /\ "24h" \in DOMAIN Parsed /\ Parsed["24h"] = 24
    /\ PoolSizes \subseteq Int

VARIABLES
    found,     \* one of the places searched has the file, and it is YAML
    file,      \* what that file says, Empty if nothing
    key,       \* the environment variable JWT_SIGNING_KEY
    open,      \* maxOpenConnection of the database file, 0 when left out
    settings,  \* env.E
    stage      \* how far main has come

configVars == <<found, file, key, open, settings, stage>>

Setting == [port : Ports \cup {None}, apiPort : Ports \cup {None},
            key : SigningKeys \cup {None},
            jwt : Durations \cup {None}, revoke : Durations \cup {None}]

ConfigInit ==
    /\ found \in BOOLEAN
    /\ file \in Setting \cup {Empty}
    /\ key \in SigningKeys \cup {None}
    /\ open \in PoolSizes
    /\ settings = Empty
    /\ stage = "parse"

\* The first of four places that has the file, or the one of -parse_at_location, is
\* taken; without any it panics.  An empty file leaves the pointer nil.
ParseCmd ==
    /\ stage = "parse"
    /\ stage' = IF found THEN "defaults" ELSE "panic"
    /\ settings' = IF found THEN file ELSE Empty
    /\ UNCHANGED <<found, file, key, open>>

Default(text, default) == IF text = None THEN default ELSE text

\* A slip: the address of the API is completed before the port.
DefaultsEarly(s) ==
    [port |-> Default(s.port, "8080"),
     apiPort |-> Default(s.apiPort, Default(None, "8080")),
     key |-> Default(key, s.key), jwt |-> Default(s.jwt, "24h"), revoke |-> s.revoke]

\* The environment variable comes before the file; api_base_url is completed from
\* the port, and token_revoke_duration is left to its getter.
Defaults(s) ==
    LET port == Default(s.port, "8080")
    IN  [port |-> port, apiPort |-> Default(s.apiPort, port),
         key |-> Default(key, s.key), jwt |-> Default(s.jwt, "24h"), revoke |-> s.revoke]

\* A nil pointer or a missing key is a panic.
SetDefaults ==
    /\ stage = "defaults"
    /\ \/ /\ settings # Empty
          /\ settings' = Defaults(settings)
          /\ stage' = IF settings'.key = None THEN "panic" ELSE "serve"
       \/ settings = Empty /\ stage' = "panic" /\ UNCHANGED settings
    /\ UNCHANGED <<found, file, key, open>>

ConfigNext == ParseCmd \/ SetDefaults

ConfigSpec == ConfigInit /\ [][ConfigNext]_configVars

--------------------------------------------------------------------------------

\* A slip: the error of ParseDuration is not looked at.
DurationUnchecked(text) ==
    IF text = None THEN 24 ELSE IF text \in DOMAIN Parsed THEN Parsed[text] ELSE 0

\* GetJWTDuration and GetRevokeDuration.
Duration(text) == IF text \in DOMAIN Parsed THEN Parsed[text] ELSE 24

\* SetMaxOpenConns.
MaxOpen == IF open = 0 THEN 80 ELSE open

\* The text says zero or less.
NoLimit(text) == text \in DOMAIN Parsed /\ Parsed[text] <= 0

\* No limit is lost by leaving it out or mistyping it: unless the file itself says
\* zero or less, tokens and cached revocations last for a time and the pool has a
\* bound.
LimitsHold ==
    stage = "serve" =>
        /\ Duration(settings.revoke) > 0 \/ NoLimit(file.revoke)
        /\ Duration(settings.jwt) > 0 \/ NoLimit(file.jwt)
        /\ MaxOpen > 0 \/ open < 0

\* A server that gets past its configuration signs with a key, the environment's if
\* there is one, and without an api_base_url its pages call the port it listens on.
PagesFindServer ==
    stage = "serve" =>
        /\ settings.key # None /\ (key # None => settings.key = key)
        /\ file.apiPort = None => settings.apiPort = settings.port

================================================================================
