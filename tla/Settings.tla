------------------------------ MODULE Settings ------------------------------
(***************************************************************************)
(* How the settings of a command come about: the file, the environment and *)
(* the flags that src/config.rs, src/cli.rs and src/app.rs put on top of   *)
(* each other.  Each layer mentions some settings; the relay and its token *)
(* are one setting in the program and two in every layer.                  *)
(***************************************************************************)
EXTENDS Naturals

CONSTANTS
  Files, Envs, FlagSets,   \* what each layer may say: see the records below
  MinWords, MaxWords, DefaultWords, DefaultPort,
  Hosts, Tokens,           \* what relays and tokens may be
  Unset, Empty,            \* a setting not mentioned; one mentioned as ""
  Broken                   \* a file that does not parse

Addresses == [host : Hosts, port : Nat \cup {Unset}]
RelayValues == Addresses \cup {Unset, Empty}
TokenValues == Tokens \cup {Unset, Empty}

\* What can be said, and that saying nothing cannot be mistaken for it.
SettingsAssumption ==
  /\ DefaultPort \in Nat
  /\ Unset \notin Nat \cup BOOLEAN \cup Addresses \cup {Empty, Broken}
  /\ Unset \notin [address : Addresses, token : TokenValues]
  /\ \A f \in Files : /\ f \notin {Unset, Broken}
                      /\ f.relay \in RelayValues /\ f.token \in TokenValues
                      /\ f.lan \in BOOLEAN \cup {Unset}
  /\ \A e \in Envs : e.relay \in RelayValues /\ e.token \in TokenValues
  /\ \A f \in FlagSets : /\ f.relay \in Addresses \cup {Unset} /\ f.token \in TokenValues
                         /\ {f.noRelay, f.noLan, f.overwrite} \subseteq BOOLEAN
                         /\ DOMAIN f = {"config", "relay", "token", "noRelay", "noLan", "words",
                                        "out", "policy", "overwrite"}

\* A file: relay, token, lan, words, out, policy.  An environment: file (a
\* configuration file it names), relay, token, out.  Flags: config, relay,
\* token, noRelay, noLan, words, out, policy, overwrite.
Commands == {"send", "receive", "relay", "config"}
Switches == {"noRelay", "noLan", "overwrite"}
NetFlags == {"relay", "token", "noRelay", "noLan"}

\* The flags of each command: SendArgs, ReceiveArgs, RelayArgs, ConfigArgs.
Accepts == [send    |-> NetFlags \cup {"words"},
            receive |-> NetFlags \cup {"out", "policy", "overwrite"},
            relay   |-> {"token"},
            config  |-> {}]

VARIABLES
  command,   \* what the user runs
  files,     \* the file at each place: None, Broken, or a record
  env, flags,
  config,    \* Config, as far as it is resolved
  used,      \* what the command works with
  stage      \* "parse", "load", "apply", "resolve", "ready" or "error"

settingsVars == <<command, files, env, flags, config, used, stage>>

\* The places of a configuration file: the one of --config, the one that
\* RUSP_CONFIG names, and the usual one.
ConfigPlaces == {"flag", "env", "usual"}

Or(value, other) == IF value # Unset THEN value ELSE other
NonEmpty(value) == IF value = Empty THEN Unset ELSE value

\* normalize_relay_address: an address without a port gets the usual one. Here
\* an address is a record [host, port].
Normalize(address) == [address EXCEPT !.port = Or(@, DefaultPort)]

\* RelayConfig::new
Relay(address, token) == [address |-> Normalize(address), token |-> NonEmpty(token)]

TokenOf(relay) == IF relay = Unset THEN Unset ELSE relay.token

\* A file of comments mentions nothing.
Template == [relay |-> Unset, token |-> Unset, lan |-> Unset, words |-> Unset, out |-> Unset, policy |-> Unset]

Default == [relay |-> Unset, lan |-> TRUE, words |-> DefaultWords, out |-> ".", policy |-> "rename"]

\* load_config and Config::load: the first place named, and only that one.
Place == IF flags.config THEN "flag" ELSE IF env.file THEN "env" ELSE "usual"

\* Where it does not look there may be anything.
SettingsInit ==
  /\ command \in Commands
  /\ env \in Envs
  /\ flags \in FlagSets
  /\ \E f \in Files \cup {Unset, Broken} : \E other \in {Unset, Broken} :
       files = [p \in ConfigPlaces |-> IF p = Place THEN f ELSE other]
  /\ config = Default /\ used = Unset /\ stage = "parse"

Given == <<command, files, env, flags>>

-----------------------------------------------------------------------------
Mentioned(flag) == IF flag \in Switches THEN flags[flag] ELSE flags[flag] # Unset

\* clap: flags of another command, flags that exclude each other, and the
\* range of --words.
Parse ==
  /\ stage = "parse"
  /\ stage' = IF \/ \E flag \in (DOMAIN flags \ {"config"}) \ Accepts[command] : Mentioned(flag)
                 \/ flags.overwrite /\ flags.policy # Unset
                 \/ flags.noRelay /\ (flags.relay # Unset \/ flags.token # Unset)
                 \/ flags.words # Unset /\ flags.words \notin MinWords..MaxWords
                THEN "error" ELSE "load"
  /\ UNCHANGED <<Given, config, used>>

\* into_config: an empty relay is none, and its token goes with it.
FromFile(f) ==
  [relay  |-> IF NonEmpty(f.relay) = Unset THEN Unset ELSE Relay(f.relay, f.token),
   lan    |-> Or(f.lan, Default.lan),
   words  |-> Or(f.words, Default.words),
   out    |-> Or(f.out, Default.out),
   policy |-> Or(f.policy, Default.policy)]

Load ==
  /\ stage = "load"
  /\ LET f == files[Place]
     IN  IF f = Unset THEN stage' = "apply" /\ UNCHANGED config
         ELSE IF f # Broken /\ Or(f.words, DefaultWords) \in MinWords..MaxWords
           THEN stage' = "apply" /\ config' = FromFile(f)
           ELSE stage' = "error" /\ UNCHANGED config
  /\ UNCHANGED <<Given, used>>

\* Mutant of Layered: a new address starts without the token it has.
LayeredAfresh(relay, address, token) ==
  IF address # Unset THEN Relay(address, token)
  ELSE IF token # Unset /\ relay # Unset THEN [relay EXCEPT !.token = token]
  ELSE relay

\* What apply_env and net_options do with a relay: an address keeps the token
\* from below if the layer has none; a token alone needs an address below.
Layered(relay, address, token) ==
  IF address # Unset THEN Relay(address, Or(token, TokenOf(relay)))
  ELSE IF token # Unset /\ relay # Unset THEN [relay EXCEPT !.token = token]
  ELSE relay

\* apply_env: blank variables do not count.
ApplyEnv ==
  /\ stage = "apply" /\ stage' = "resolve"
  /\ config' = [config EXCEPT
       !.relay = Layered(@, NonEmpty(env.relay), NonEmpty(env.token)),
       !.out = Or(NonEmpty(env.out), @)]
  /\ UNCHANGED <<Given, used>>

ConflictPolicy == IF flags.overwrite THEN "overwrite" ELSE Or(flags.policy, config.policy)

\* net_options and what send, receive and relay take from their arguments.
Resolve ==
  /\ stage = "resolve" /\ command # "config" /\ stage' = "ready"
  /\ used' =
       IF command = "relay"
         THEN [Default EXCEPT !.relay = [address |-> Unset, token |-> Or(flags.token, TokenOf(config.relay))]]
         ELSE [relay  |-> IF flags.noRelay THEN Unset ELSE Layered(config.relay, flags.relay, flags.token),
               lan    |-> config.lan /\ ~flags.noLan,
               words  |-> Or(flags.words, config.words),
               out    |-> Or(flags.out, config.out),
               policy |-> ConflictPolicy]
  /\ UNCHANGED <<Given, config>>

\* config_command: where `config` says the file is, which is not where the
\* variable RUSP_CONFIG says.
ShownPlace == IF flags.config THEN "flag" ELSE "usual"

\* `config show` shows what was resolved; `config init` writes a file of
\* comments, but only where there is none.
ConfigCommand ==
  /\ stage = "resolve" /\ command = "config" /\ stage' = "ready"
  /\ used' = config
  /\ \/ UNCHANGED files
     \/ files' = [files EXCEPT ![ShownPlace] = IF @ = Unset THEN Template ELSE @]
  /\ UNCHANGED <<command, env, flags, config>>

SettingsNext == Parse \/ Load \/ ApplyEnv \/ Resolve \/ ConfigCommand

SettingsSpec == SettingsInit /\ [][SettingsNext]_settingsVars

-----------------------------------------------------------------------------
(* The layers as the documentation tells of them. *)
FileLayer == IF files[Place] = Unset THEN Template ELSE files[Place]

\* The topmost layer that mentions something.
Topmost(flag, variable, entry, default) == Or(flag, Or(variable, Or(entry, default)))

Address == Topmost(flags.relay, NonEmpty(env.relay), NonEmpty(FileLayer.relay), Unset)

\* The token of the topmost layer that mentions one.
Token == Topmost(flags.token, NonEmpty(env.token), NonEmpty(FileLayer.token), Unset)

\* An address in the layer of that token, or in one below, to go with it. A
\* token on the command line needs none.
TokenHasAddress ==
  \/ flags.token # Unset
  \/ NonEmpty(env.token) # Unset /\ NonEmpty(env.relay) # Unset
  \/ NonEmpty(FileLayer.relay) # Unset

\* No token but the topmost is ever used, also when it is "", and it is used if
\* it has an address to go with. Of one that has none (RUSP_RELAY_TOKEN alone
\* under --relay, or for `rusp relay`) nothing is promised: the documentation
\* has it override what is below, and the program drops it.
TokenIsTopmost(token) ==
  \/ NonEmpty(token) = NonEmpty(Token)
  \/ NonEmpty(token) = Unset /\ ~TokenHasAddress

\* "Settings come from four places, each overriding the one before it"
\* (config.rs 3-8): what a command works with is what the topmost layer that
\* mentions it says, for every combination of layers; a refusal on the command
\* line (--no-relay, --no-lan) is never undone by another layer; and the token
\* goes with the address though each may come from another layer.
HighestLayerWins == stage = "ready" =>
  IF command = "relay"
    THEN TokenIsTopmost(used.relay.token)
    ELSE /\ used.words = Topmost(flags.words, Unset, FileLayer.words, DefaultWords)
         /\ used.out = Topmost(flags.out, NonEmpty(env.out), FileLayer.out, ".")
         /\ flags.overwrite => used.policy = "overwrite"
         /\ ~flags.overwrite => used.policy = Topmost(flags.policy, Unset, FileLayer.policy, "rename")
         /\ used.lan = (FileLayer.lan # FALSE /\ ~flags.noLan)
         /\ (used.relay = Unset) = (flags.noRelay \/ Address = Unset)
         /\ used.relay # Unset =>
              /\ used.relay.address = Normalize(Address) /\ used.relay.address.port # Unset
              /\ TokenIsTopmost(used.relay.token)
=============================================================================
