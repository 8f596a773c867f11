-------------------------- MODULE ArgumentsProofs ---------------------------
(***************************************************************************)
(* What a command line comes to.  Settings: for all layers that            *)
(* SettingsAssumption allows, the topmost layer that mentions a setting    *)
(* decides.  Manifest: for all arguments, folders and offers that          *)
(* ManifestAssumption allows, what scan offers the receiver accepts, and   *)
(* what the receiver asks for the sender can send.                         *)
(***************************************************************************)
EXTENDS Settings, Manifest, TLAPS, FiniteSetTheorems, SequenceTheorems

-----------------------------------------------------------------------------
(* The layers of the configuration. *)

\* What Load leaves is what the file layer says, also if there is no file.
Loaded == FromFile(FileLayer)

\* What ApplyEnv makes of it.
Applied == [Loaded EXCEPT
              !.relay = Layered(@, NonEmpty(env.relay), NonEmpty(env.token)),
              !.out = Or(NonEmpty(env.out), @)]

Stages == {"parse", "load", "apply", "resolve", "ready", "error"}

\* The tokens that are kept: those whose layer, or one below, has an address.
FileToken == IF NonEmpty(FileLayer.relay) = Unset THEN Unset ELSE NonEmpty(FileLayer.token)
EnvToken == IF Topmost(Unset, NonEmpty(env.relay), NonEmpty(FileLayer.relay), Unset) = Unset
              THEN Unset ELSE NonEmpty(env.token)

\* The topmost of these.
KeptToken == Topmost(flags.token, EnvToken, FileToken, Unset)

\* What a configuration command may have mentioned.
OnlyThePlace == \A flag \in DOMAIN flags \ {"config"} : ~Mentioned(flag)

\* At each stage the configuration is that of the layers so far.
IInv ==
  /\ files \in [ConfigPlaces -> Files \cup {Unset, Broken, Template}]
  /\ env \in Envs /\ flags \in FlagSets /\ command \in Commands
  /\ stage \in Stages
  /\ stage \in {"parse", "load"} => config = Default
  /\ stage \notin {"parse", "error"} /\ command = "config" => OnlyThePlace
  /\ stage \in {"apply", "resolve"} => files[Place] # Broken
  /\ stage = "apply" => config = Loaded
  /\ stage = "resolve" => config = Applied
  /\ HighestLayerWins

-----------------------------------------------------------------------------
(* Relays. *)
Relays == [address : Addresses, token : TokenValues]

\* An address that has been given its port is one.
LEMMA NormalizedIsAddress ==
  ASSUME SettingsAssumption, NEW a \in Addresses
  PROVE  Normalize(a) \in Addresses /\ Normalize(a).port # Unset
BY DEF SettingsAssumption, Addresses, Normalize, Or

\* A relay of an address and a token that may be empty, or None.
LEMMA RelayIsRelay ==
  ASSUME SettingsAssumption, NEW a \in Addresses, NEW t \in TokenValues
  PROVE  /\ Relay(a, t) \in Relays /\ Relay(a, t) # Unset
         /\ Relay(a, t).address = Normalize(a) /\ Relay(a, t).token = NonEmpty(t)
<1>1. NonEmpty(t) \in TokenValues
  BY DEF NonEmpty, TokenValues
<1>2. Normalize(a) \in Addresses
  BY NormalizedIsAddress
<1>3. QED
  BY <1>1, <1>2 DEF SettingsAssumption, Relay, Relays

\* One layer on top of another: the address of the upper one if it has one,
\* and its token if it has one and there is an address to go with it.
LEMMA LayeredDecides ==
  ASSUME SettingsAssumption, NEW r \in Relays \cup {Unset},
         NEW a \in Addresses \cup {Unset}, NEW t \in TokenValues
  PROVE  /\ Layered(r, a, t) \in Relays \cup {Unset}
         /\ (Layered(r, a, t) = Unset) = (a = Unset /\ r = Unset)
         /\ a # Unset => Layered(r, a, t).address = Normalize(a)
         /\ a = Unset /\ r # Unset => Layered(r, a, t).address = r.address
         /\ Layered(r, a, t) # Unset =>
              NonEmpty(Layered(r, a, t).token) = NonEmpty(Or(t, TokenOf(r)))
         /\ Layered(r, a, t) # Unset /\ t # Empty /\ TokenOf(r) # Empty =>
              Layered(r, a, t).token = Or(t, TokenOf(r))
<1>1. TokenOf(r) \in TokenValues /\ Or(t, TokenOf(r)) \in TokenValues
  BY DEF TokenOf, Or, Relays, TokenValues
<1>2. CASE a # Unset
  <2>1. a \in Addresses /\ Layered(r, a, t) = Relay(a, Or(t, TokenOf(r)))
    BY <1>2 DEF Layered
  <2>2. /\ NonEmpty(NonEmpty(Or(t, TokenOf(r)))) = NonEmpty(Or(t, TokenOf(r)))
        /\ t # Empty /\ TokenOf(r) # Empty => NonEmpty(Or(t, TokenOf(r))) = Or(t, TokenOf(r))
    BY DEF NonEmpty, Or
  <2>3. QED
    BY <1>1, <1>2, <2>1, <2>2, RelayIsRelay
<1>3. CASE a = Unset /\ t # Unset /\ r # Unset
  <2>1. Layered(r, a, t) = [r EXCEPT !.token = t] /\ r \in Relays
    BY <1>3 DEF Layered
  <2>2. [r EXCEPT !.token = t] \in Relays /\ [r EXCEPT !.token = t].address = r.address
        /\ [r EXCEPT !.token = t].token = t
    BY <2>1 DEF Relays
  <2>3. QED
    BY <1>3, <2>1, <2>2 DEF Or, SettingsAssumption, Relays
<1>4. CASE a = Unset /\ (t = Unset \/ r = Unset)
  <2>1. Layered(r, a, t) = r
    BY <1>4 DEF Layered
  <2>2. QED
    BY <1>4, <2>1 DEF Or, TokenOf
<1>5. QED
  BY <1>2, <1>3, <1>4

-----------------------------------------------------------------------------
(* The layers. *)

LEMMA FileLayerTyped ==
  ASSUME SettingsAssumption, files \in [ConfigPlaces -> Files \cup {Unset, Broken, Template}],
         files[Place] # Broken
  PROVE  /\ FileLayer.relay \in RelayValues /\ FileLayer.token \in TokenValues
         /\ FileLayer.lan \in BOOLEAN \cup {Unset}
<1>1. Place \in ConfigPlaces
  BY DEF Place, ConfigPlaces
<1>2. files[Place] \in Files \/ FileLayer = Template
  BY <1>1 DEF FileLayer
<1>3. CASE FileLayer = Template
  BY <1>3 DEF Template, RelayValues, TokenValues
<1>4. CASE files[Place] \in Files
  BY <1>4 DEF FileLayer, SettingsAssumption
<1>5. QED
  BY <1>2, <1>3, <1>4

\* What the file says of the relay.
LEMMA LoadedRelay ==
  ASSUME SettingsAssumption, files \in [ConfigPlaces -> Files \cup {Unset, Broken, Template}],
         files[Place] # Broken
  PROVE  /\ Loaded.relay \in Relays \cup {Unset}
         /\ (Loaded.relay = Unset) = (NonEmpty(FileLayer.relay) = Unset)
         /\ Loaded.relay # Unset => Loaded.relay.address = Normalize(NonEmpty(FileLayer.relay))
         /\ TokenOf(Loaded.relay) = FileToken
<1>1. FileLayer.relay \in RelayValues /\ FileLayer.token \in TokenValues
  BY FileLayerTyped
<1>2. Loaded.relay = IF NonEmpty(FileLayer.relay) = Unset THEN Unset ELSE Relay(FileLayer.relay, FileLayer.token)
  BY DEF Loaded, FromFile
<1>3. CASE NonEmpty(FileLayer.relay) = Unset
  BY <1>2, <1>3 DEF TokenOf, FileToken
<1>4. CASE NonEmpty(FileLayer.relay) # Unset
  <2>1. FileLayer.relay \in Addresses /\ NonEmpty(FileLayer.relay) = FileLayer.relay
    BY <1>1, <1>4 DEF NonEmpty, RelayValues
  <2>2. QED
    BY <1>1, <1>2, <1>4, <2>1, RelayIsRelay DEF TokenOf, FileToken
<1>5. QED
  BY <1>3, <1>4

\* And the environment on top of it.
LEMMA AppliedRelay ==
  ASSUME SettingsAssumption, files \in [ConfigPlaces -> Files \cup {Unset, Broken, Template}],
         files[Place] # Broken, env \in Envs
  PROVE  /\ Applied.relay \in Relays \cup {Unset}
         /\ (Applied.relay = Unset) = (Topmost(Unset, NonEmpty(env.relay), NonEmpty(FileLayer.relay), Unset) = Unset)
         /\ Applied.relay # Unset =>
              Applied.relay.address = Normalize(Topmost(Unset, NonEmpty(env.relay), NonEmpty(FileLayer.relay), Unset))
         /\ TokenOf(Applied.relay) = Topmost(Unset, EnvToken, FileToken, Unset)
<1> DEFINE a == NonEmpty(env.relay)
           t == NonEmpty(env.token)
<1>1. a \in Addresses \cup {Unset} /\ t \in TokenValues
  BY DEF SettingsAssumption, NonEmpty, RelayValues, TokenValues
<1>2. Applied.relay = Layered(Loaded.relay, a, t)
  BY DEF Applied, Loaded, FromFile
<1>3. /\ Loaded.relay \in Relays \cup {Unset}
      /\ (Loaded.relay = Unset) = (NonEmpty(FileLayer.relay) = Unset)
      /\ Loaded.relay # Unset => Loaded.relay.address = Normalize(NonEmpty(FileLayer.relay))
      /\ TokenOf(Loaded.relay) = FileToken
  BY LoadedRelay
<1> DEFINE r == Layered(Loaded.relay, a, t)
<1>4. /\ r \in Relays \cup {Unset}
      /\ (r = Unset) = (a = Unset /\ Loaded.relay = Unset)
      /\ a # Unset => r.address = Normalize(a)
      /\ a = Unset /\ Loaded.relay # Unset => r.address = Loaded.relay.address
      /\ r # Unset => r.token = Or(t, FileToken)
  <2>1. t # Empty /\ FileToken # Empty
    BY DEF NonEmpty, FileToken, SettingsAssumption
  <2>2. QED
    BY <1>1, <1>3, <2>1, LayeredDecides
<1> HIDE DEF a, t, r
<1>5. Topmost(Unset, a, NonEmpty(FileLayer.relay), Unset) = Or(a, NonEmpty(FileLayer.relay))
  BY DEF Topmost, Or
<1>6. r # Unset => EnvToken = t
  BY <1>3, <1>4, <1>5 DEF EnvToken, a, t, Or
<1>7. r # Unset => Topmost(Unset, EnvToken, FileToken, Unset) = Or(t, FileToken)
  BY <1>6 DEF Topmost, Or
<1>8. r = Unset => Topmost(Unset, EnvToken, FileToken, Unset) = Unset
  BY <1>3, <1>4, <1>5 DEF EnvToken, FileToken, Topmost, Or, a
<1>9. TokenOf(r) = IF r = Unset THEN Unset ELSE r.token
  BY DEF TokenOf
<1>10. QED
  BY <1>2, <1>3, <1>4, <1>5, <1>7, <1>8, <1>9 DEF Or, a, r, t

\* It is the topmost of all, or that one has no address to go with.
LEMMA KeptIsTopmost ==
  ASSUME NEW token, NonEmpty(token) = NonEmpty(KeptToken)
  PROVE  TokenIsTopmost(token)
<1>1. CASE flags.token # Unset
  BY <1>1 DEF KeptToken, Token, Topmost, Or, TokenIsTopmost
<1>2. CASE flags.token = Unset /\ TokenHasAddress
  <2>1. KeptToken = Token
    BY <1>2 DEF KeptToken, Token, Topmost, Or, TokenHasAddress, EnvToken, FileToken
  <2>2. QED
    BY <2>1 DEF TokenIsTopmost
<1>3. CASE flags.token = Unset /\ ~TokenHasAddress
  <2>1. KeptToken = Unset
    BY <1>3 DEF KeptToken, Topmost, Or, TokenHasAddress, EnvToken, FileToken
  <2>2. QED
    BY <1>3, <2>1 DEF TokenIsTopmost, NonEmpty
<1>4. QED
  BY <1>1, <1>2, <1>3

-----------------------------------------------------------------------------
(* The invariant. *)

\* A file that is not there, or only of comments, leaves the defaults.
LEMMA EmptyFile ==
  ASSUME SettingsAssumption
  PROVE  FromFile(Template) = Default
BY DEF SettingsAssumption, FromFile, Template, Default, NonEmpty, Or

LEMMA PlaceIsPlace == Place \in ConfigPlaces /\ ShownPlace \in ConfigPlaces
BY DEF Place, ShownPlace, ConfigPlaces

LEMMA InitInv ==
  ASSUME SettingsAssumption, SettingsInit
  PROVE  IInv
<1>1. files \in [ConfigPlaces -> Files \cup {Unset, Broken, Template}]
  BY DEF SettingsInit
<1>2. QED
  BY <1>1 DEF SettingsInit, IInv, Stages, HighestLayerWins

\* What a command works with when its settings have been resolved.
LEMMA ResolveDecides ==
  ASSUME SettingsAssumption, IInv, Resolve
  PROVE  HighestLayerWins'
<1>1. /\ files \in [ConfigPlaces -> Files \cup {Unset, Broken, Template}]
      /\ env \in Envs /\ flags \in FlagSets /\ command \in Commands \ {"config"}
      /\ files[Place] # Broken /\ config = Applied
      /\ UNCHANGED <<command, files, env, flags>>
  BY DEF IInv, Resolve, Given
<1>2. /\ Applied.words = Or(FileLayer.words, DefaultWords)
      /\ Applied.out = Or(NonEmpty(env.out), Or(FileLayer.out, "."))
      /\ Applied.policy = Or(FileLayer.policy, "rename")
      /\ Applied.lan = Or(FileLayer.lan, TRUE)
  BY DEF Applied, Loaded, FromFile, Default
<1>3. flags.relay \in Addresses \cup {Unset} /\ flags.token \in TokenValues
      /\ flags.noRelay \in BOOLEAN /\ flags.noLan \in BOOLEAN /\ flags.overwrite \in BOOLEAN
  BY <1>1 DEF SettingsAssumption
<1>4. FileLayer.lan \in BOOLEAN \cup {Unset} /\ Unset \notin BOOLEAN
  BY <1>1, FileLayerTyped DEF SettingsAssumption
<1> DEFINE below == Topmost(Unset, NonEmpty(env.relay), NonEmpty(FileLayer.relay), Unset)
           tokens == Topmost(Unset, EnvToken, FileToken, Unset)
           r == Layered(config.relay, flags.relay, flags.token)
<1>5. /\ config.relay \in Relays \cup {Unset}
      /\ (config.relay = Unset) = (below = Unset)
      /\ config.relay # Unset => config.relay.address = Normalize(below)
      /\ TokenOf(config.relay) = tokens
  BY <1>1, AppliedRelay
<1>6. /\ r \in Relays \cup {Unset}
      /\ (r = Unset) = (flags.relay = Unset /\ config.relay = Unset)
      /\ flags.relay # Unset => r.address = Normalize(flags.relay)
      /\ flags.relay = Unset /\ config.relay # Unset => r.address = config.relay.address
      /\ r # Unset => NonEmpty(r.token) = NonEmpty(Or(flags.token, TokenOf(config.relay)))
  BY <1>3, <1>5, LayeredDecides
<1>7. /\ Address = Or(flags.relay, below)
      /\ KeptToken = Or(flags.token, tokens)
  BY DEF Address, Topmost, Or, KeptToken
<1>8. Address # Unset => Normalize(Address).port # Unset
  <2>1. flags.relay # Unset => flags.relay \in Addresses
    BY <1>3
  <2>2. NonEmpty(env.relay) \in Addresses \cup {Unset} /\ NonEmpty(FileLayer.relay) \in Addresses \cup {Unset}
    BY <1>1, FileLayerTyped DEF SettingsAssumption, NonEmpty, RelayValues
  <2>3. Address \in Addresses \cup {Unset}
    BY <2>1, <2>2 DEF Address, Topmost, Or
  <2>4. QED
    BY <2>3, NormalizedIsAddress
<1> HIDE DEF below, tokens, r
<1>9. CASE command = "relay"
  <2>1. used'.relay.token = Or(flags.token, TokenOf(config.relay)) /\ command' = "relay"
    BY <1>1, <1>9 DEF Resolve, Default
  <2>2. TokenIsTopmost(used'.relay.token)
    BY <1>5, <1>7, <2>1, KeptIsTopmost
  <2>3. TokenIsTopmost(used.relay.token)'
    BY <1>1, <2>2 DEF TokenIsTopmost, TokenHasAddress, Token, Topmost, FileLayer, Place
  <2>4. QED
    BY <2>1, <2>3 DEF HighestLayerWins
<1>10. CASE command # "relay"
  <2>1. /\ used'.relay = IF flags.noRelay THEN Unset ELSE r
        /\ used'.lan = (config.lan /\ ~flags.noLan)
        /\ used'.words = Or(flags.words, config.words)
        /\ used'.out = Or(flags.out, config.out)
        /\ used'.policy = IF flags.overwrite THEN "overwrite" ELSE Or(flags.policy, config.policy)
        /\ command' # "relay"
    BY <1>1, <1>10 DEF Resolve, ConflictPolicy, r
  <2>2. FileLayer' = FileLayer /\ Address' = Address
    BY <1>1 DEF Topmost, FileLayer, Place, Address
  <2>3. /\ used'.words = Topmost(flags.words, Unset, FileLayer.words, DefaultWords)
        /\ used'.out = Topmost(flags.out, NonEmpty(env.out), FileLayer.out, ".")
        /\ flags.overwrite => used'.policy = "overwrite"
        /\ ~flags.overwrite => used'.policy = Topmost(flags.policy, Unset, FileLayer.policy, "rename")
    BY <1>1, <1>2, <2>1 DEF Topmost, Or
  <2>4. used'.lan = (FileLayer.lan # FALSE /\ ~flags.noLan)
    BY <1>1, <1>2, <1>4, <2>1 DEF Or
  <2>5. (used'.relay = Unset) = (flags.noRelay \/ Address = Unset)
    BY <1>5, <1>6, <1>7, <2>1 DEF Or
  <2>6. used'.relay # Unset =>
              /\ used'.relay.address = Normalize(Address) /\ used'.relay.address.port # Unset
              /\ NonEmpty(used'.relay.token) = NonEmpty(KeptToken)
    BY <1>5, <1>6, <1>7, <1>8, <2>1 DEF Or
  <2>7. Normalize(Address)' = Normalize(Address)
    BY <2>2 DEF Normalize, Or
  <2>8. used'.relay # Unset => TokenIsTopmost(used.relay.token)'
    <3>1. used'.relay # Unset => TokenIsTopmost(used'.relay.token)
      BY <2>6, KeptIsTopmost
    <3>2. QED
      BY <1>1, <2>2, <3>1 DEF TokenIsTopmost, TokenHasAddress, Token, Topmost
  <2>9. QED
    BY <1>1, <2>1, <2>2, <2>3, <2>4, <2>5, <2>6, <2>7, <2>8 DEF HighestLayerWins, Topmost
<1>11. QED
  BY <1>9, <1>10

\* What `config` shows, and that the file it may write changes nothing.
LEMMA ConfigCommandDecides ==
  ASSUME SettingsAssumption, IInv, ConfigCommand
  PROVE  /\ HighestLayerWins'
         /\ files' \in [ConfigPlaces -> Files \cup {Unset, Broken, Template}]
<1>1. /\ files \in [ConfigPlaces -> Files \cup {Unset, Broken, Template}]
      /\ env \in Envs /\ flags \in FlagSets /\ command = "config" /\ OnlyThePlace
      /\ files[Place] # Broken /\ config = Applied /\ used' = Applied
      /\ UNCHANGED <<command, env, flags, config>>
  BY DEF IInv, ConfigCommand
<1>2. /\ files' \in [ConfigPlaces -> Files \cup {Unset, Broken, Template}]
      /\ FileLayer' = FileLayer
  BY <1>1, PlaceIsPlace DEF ConfigCommand, FileLayer, Place
<1>3. /\ Applied.words = Or(FileLayer.words, DefaultWords)
      /\ Applied.out = Or(NonEmpty(env.out), Or(FileLayer.out, "."))
      /\ Applied.policy = Or(FileLayer.policy, "rename")
      /\ Applied.lan = Or(FileLayer.lan, TRUE)
  BY DEF Applied, Loaded, FromFile, Default
<1>4. /\ flags.relay = Unset /\ flags.token = Unset /\ flags.words = Unset
      /\ flags.out = Unset /\ flags.policy = Unset
      /\ ~flags.noRelay /\ ~flags.noLan /\ ~flags.overwrite
  BY <1>1 DEF SettingsAssumption, OnlyThePlace, Mentioned, Switches
<1>5. FileLayer.lan \in BOOLEAN \cup {Unset} /\ Unset \notin BOOLEAN
  BY <1>1, FileLayerTyped DEF SettingsAssumption
<1> DEFINE below == Topmost(Unset, NonEmpty(env.relay), NonEmpty(FileLayer.relay), Unset)
           tokens == Topmost(Unset, EnvToken, FileToken, Unset)
<1>6. /\ Applied.relay \in Relays \cup {Unset}
      /\ (Applied.relay = Unset) = (below = Unset)
      /\ Applied.relay # Unset => Applied.relay.address = Normalize(below)
      /\ TokenOf(Applied.relay) = tokens
  BY <1>1, AppliedRelay
<1>7. /\ Address = below
      /\ KeptToken = tokens
  BY <1>4 DEF Address, Topmost, Or, KeptToken
<1>8. below # Unset => Normalize(below).port # Unset
  <2>1. NonEmpty(env.relay) \in Addresses \cup {Unset} /\ NonEmpty(FileLayer.relay) \in Addresses \cup {Unset}
    BY <1>1, FileLayerTyped DEF SettingsAssumption, NonEmpty, RelayValues
  <2>2. below \in Addresses \cup {Unset}
    BY <2>1 DEF Topmost, Or
  <2>3. QED
    BY <2>2, NormalizedIsAddress
<1>9. Address' = Address /\ Normalize(Address)' = Normalize(Address)
  BY <1>1, <1>2 DEF Topmost, Address, Normalize, Or
<1> HIDE DEF below, tokens
<1>10. /\ Applied.words = Topmost(flags.words, Unset, FileLayer.words, DefaultWords)
       /\ Applied.out = Topmost(flags.out, NonEmpty(env.out), FileLayer.out, ".")
       /\ Applied.policy = Topmost(flags.policy, Unset, FileLayer.policy, "rename")
  BY <1>3, <1>4 DEF Topmost, Or
<1>11. Applied.lan = (FileLayer.lan # FALSE /\ ~flags.noLan)
  BY <1>3, <1>4, <1>5 DEF Or
<1>12. Applied.relay # Unset => TokenOf(Applied.relay) = Applied.relay.token
  BY DEF TokenOf
<1>13. HighestLayerWins'
  <2>1. /\ (Applied.relay = Unset) = (flags.noRelay \/ Address = Unset)
        /\ Applied.relay # Unset =>
              /\ Applied.relay.address = Normalize(Address) /\ Applied.relay.address.port # Unset
              /\ NonEmpty(Applied.relay.token) = NonEmpty(KeptToken)
    BY <1>4, <1>6, <1>7, <1>8, <1>12
  <2>2. command' # "relay"
    BY <1>1
  <2>3. Applied.relay # Unset => TokenIsTopmost(used.relay.token)'
    <3>1. Applied.relay # Unset => TokenIsTopmost(Applied.relay.token)
      BY <2>1, KeptIsTopmost
    <3>2. QED
      BY <1>1, <1>2, <3>1 DEF TokenIsTopmost, TokenHasAddress, Token, Topmost
  <2>4. QED
    BY <1>1, <1>2, <1>4, <1>9, <1>10, <1>11, <2>1, <2>2, <2>3 DEF HighestLayerWins, Topmost
<1>14. QED
  BY <1>2, <1>13

LEMMA NextInv ==
  ASSUME SettingsAssumption, IInv, [SettingsNext]_settingsVars
  PROVE  IInv'
<1>1. CASE Parse
  <2>1. stage = "parse" /\ UNCHANGED <<command, files, env, flags, config, used>>
        /\ stage' \in {"error", "load"}
    BY <1>1 DEF Parse, Given
  <2>2. stage' = "load" => \A flag \in (DOMAIN flags \ {"config"}) \ Accepts[command] : ~Mentioned(flag)
    BY <1>1 DEF Parse
  <2>3. stage' = "load" /\ command = "config" => OnlyThePlace'
    BY <2>1, <2>2 DEF OnlyThePlace, Accepts, Mentioned
  <2>4. QED
    BY <2>1, <2>3 DEF IInv, HighestLayerWins, Stages
<1>2. CASE Load
  <2>1. stage = "load" /\ UNCHANGED <<command, files, env, flags, used>>
        /\ stage' \in {"error", "apply"}
    BY <1>2 DEF Load, Given
  <2>2. Loaded' = Loaded /\ OnlyThePlace' = OnlyThePlace /\ Place' = Place
    BY <2>1 DEF Loaded, FromFile, FileLayer, Place, OnlyThePlace, Mentioned
  <2>3. stage' = "apply" => files[Place] # Broken /\ config' = Loaded
    BY <1>2, EmptyFile DEF Load, IInv, Loaded, FileLayer, SettingsAssumption
  <2>4. QED
    BY <2>1, <2>2, <2>3 DEF IInv, HighestLayerWins, Stages
<1>3. CASE ApplyEnv
  <2>1. stage = "apply" /\ UNCHANGED <<command, files, env, flags, used>>
        /\ stage' = "resolve"
    BY <1>3 DEF ApplyEnv, Given
  <2>2. Applied' = Applied /\ OnlyThePlace' = OnlyThePlace /\ Place' = Place
    BY <2>1 DEF Applied, Loaded, FromFile, FileLayer, Place, OnlyThePlace, Mentioned
  <2>3. config' = Applied
    BY <1>3 DEF ApplyEnv, IInv, Applied
  <2>4. QED
    BY <2>1, <2>2, <2>3 DEF IInv, HighestLayerWins, Stages
<1>4. CASE Resolve
  <2>1. UNCHANGED <<command, files, env, flags, config>> /\ stage' = "ready" /\ command # "config"
    BY <1>4 DEF Resolve, Given
  <2>2. QED
    BY <1>4, <2>1, ResolveDecides DEF IInv, Stages
<1>5. CASE ConfigCommand
  <2>1. UNCHANGED <<command, env, flags, config>> /\ stage = "resolve" /\ stage' = "ready"
    BY <1>5 DEF ConfigCommand
  <2>2. OnlyThePlace' = OnlyThePlace
    BY <2>1 DEF OnlyThePlace, Mentioned
  <2>3. QED
    BY <1>5, <2>1, <2>2, ConfigCommandDecides DEF IInv, Stages
<1>6. CASE UNCHANGED settingsVars
  <2>1. UNCHANGED <<command, files, env, flags, config, used, stage>>
    BY <1>6 DEF settingsVars
  <2>2. /\ FileLayer' = FileLayer /\ Place' = Place /\ OnlyThePlace' = OnlyThePlace
        /\ Loaded' = Loaded /\ Applied' = Applied
    BY <2>1 DEF FileLayer, Place, OnlyThePlace, Mentioned, Loaded, Applied, FromFile
  <2>3. /\ Address' = Address /\ Normalize(Address)' = Normalize(Address)
        /\ TokenIsTopmost(used.relay.token)' = TokenIsTopmost(used.relay.token)
    BY <2>1, <2>2 DEF Address, Normalize, Topmost, TokenIsTopmost, TokenHasAddress, Token, Or
  <2>4. HighestLayerWins' = HighestLayerWins
    BY <2>1, <2>2, <2>3, Zenon DEF HighestLayerWins, Topmost
  <2>5. QED
    BY <2>1, <2>2, <2>4 DEF IInv
<1>7. QED
  BY <1>1, <1>2, <1>3, <1>4, <1>5, <1>6 DEF SettingsNext

\* The settings of a command are what the topmost layer says that mentions
\* them, for all files, variables and flags; a token too, if its layer or one
\* below has an address, and no token but that one is ever used.
\* (config.rs 3-8, 158-180, 217-221; app.rs 443-461)
THEOREM TopmostLayerWins ==
  ASSUME SettingsAssumption
  PROVE  SettingsSpec => []HighestLayerWins
<1>1. SettingsInit => IInv
  BY InitInv
<1>2. IInv /\ [SettingsNext]_settingsVars => IInv'
  BY NextInv
<1>3. IInv => HighestLayerWins
  BY DEF IInv
<1>4. QED
  BY <1>1, <1>2, <1>3, PTL DEF SettingsSpec

-----------------------------------------------------------------------------
(* Numbers. *)

\* Induction, over the numbers that a set has.
LEMMA Induction ==
  ASSUME NEW S, 0 \in S, \A n \in Nat : n \in S => n + 1 \in S
  PROVE  Nat \subseteq S
<1>1. SUFFICES ASSUME NEW n \in Nat, n \notin S
               PROVE  FALSE
  OBVIOUS
<1> DEFINE T == S \cap (0..n)
           f == [k \in T |-> k + 1]
<1>2. IsFiniteSet(T) /\ Cardinality(T) \in Nat
  <2>1. IsFiniteSet(0..n)
    BY FS_Interval
  <2>2. IsFiniteSet(T)
    BY <2>1, FS_Subset
  <2>3. QED  BY <2>2, FS_CardinalityType
<1>3. IsFiniteSet(T \ {0}) /\ Cardinality(T \ {0}) = Cardinality(T) - 1
  <2>1. 0 \in T
    OBVIOUS
  <2> HIDE DEF T
  <2>2. QED  BY <1>2, <2>1, FS_RemoveElement
<1>4. f \in Injection(T, T \ {0})
  <2>1. \A k \in T : k + 1 \in T \ {0}
    BY <1>1
  <2>2. \A j, k \in T : f[j] = f[k] => j = k
    OBVIOUS
  <2>3. QED  BY <2>1, <2>2 DEF Injection, IsInjective
<1> HIDE DEF T, f
<1>5. Cardinality(T) <= Cardinality(T \ {0})
  BY <1>3, <1>4, FS_Injection
<1>6. QED  BY <1>2, <1>3, <1>5

\* Some number comes first.
LEMMA FirstIsFirst ==
  ASSUME NEW S, S \subseteq Nat, S # {}
  PROVE  First(S) \in S /\ \A k \in S : First(S) <= k
<1>1. SUFFICES ASSUME ~ \E n \in S : \A k \in S : n <= k
               PROVE  FALSE
  BY DEF First
<1> DEFINE T == {n \in Nat : \A k \in S : n < k}
<1>2. 0 \in T
  BY <1>1
<1>3. ASSUME NEW n \in Nat, n \in T
      PROVE  n + 1 \in T
  BY <1>1, <1>3
<1> HIDE DEF T
<1>4. Nat \subseteq T
  BY <1>2, <1>3, Induction
<1>5. PICK k \in S : TRUE
  OBVIOUS
<1>6. k \in T
  BY <1>4
<1>7. k < k
  BY <1>6 DEF T
<1>8. QED  BY <1>7

-----------------------------------------------------------------------------
(* Names that are numbered. *)

Size(c) == c.size
Bytes(path) == UNION {{i} \X (0..Size(path[i])) : i \in 1..Len(path)}

LEMMA SizeIsNumber == ASSUME NEW c \in Component PROVE Size(c) \in Nat
BY DEF Component, Size

LEMMA SizesAreNumbers ==
  ASSUME NEW n \in Nat
  PROVE  Digits(n) \in Nat /\ MarkSize(n) \in Nat /\ MarkSize(n) >= 3
<1> DEFINE D == {k \in 0..9 : 10^k <= n}
<1>1. IsFiniteSet(0..9)
  <2>1. 0 \in Int /\ 9 \in Int
    OBVIOUS
  <2>2. QED  BY <2>1, FS_Interval
<1>2. D \subseteq 0..9
  OBVIOUS
<1> HIDE DEF D
<1>3. IsFiniteSet(D) /\ Cardinality(D) \in Nat
  BY <1>1, <1>2, FS_Subset, FS_CardinalityType
<1>4. QED  BY <1>3 DEF Digits, MarkSize, D

LEMMA BytesAreFinite ==
  ASSUME NEW path \in Seq(Component)
  PROVE  IsFiniteSet(Bytes(path)) /\ Cardinality(Bytes(path)) \in Nat
<1> DEFINE Part(i) == {i} \X (0..Size(path[i]))
           Parts == {Part(i) : i \in 1..Len(path)}
<1>1. IsFiniteSet(Parts)
  <2>1. IsFiniteSet(1..Len(path))
    BY FS_Interval
  <2> DEFINE f == [i \in 1..Len(path) |-> Part(i)]
  <2>2. f \in Surjection(1..Len(path), Parts)
    <3> HIDE DEF Part
    <3>1. QED  BY DEF Surjection
  <2> HIDE DEF f, Parts
  <2>3. QED  BY <2>1, <2>2, FS_Surjection
<1>2. \A i \in 1..Len(path) : IsFiniteSet(Part(i))
  <2> TAKE i \in 1..Len(path)
  <2>1. Size(path[i]) \in Nat
    BY SizeIsNumber
  <2>2. IsFiniteSet(0..Size(path[i]))
    BY <2>1, FS_Interval
  <2>3. IsFiniteSet({i})
    BY FS_Singleton
  <2>4. QED  BY <2>2, <2>3, FS_Product
<1>3. IsFiniteSet(UNION Parts)
  BY <1>1, <1>2, FS_UNION
<1>4. QED  BY <1>3, FS_CardinalityType DEF Bytes

\* A name stays one, however its last component is numbered.
LEMMA NumberedIsName ==
  ASSUME NEW name \in Names, NEW c \in Component, c.sep = name[Len(name)].sep
  PROVE  EndingIn(name, c) \in Names
BY DEF Names, EndingIn

LEMMA MarkIsName ==
  ASSUME NEW name \in Names, NEW n \in Nat
  PROVE  /\ Mark(name, n) \in Names /\ Len(Mark(name, n)) = Len(name)
         /\ \A i \in 1..Len(name) : i # Len(name) => Mark(name, n)[i] = name[i]
         /\ \A i \in 1..Len(name) : Mark(name, n)[i].fault = name[i].fault
         /\ Size(Mark(name, n)[Len(name)]) = Size(name[Len(name)]) + MarkSize(n)
<1> DEFINE k == Len(name)
           marks == Append(name[k].marks, n)
           size == Size(name[k]) + MarkSize(n)
           c == [name[k] EXCEPT !.marks = marks, !.size = size]
<1>1. k \in 1..k /\ name[k] \in Component /\ name \in Seq(Component)
  BY DEF Names
<1>2. marks \in Seq(Nat) /\ size \in Nat
  <2>1. name[k].marks \in Seq(Nat)
    BY <1>1 DEF Component
  <2>2. Size(name[k]) \in Nat /\ MarkSize(n) \in Nat
    BY <1>1, SizeIsNumber, SizesAreNumbers
  <2>3. QED  BY <2>1, <2>2
<1>3. Mark(name, n) = EndingIn(name, c)
  BY DEF Mark, Size
<1> HIDE DEF k, marks, size
<1>4. c \in Component /\ c.sep = name[k].sep /\ c.fault = name[k].fault /\ Size(c) = size
  BY <1>1, <1>2 DEF Component, Size
<1> HIDE DEF c
<1>5. Mark(name, n) \in Names
  BY <1>3, <1>4, NumberedIsName DEF k
<1>6. /\ Len(Mark(name, n)) = k /\ Mark(name, n)[k] = c
      /\ \A i \in 1..k : i # k => Mark(name, n)[i] = name[i]
  BY <1>1, <1>3 DEF EndingIn, k
<1>7. QED
  BY <1>4, <1>5, <1>6 DEF k, size

\* Its number makes it longer, by what is put behind it.
LEMMA MarkIsLonger ==
  ASSUME NEW name \in Names, NEW n \in Nat
  PROVE  PathSize(Mark(name, n)) = PathSize(name) + MarkSize(n)
<1> DEFINE m == Mark(name, n)
           k == Len(name)
           s == Size(name[k])
           x == MarkSize(n)
           D == {k} \X ((s + 1)..(s + x))
<1>1. /\ m \in Names /\ Len(m) = k /\ Size(m[k]) = s + x
      /\ \A i \in 1..k : i # k => m[i] = name[i]
  BY MarkIsName
<1>2. /\ k \in Nat /\ k \in 1..k /\ s \in Nat /\ x \in Nat /\ x >= 3
      /\ \A i \in 1..k : Size(name[i]) \in Nat /\ Size(m[i]) \in Nat
      /\ name \in Seq(Component)
  <2>1. x \in Nat /\ x >= 3
    BY SizesAreNumbers
  <2>2. k \in Nat /\ k \in 1..k /\ name \in Seq(Component) /\ m \in Seq(Component)
    BY <1>1 DEF Names
  <2> HIDE DEF m, k, x
  <2>3. \A i \in 1..k : Size(name[i]) \in Nat /\ Size(m[i]) \in Nat
    <3> TAKE i \in 1..k
    <3>1. name[i] \in Component /\ m[i] \in Component
      BY <1>1, <2>2 DEF k
    <3>2. QED  BY <3>1, SizeIsNumber
  <2>4. QED  BY <2>1, <2>2, <2>3
<1> HIDE DEF m
<1>3. Bytes(m) = Bytes(name) \cup D
  <2>1. \A b : b \in Bytes(m) <=> \E i \in 1..k : b \in {i} \X (0..Size(m[i]))
    BY <1>1 DEF Bytes
  <2>2. \A b : b \in Bytes(name) <=> \E i \in 1..k : b \in {i} \X (0..Size(name[i]))
    BY DEF Bytes
  <2> HIDE DEF s, k, x
  <2>3. 0..(s + x) = (0..s) \cup ((s + 1)..(s + x))
    BY <1>2
  <2>4. {k} \X (0..Size(m[k])) = ({k} \X (0..Size(name[k]))) \cup D
    BY <1>1, <2>3 DEF s
  <2>5. \A i \in 1..k : i # k => {i} \X (0..Size(m[i])) = {i} \X (0..Size(name[i]))
    BY <1>1
  <2> HIDE DEF D
  <2>6. QED  BY <1>2, <2>1, <2>2, <2>4, <2>5
<1>4. Bytes(name) \cap D = {}
  <2>1. \A b \in Bytes(name) : \E i \in 1..k : b \in {i} \X (0..Size(name[i]))
    BY DEF Bytes
  <2>2. \A b \in D : b[1] = k /\ b[2] > s
    BY <1>2
  <2>3. \A b \in Bytes(name) : b[1] = k => b[2] <= s
    BY <1>2, <2>1
  <2>4. \A b \in Bytes(name) : b[2] \in Nat
    BY <1>2, <2>1
  <2>5. QED  BY <1>2, <2>2, <2>3, <2>4
<1>5. IsFiniteSet(D) /\ Cardinality(D) = x
  <2>1. IsFiniteSet({k}) /\ Cardinality({k}) = 1
    BY FS_Singleton
  <2>2. IsFiniteSet((s + 1)..(s + x)) /\ Cardinality((s + 1)..(s + x)) = x
    <3>1. s + 1 \in Int /\ s + x \in Int /\ s + 1 <= s + x
      BY <1>2
    <3>2. QED  BY <1>2, <3>1, FS_Interval
  <2> DEFINE I == (s + 1)..(s + x)
  <2> HIDE DEF I
  <2>3. IsFiniteSet(I) /\ Cardinality(I) = x
    BY <2>2 DEF I
  <2>4. IsFiniteSet({k} \X I) /\ Cardinality({k} \X I) = 1 * x
    BY <2>1, <2>3, FS_Product
  <2> HIDE DEF x, k
  <2>5. QED  BY <1>2, <2>4 DEF I
<1>6. IsFiniteSet(Bytes(name)) /\ Cardinality(Bytes(name)) \in Nat
  BY <1>2, BytesAreFinite
<1>7. IsFiniteSet(Bytes(m)) /\ Cardinality(Bytes(m)) = Cardinality(Bytes(name)) + x
  <2>1. Cardinality(Bytes(name) \cap D) = 0
    BY <1>4, FS_EmptySet
  <2> HIDE DEF D
  <2>2. Cardinality(Bytes(name) \cup D) = Cardinality(Bytes(name)) + x - 0
    BY <1>5, <1>6, <2>1, FS_Union
  <2>3. IsFiniteSet(Bytes(name) \cup D)
    BY <1>5, <1>6, FS_Union
  <2> HIDE DEF x
  <2>4. QED  BY <1>2, <1>3, <1>6, <2>2, <2>3
<1>8. Cardinality(Bytes(m)) - 1 = Cardinality(Bytes(name)) - 1 + x
  <2> HIDE DEF x
  <2>1. QED  BY <1>2, <1>6, <1>7
<1>9. \A path : PathSize(path) = Cardinality(Bytes(path)) - 1
  BY DEF PathSize, Bytes, Size
<1> HIDE DEF m
<1>10. PathSize(m) = PathSize(name) + x
  BY <1>8, <1>9
<1>11. QED  BY <1>10 DEF m

\* So a name that is refused once it is numbered has a component that is too long.
LEMMA MarkedIsValid ==
  ASSUME ManifestAssumption, NEW name \in Names, NEW n \in 2..LastTry, Validate(name),
         LeavesRoom(name), ~Overdone(Mark(name, n))
  PROVE  Validate(Mark(name, n))
<1> DEFINE m == Mark(name, n)
           k == Len(name)
<1>0. n \in Nat
  BY DEF ManifestAssumption
<1>1. m \in Names /\ Len(m) = k /\ \A i \in 1..k : m[i].fault = name[i].fault
  BY <1>0, MarkIsName
<1>2. PathSize(m) <= MaxPath
  BY <1>0, MarkIsLonger DEF LeavesRoom
<1>3. \A i \in 1..k : m[i] \in Component
  BY <1>1 DEF Names
<1>5. \A i \in 1..k : Size(m[i]) <= MaxComponent
  <2>1. MaxComponent \in Nat /\ \A i \in 1..k : Size(m[i]) \in Nat
    BY <1>3, SizeIsNumber DEF ManifestAssumption
  <2>2. \A i \in 1..k : ~(Size(m[i]) > MaxComponent)
    BY <1>1 DEF Overdone, Size
  <2>3. QED  BY <2>1, <2>2
<1> HIDE DEF m
<1>6. QED  BY <1>1, <1>2, <1>5 DEF Validate, Names, Size, m

\* The last resort leaves its mark.
LEMMA FallbackIsOverdone ==
  ASSUME NEW name \in Names, IsFiniteSet(taken)
  PROVE  Fallback(name) \in Names /\ Overdone(Fallback(name))
<1> DEFINE k == Len(name)
           more == Append(name[k].more, Cardinality(taken))
           size == Size(name[k]) + 1 + Digits(Cardinality(taken))
           c == [name[k] EXCEPT !.more = more, !.size = size]
<1>1. k \in 1..k /\ name[k] \in Component /\ name \in Seq(Component)
  BY DEF Names
<1>2. Cardinality(taken) \in Nat /\ Digits(Cardinality(taken)) \in Nat
  BY FS_CardinalityType, SizesAreNumbers
<1>3. more \in Seq(Nat) /\ more # <<>> /\ size \in Nat
  <2>1. name[k].more \in Seq(Nat) /\ Size(name[k]) \in Nat
    BY <1>1, SizeIsNumber DEF Component
  <2>2. more \in Seq(Nat) /\ more # <<>>
    BY <1>2, <2>1
  <2> HIDE DEF k
  <2>3. size \in Nat
    BY <1>2, <2>1
  <2>4. QED  BY <2>2, <2>3
<1>4. Fallback(name) = EndingIn(name, c)
  BY DEF Fallback, Size
<1> HIDE DEF more, size, k
<1>5. c \in Component /\ c.sep = name[k].sep /\ c.more # <<>>
  BY <1>1, <1>3 DEF Component, Size
<1> HIDE DEF c
<1>6. Fallback(name) \in Names
  BY <1>4, <1>5, NumberedIsName DEF k
<1>7. Len(Fallback(name)) = k /\ Fallback(name)[k] = c
  BY <1>1, <1>4 DEF EndingIn, k
<1>8. QED  BY <1>1, <1>5, <1>6, <1>7 DEF Overdone

\* What a name becomes is new, or by the last resort.
LEMMA Disambiguated ==
  ASSUME ManifestAssumption, NEW name \in Names, IsFiniteSet(taken), Validate(name),
         LeavesRoom(name)
  PROVE  LET top == Disambiguate(name)
         IN  top \in Names /\ (Overdone(top) \/ (top \notin taken /\ Validate(top)))
<1> DEFINE free == {n \in 2..LastTry : Mark(name, n) \notin taken}
<1>1. CASE name \notin taken
  BY <1>1 DEF Disambiguate
<1>2. CASE name \in taken /\ free # {}
  <2>1. First(free) \in free /\ First(free) \in Nat
    BY <1>2, FirstIsFirst
  <2>2. Disambiguate(name) = Mark(name, First(free))
    BY <1>2 DEF Disambiguate
  <2>3. QED  BY <2>1, <2>2, MarkIsName, MarkedIsValid
<1>3. CASE name \in taken /\ free = {}
  BY <1>3, FallbackIsOverdone DEF Disambiguate
<1>4. QED  BY <1>1, <1>2, <1>3
-----------------------------------------------------------------------------
(* What holds of an offer in the making, and of the receiver's plan. *)

\* A path begins with a name.
Under(top, path) ==
  /\ Len(top) <= Len(path) /\ \A i \in 1..Len(top) : path[i] = top[i]
  /\ Len(top) < Len(path) => path[Len(top) + 1].sep = "slash"

\* The type invariant.
ManifestTypes ==
  /\ origin \in {"ours", "other"} /\ follow \in BOOLEAN
  /\ offer = "scanning" => origin = "ours"
  /\ toScan \in Seq(Arguments) /\ toWalk \in Seq(Items) /\ sources \in Seq(Entries)
  /\ \A i \in 1..Len(toScan) : LeavesRoom(toScan[i].name)
  /\ taken \subseteq Names /\ IsFiniteSet(taken)
  /\ wanted \in Seq(Nat) /\ skipped \in Seq(Nat) /\ nextEntry \in Nat \ {0}

\* All that is offered, or will be, is under one of the names taken.
UnderTaken ==
  /\ \A i \in 1..Len(sources) : \E top \in taken : Under(top, sources[i].path)
  /\ \A i \in 1..Len(toWalk) : \E top \in taken : Under(top, toWalk[i].path)

\* No path is there twice, but of what cannot be read.
Differ ==
  /\ \A i, j \in 1..Len(sources) : i # j => sources[i].path # sources[j].path
  /\ \A i, j \in 1..Len(toWalk) : i # j /\ toWalk[i].path = toWalk[j].path =>
       "unreadable" \in {toWalk[i].kind, toWalk[j].kind}
  /\ \A i \in 1..Len(toWalk) : \A k \in 1..Len(sources) :
       toWalk[i].path = sources[k].path => toWalk[i].kind = "unreadable"

\* The receiver refuses none.
Valid == \A i \in 1..Len(sources) : Validate(sources[i].path)

\* A folder is offered before what is in it.
Within(path, i) ==
  \E j \in 1..i : Inside(sources[j].path, path) /\ sources[j].kind = "directory"
Nested ==
  /\ \A i \in 1..Len(sources) : sources[i].path \in Names \/ Within(sources[i].path, i - 1)
  /\ \A i \in 1..Len(toWalk) : Kept(toWalk[i]) =>
       \/ Within(toWalk[i].path, Len(sources))
       \/ \E j \in 1..(i - 1) : /\ Inside(toWalk[j].path, toWalk[i].path)
                                /\ Kept(toWalk[j]) /\ toWalk[j].kind = "directory"

\* A scan of ours.
SourcesInv == origin = "ours" =>
  /\ UnderTaken /\ Nested
  /\ (\E name \in taken : Overdone(name)) \/ (Differ /\ Valid)
  /\ offer = "offered" => Len(sources) \in 1..MaxEntries

\* The plan so far has, in order, the entries looked at that are wanted, with
\* every folder among them.
PlanInv ==
  /\ offer \in {"scanning", "offered"} => wanted = <<>> /\ nextEntry = 1
  /\ nextEntry <= Len(sources) + 1
  /\ \A i \in 1..Len(wanted) :
       wanted[i] \in 1..(nextEntry - 1) /\ sources[wanted[i]].kind # "unknown"
  /\ \A i, j \in 1..Len(wanted) : i < j => wanted[i] < wanted[j]
  /\ \A k \in 1..(nextEntry - 1) : sources[k].kind = "directory" =>
       \E i \in 1..Len(wanted) : wanted[i] = k
  /\ offer \in {"planning", "agreed"} => ~Repeats
  /\ offer # "mistrusted"

ManifestInv == ManifestTypes /\ SourcesInv /\ PlanInv /\ OfferIsAccepted

-----------------------------------------------------------------------------
(* Paths. *)

\* A path begins with one name only.
LEMMA FirstNameIsOne ==
  ASSUME NEW s \in Names, NEW t \in Names, NEW path \in Seq(Component), Under(s, path), Under(t, path)
  PROVE  s = t
<1>1. ASSUME NEW a \in Names, NEW b \in Names, Under(a, path), Under(b, path), Len(a) < Len(b)
      PROVE  FALSE
  <2>1. Len(a) \in Nat /\ Len(b) \in Nat /\ a # <<>> /\ Len(a) # 0
    BY DEF Names
  <2>2. Len(a) + 1 \in 1..Len(b) /\ Len(a) < Len(path)
    BY <1>1, <2>1 DEF Under
  <2>3. path[Len(a) + 1].sep = "slash" /\ path[Len(a) + 1] = b[Len(a) + 1]
    BY <1>1, <2>2 DEF Under
  <2>4. Len(a) + 1 = 1
    BY <2>2, <2>3 DEF Names
  <2>5. QED  BY <2>1, <2>4
<1>2. Len(s) = Len(t)
  <2>1. Len(s) \in Nat /\ Len(t) \in Nat
    BY DEF Names
  <2>2. QED  BY <1>1, <2>1
<1>3. s \in Seq(Component) /\ t \in Seq(Component) /\ \A i \in 1..Len(s) : s[i] = t[i]
  BY <1>2 DEF Names, Under
<1>4. QED  BY <1>2, <1>3, SeqEqual

\* What is in a folder comes under its name, and is not the folder.
LEMMA JoinedPath ==
  ASSUME NEW top \in Names, NEW path \in Relative
  PROVE  /\ top \o path \in Relative /\ top \o path # top /\ Under(top, top \o path)
         /\ \A other \in Relative : top \o path = top \o other => path = other
<1>1. /\ top \in Seq(Component) /\ top # <<>> /\ Len(top) \in Nat /\ Len(top) > 0 /\ top[1].sep = "slash"
  BY DEF Names
<1>2. path \in Seq(Component) /\ Len(path) \in Nat /\ Len(path) > 0 /\ path[1].sep = "slash"
  BY DEF Relative
<1>3. /\ top \o path \in Seq(Component) /\ Len(top \o path) = Len(top) + Len(path)
      /\ \A i \in 1..Len(top) : (top \o path)[i] = top[i]
      /\ \A i \in 1..Len(path) : (top \o path)[Len(top) + i] = path[i]
  BY <1>1, <1>2
<1>4. top \o path \in Relative /\ top \o path # top
  <2> DEFINE q == top \o path
  <2>1. q \in Seq(Component) /\ Len(q) > Len(top) /\ q[1] = top[1]
    BY <1>1, <1>2, <1>3
  <2> HIDE DEF q
  <2>2. q # <<>> /\ q # top
    BY <1>1, <2>1
  <2>3. QED  BY <1>1, <2>1, <2>2 DEF Relative, q
<1>5. Under(top, top \o path)
  BY <1>1, <1>2, <1>3 DEF Under
<1>6. ASSUME NEW other \in Relative, top \o path = top \o other
      PROVE  path = other
  <2>1. other \in Seq(Component)
    BY DEF Relative
  <2>2. QED  BY <1>1, <1>2, <1>6, <2>1, ConcatSimplifications
<1>7. QED  BY <1>4, <1>5, <1>6

\* A name behind a path is inside it.
LEMMA NameIsInside ==
  ASSUME NEW folder \in Seq(Component), NEW name \in Names
  PROVE  Inside(folder, folder \o name)
<1> DEFINE path == folder \o name
           rest == SubSeq(path, Len(folder) + 1, Len(path))
<1>1. /\ name \in Seq(Component) /\ Len(folder) \in Nat /\ Len(name) \in Nat
      /\ path \in Seq(Component) /\ Len(path) = Len(folder) + Len(name)
      /\ \A i \in 1..Len(name) : path[Len(folder) + i] = name[i]
  BY DEF Names
<1> HIDE DEF path
<1>2. /\ rest \in Seq(Component) /\ Len(rest) = Len(name)
      /\ \A i \in 1..Len(name) : rest[i] = path[Len(folder) + i]
  BY <1>1
<1> HIDE DEF rest
<1>3. rest = name
  BY <1>1, <1>2, SeqEqual
<1>4. QED  BY <1>3 DEF Inside, rest, path

\* Also when both are put into another folder.
LEMMA InsideMoves ==
  ASSUME NEW top \in Names, NEW folder \in Relative, NEW path, Inside(folder, path)
  PROVE  Inside(top \o folder, top \o path)
<1>1. PICK name \in Names : path = folder \o name
  BY DEF Inside
<1>2. top \in Seq(Component) /\ folder \in Seq(Component) /\ name \in Seq(Component)
  BY DEF Names, Relative
<1>3. top \o path = (top \o folder) \o name /\ top \o folder \in Seq(Component)
  BY <1>1, <1>2, ConcatAssociative
<1>4. QED  BY <1>3, NameIsInside

-----------------------------------------------------------------------------
(* The scan keeps SourcesInv. *)

\* The sequences that the steps make.
LEMMA Sequences ==
  ASSUME NEW S, NEW q \in Seq(S)
  PROVE  /\ Len(q) \in Nat /\ \A i \in 1..Len(q) : q[i] \in S
         /\ q # <<>> => /\ Head(q) \in S /\ Head(q) = q[1] /\ Tail(q) \in Seq(S) /\ Len(q) >= 1
                        /\ Len(Tail(q)) = Len(q) - 1 /\ \A i \in 1..(Len(q) - 1) : Tail(q)[i] = q[i + 1]
         /\ \A x \in S : /\ Append(q, x) \in Seq(S) /\ Len(Append(q, x)) = Len(q) + 1
                         /\ Append(q, x)[Len(q) + 1] = x
                         /\ \A i \in 1..Len(q) : Append(q, x)[i] = q[i]
  OBVIOUS

\* What is not kept can be passed.
LEMMA PassingKeeps ==
  ASSUME ManifestTypes, UnderTaken, Nested, toWalk # <<>>, ~Kept(Head(toWalk)),
         toWalk' = Tail(toWalk), sources' = sources, taken' = taken, follow' = follow
  PROVE  UnderTaken' /\ Nested' /\ (Differ => Differ')
<1> DEFINE n == Len(toWalk)
<1>1. /\ n \in Nat /\ n >= 1 /\ Len(toWalk') = n - 1 /\ Head(toWalk) = toWalk[1]
      /\ \A i \in 1..(n - 1) : toWalk'[i] = toWalk[i + 1]
  BY Sequences DEF ManifestTypes
<1>2. \A i \in 1..Len(toWalk') : i \in 1..(n - 1) /\ i + 1 \in 1..n
  BY <1>1
<1> HIDE DEF n
<1>3. UnderTaken'
  BY <1>1, <1>2 DEF UnderTaken, n
<1>4. ASSUME NEW i \in 1..Len(toWalk'), Kept(toWalk'[i])
      PROVE  \/ Within(toWalk'[i].path, Len(sources))
             \/ \E j \in 1..(i - 1) : /\ Inside(toWalk'[j].path, toWalk'[i].path)
                                      /\ Kept(toWalk'[j]) /\ toWalk'[j].kind = "directory"
  <2>1. toWalk'[i] = toWalk[i + 1] /\ i + 1 \in 1..n /\ Kept(toWalk[i + 1])
    BY <1>1, <1>2, <1>4 DEF Kept
  <2>2. CASE Within(toWalk[i + 1].path, Len(sources))
    BY <2>1, <2>2
  <2>3. CASE \E j \in 1..i : /\ Inside(toWalk[j].path, toWalk[i + 1].path)
                              /\ Kept(toWalk[j]) /\ toWalk[j].kind = "directory"
    <3>1. PICK j \in 1..i : /\ Inside(toWalk[j].path, toWalk[i + 1].path)
                            /\ Kept(toWalk[j]) /\ toWalk[j].kind = "directory"
      BY <2>3
    <3>2. j # 1
      BY <1>1, <3>1
    <3>3. j - 1 \in 1..(i - 1) /\ j - 1 \in 1..(n - 1) /\ (j - 1) + 1 = j
      BY <1>1, <1>2, <3>2
    <3>4. toWalk'[j - 1] = toWalk[j]
      BY <1>1, <3>3
    <3>5. Kept(toWalk'[j - 1])
      BY <3>1, <3>4 DEF Kept
    <3>6. QED  BY <2>1, <3>1, <3>3, <3>4, <3>5
  <2>4. \E m \in {i + 1} : m - 1 = i
    BY <1>1
  <2>5. QED  BY <2>1, <2>2, <2>3, <2>4 DEF Nested, n
<1>5. Nested'
  <2>1. \A i \in 1..Len(toWalk') : Kept(toWalk[i])' <=> Kept(toWalk'[i])
    BY DEF Kept
  <2>2. \A path : \A k : Within(path, k)' <=> Within(path, k)
    BY DEF Within
  <2>3. \A i \in 1..Len(sources') : sources'[i].path \in Names \/ Within(sources'[i].path, i - 1)
    BY DEF Nested
  <2>4. QED
    BY <1>4, <2>1, <2>2, <2>3 DEF Nested, Within, Kept
<1>6. Differ => Differ'
  <2>1. ASSUME Differ, NEW i \in 1..Len(toWalk'), NEW j \in 1..Len(toWalk'), i # j,
               toWalk'[i].path = toWalk'[j].path
        PROVE  "unreadable" \in {toWalk'[i].kind, toWalk'[j].kind}
    <3>1. i + 1 # j + 1
      BY <1>1, <2>1
    <3>2. QED  BY <1>1, <1>2, <2>1, <3>1 DEF Differ, n
  <2>2. ASSUME Differ, NEW i \in 1..Len(toWalk'), NEW k \in 1..Len(sources'),
               toWalk'[i].path = sources'[k].path
        PROVE  toWalk'[i].kind = "unreadable"
    BY <1>1, <1>2, <2>2 DEF Differ, n
  <2>3. QED  BY <2>1, <2>2 DEF Differ
<1>7. QED  BY <1>3, <1>5, <1>6

\* What is kept is offered under the same path.
LEMMA TakingKeeps ==
  ASSUME ManifestTypes, UnderTaken, Nested, toWalk # <<>>, Kept(Head(toWalk)),
         Validate(Head(toWalk).path),
         sources' = Append(sources, Entry(Head(toWalk).path, Head(toWalk).kind)),
         toWalk' = Tail(toWalk), taken' = taken, follow' = follow
  PROVE  UnderTaken' /\ Nested' /\ (Differ /\ Valid => (Differ /\ Valid)')
<1> DEFINE n == Len(toWalk)
           m == Len(sources)
           item == toWalk[1]
<1>1. /\ n \in Nat /\ n >= 1 /\ Len(toWalk') = n - 1 /\ Head(toWalk) = item
      /\ \A i \in 1..(n - 1) : toWalk'[i] = toWalk[i + 1]
  BY Sequences DEF ManifestTypes
<1>2. /\ \A i \in 1..Len(toWalk') : i \in 1..(n - 1) /\ i + 1 \in 1..n
      /\ 1 \in 1..n
  BY <1>1
<1>3. /\ item \in Items /\ Kept(item) /\ item.kind \in {"file", "directory"}
      /\ Validate(item.path)
  BY <1>1, <1>2, Sequences DEF ManifestTypes, Kept
<1>4. /\ m \in Nat /\ Len(sources') = m + 1
      /\ \A i \in 1..m : sources'[i] = sources[i]
      /\ sources'[m + 1].path = item.path /\ sources'[m + 1].kind = item.kind
  <2> DEFINE e == Entry(item.path, item.kind)
  <2>1. e \in Entries /\ e.path = item.path /\ e.kind = item.kind
    <3>1. item.path \in Seq(Component)
      BY <1>3 DEF Items, Relative
    <3>2. QED  BY <1>3, <3>1 DEF Entry, Entries
  <2> HIDE DEF e
  <2>2. sources' = Append(sources, e)
    BY <1>1 DEF e
  <2>3. QED  BY <2>1, <2>2, Sequences DEF ManifestTypes
<1>5. /\ \A i \in 1..Len(sources') : i \in 1..m \/ i = m + 1
      /\ m + 1 \in 1..Len(sources') /\ \A i \in 1..m : i \in 1..Len(sources')
  BY <1>4
<1> HIDE DEF n, m, item
<1>6. UnderTaken'
  <2>1. \E top \in taken : Under(top, item.path)
    BY <1>2 DEF UnderTaken, n, item
  <2>2. QED  BY <1>1, <1>2, <1>4, <1>5, <2>1 DEF UnderTaken, n, m
<1>7. ASSUME NEW path, NEW k \in 0..m, Within(path, k)
      PROVE  Within(path, k)' /\ Within(path, Len(sources))'
  <2>1. PICK j \in 1..k : Inside(sources[j].path, path) /\ sources[j].kind = "directory"
    BY <1>7 DEF Within
  <2>2. j \in 1..m /\ j \in 1..Len(sources')
    BY <1>4
  <2>3. QED  BY <1>4, <2>1, <2>2 DEF Within
<1>8. ASSUME NEW i \in 1..Len(sources')
      PROVE  sources'[i].path \in Names \/ Within(sources[i].path, i - 1)'
  <2>1. CASE i \in 1..m
    <3>1. i - 1 \in 0..m
      BY <1>4, <2>1
    <3>2. QED  BY <1>4, <1>7, <2>1, <3>1 DEF Nested, m
  <2>2. CASE i = m + 1
    <3>1. \A j : j \notin 1..(1 - 1)
      OBVIOUS
    <3>2. Within(item.path, m)
      BY <1>2, <1>3, <3>1 DEF Nested, n, m, item
    <3>3. m \in 0..m /\ i - 1 = m
      BY <1>4, <2>2
    <3>4. QED  BY <1>4, <1>7, <2>2, <3>2, <3>3
  <2>3. QED  BY <1>5, <2>1, <2>2
<1>9. ASSUME NEW i \in 1..Len(toWalk'), Kept(toWalk'[i])
      PROVE  \/ Within(toWalk[i].path, Len(sources))'
             \/ \E j \in 1..(i - 1) : /\ Inside(toWalk'[j].path, toWalk'[i].path)
                                      /\ Kept(toWalk'[j]) /\ toWalk'[j].kind = "directory"
  <2>1. toWalk'[i] = toWalk[i + 1] /\ i + 1 \in 1..n /\ Kept(toWalk[i + 1])
    BY <1>1, <1>2, <1>9 DEF Kept
  <2>2. CASE Within(toWalk[i + 1].path, Len(sources))
    <3>1. m \in 0..m
      BY <1>4
    <3>2. QED  BY <1>7, <2>1, <2>2, <3>1 DEF m
  <2>3. CASE \E j \in 1..i : /\ Inside(toWalk[j].path, toWalk[i + 1].path)
                              /\ Kept(toWalk[j]) /\ toWalk[j].kind = "directory"
    <3>1. PICK j \in 1..i : /\ Inside(toWalk[j].path, toWalk[i + 1].path)
                            /\ Kept(toWalk[j]) /\ toWalk[j].kind = "directory"
      BY <2>3
    <3>2. CASE j = 1
      BY <1>4, <1>5, <2>1, <3>1, <3>2 DEF Within, item
    <3>3. CASE j # 1
      <4>1. j - 1 \in 1..(i - 1) /\ j - 1 \in 1..(n - 1) /\ (j - 1) + 1 = j
        BY <1>1, <1>2, <3>3
      <4>2. toWalk'[j - 1] = toWalk[j]
        BY <1>1, <4>1
      <4>3. Kept(toWalk'[j - 1])
        BY <3>1, <4>2 DEF Kept
      <4>4. QED  BY <2>1, <3>1, <4>1, <4>2, <4>3
    <3>4. QED  BY <3>2, <3>3
  <2>4. (i + 1) - 1 = i
    BY <1>1
  <2>5. QED  BY <2>1, <2>2, <2>3, <2>4 DEF Nested, n
<1>10. Nested'
  BY <1>8, <1>9 DEF Nested, Kept, Within
<1>11. ASSUME Differ, Valid
       PROVE  (Differ /\ Valid)'
  <2>1. \A k \in 1..m : sources[k].path # item.path
    BY <1>2, <1>3, <1>11 DEF Differ, n, m, item
  <2>2. ASSUME NEW i \in 1..Len(sources'), NEW j \in 1..Len(sources'), i # j
        PROVE  sources'[i].path # sources'[j].path
    BY <1>4, <1>5, <1>11, <2>1, <2>2 DEF Differ, m
  <2>3. ASSUME NEW i \in 1..Len(toWalk'), NEW j \in 1..Len(toWalk'), i # j,
               toWalk'[i].path = toWalk'[j].path
        PROVE  "unreadable" \in {toWalk'[i].kind, toWalk'[j].kind}
    <3>1. i + 1 # j + 1
      BY <1>1, <2>3
    <3>2. QED  BY <1>1, <1>2, <1>11, <2>3, <3>1 DEF Differ, n
  <2>4. ASSUME NEW i \in 1..Len(toWalk'), NEW k \in 1..Len(sources'),
               toWalk'[i].path = sources'[k].path
        PROVE  toWalk'[i].kind = "unreadable"
    <3>1. toWalk'[i] = toWalk[i + 1] /\ i + 1 \in 1..n /\ i + 1 # 1
      BY <1>1, <1>2
    <3>2. CASE k \in 1..m
      BY <1>4, <1>11, <2>4, <3>1, <3>2 DEF Differ, n, m
    <3>3. CASE k = m + 1
      <4>1. toWalk[i + 1].path = toWalk[1].path
        BY <1>4, <2>4, <3>1, <3>3 DEF item
      <4>2. "unreadable" \in {toWalk[i + 1].kind, toWalk[1].kind}
        BY <1>2, <1>11, <3>1, <4>1 DEF Differ, n
      <4>3. QED  BY <1>3, <3>1, <4>2 DEF item
    <3>4. QED  BY <1>5, <3>2, <3>3
  <2>5. Valid'
    BY <1>3, <1>4, <1>5, <1>11 DEF Valid, Validate, m
  <2>6. QED  BY <2>2, <2>3, <2>4, <2>5 DEF Differ
<1>12. QED  BY <1>6, <1>10, <1>11

\* A new name, and what is in the folder of that name.
LEMMA ArgumentKeeps ==
  ASSUME ManifestAssumption, ManifestTypes, UnderTaken, Nested, ScanArgument
  PROVE  /\ ManifestTypes' /\ UnderTaken' /\ Nested'
         /\ (\E name \in taken : Overdone(name)) \/ (Differ /\ Valid) =>
              (\E name \in taken' : Overdone(name)) \/ (Differ /\ Valid)'
<1> DEFINE argument == Head(toScan)
           top == Disambiguate(argument.name)
           walk == argument.walk
           m == Len(sources)
<1>1. /\ argument \in Arguments /\ Validate(argument.name) /\ argument.kind # "missing"
      /\ LeavesRoom(argument.name)
      /\ toScan' = Tail(toScan) /\ toScan' \in Seq(Arguments)
      /\ \A i \in 1..Len(toScan') : LeavesRoom(toScan'[i].name)
  <2>1. /\ toScan # <<>> /\ toScan' = Tail(toScan)
        /\ Validate(argument.name) /\ argument.kind # "missing"
    BY DEF ScanArgument, Scanning
  <2>2. /\ argument = toScan[1] /\ argument \in Arguments /\ Len(toScan) \in Nat /\ Len(toScan) >= 1
        /\ toScan' \in Seq(Arguments) /\ Len(toScan') = Len(toScan) - 1
        /\ \A i \in 1..(Len(toScan) - 1) : toScan'[i] = toScan[i + 1]
    BY <2>1, Sequences DEF ManifestTypes
  <2>3. QED  BY <2>1, <2>2 DEF ManifestTypes
<1>2. argument.name \in Names /\ walk \in Walks /\ argument.kind \in {"file", "directory", "special"}
  BY <1>1 DEF Arguments
<1>3. top \in Names /\ (Overdone(top) \/ (top \notin taken /\ Validate(top)))
  BY <1>1, <1>2, Disambiguated DEF ManifestTypes
<1>4. /\ toWalk = <<>> /\ taken' = taken \cup {top}
      /\ UNCHANGED <<origin, follow, offer, policy, wanted, skipped, nextEntry>>
      /\ sources' = IF argument.kind = "special" THEN sources
                    ELSE Append(sources, Entry(top, argument.kind))
      /\ toWalk' = IF argument.kind # "directory" THEN <<>>
                   ELSE [i \in 1..Len(walk) |-> [walk[i] EXCEPT !.path = top \o @]]
  BY DEF ScanArgument, Scanning, Fixed, Plan
<1> HIDE DEF top, walk, argument
\* What has been offered stays where it is.
<1>5. /\ m \in Nat /\ \A i \in 1..m : sources'[i] = sources[i]
      /\ sources' \in Seq(Entries) /\ Len(sources') \in {m, m + 1}
      /\ \A i \in 1..Len(sources') : i \in 1..m \/ i = m + 1
      /\ \A i \in 1..m : i \in 1..Len(sources')
      /\ Len(sources') = m + 1 => sources'[m + 1] = Entry(top, argument.kind)
      /\ argument.kind = "directory" => Len(sources') = m + 1
  <2> DEFINE e == Entry(top, argument.kind)
  <2>1. argument.kind # "special" => e \in Entries
    BY <1>2, <1>3 DEF Entry, Entries, Names
  <2> HIDE DEF e
  <2>2. sources' = IF argument.kind = "special" THEN sources ELSE Append(sources, e)
    BY <1>4 DEF e
  <2>3. QED  BY <2>1, <2>2, Sequences DEF ManifestTypes, e
<1>6. /\ toWalk' \in Seq(Items)
      /\ \A i \in 1..Len(toWalk') :
           /\ argument.kind = "directory" /\ i \in 1..Len(walk)
           /\ walk[i].path \in Relative /\ toWalk'[i].path = top \o walk[i].path
           /\ toWalk'[i].kind = walk[i].kind /\ toWalk'[i].link = walk[i].link
  <2>1. CASE argument.kind # "directory"
    <3>1. toWalk' = <<>> /\ Len(toWalk') = 0
      BY <1>4, <2>1
    <3>2. QED  BY <3>1
  <2>2. CASE argument.kind = "directory"
    <3> DEFINE item(i) == [walk[i] EXCEPT !.path = top \o @]
    <3>1. walk \in Seq(Items) /\ Len(walk) \in Nat
      BY <1>2 DEF Walks
    <3>2. ASSUME NEW i \in 1..Len(walk)
          PROVE  /\ item(i) \in Items /\ walk[i].path \in Relative
                 /\ item(i).path = top \o walk[i].path
                 /\ item(i).kind = walk[i].kind /\ item(i).link = walk[i].link
      <4>1. walk[i] \in Items
        BY <3>1, ElementOfSeq
      <4>2. walk[i].path \in Relative /\ top \o walk[i].path \in Relative
        BY <1>3, <4>1, JoinedPath DEF Items
      <4>3. QED  BY <4>1, <4>2 DEF Items
    <3> HIDE DEF item
    <3>3. toWalk' = [i \in 1..Len(walk) |-> item(i)]
      BY <1>4, <2>2 DEF item
    <3>4. toWalk' \in Seq(Items) /\ Len(toWalk') = Len(walk)
      BY <3>1, <3>2, <3>3
    <3>5. QED  BY <2>2, <3>2, <3>3, <3>4
  <2>3. QED  BY <2>1, <2>2
<1>7. ManifestTypes'
  <2>1. IsFiniteSet(taken')
    BY <1>4, FS_AddElement DEF ManifestTypes
  <2>2. QED  BY <1>1, <1>3, <1>4, <1>5, <1>6, <2>1 DEF ManifestTypes
<1>8. UnderTaken'
  <2>1. Under(top, top)
    <3>1. Len(top) \in Nat
      BY <1>3 DEF Names
    <3>2. QED  BY <3>1 DEF Under
  <2>2. \A i \in 1..Len(sources') : \E name \in taken' : Under(name, sources'[i].path)
    BY <1>4, <1>5, <2>1 DEF UnderTaken, Entry
  <2>3. \A i \in 1..Len(toWalk') : Under(top, toWalk'[i].path)
    BY <1>3, <1>6, JoinedPath
  <2>4. QED  BY <1>4, <2>2, <2>3 DEF UnderTaken
<1>9. Nested'
  <2>1. ASSUME NEW i \in 1..Len(sources')
        PROVE  sources'[i].path \in Names \/ Within(sources[i].path, i - 1)'
    <3>1. CASE i = m + 1
      BY <1>3, <1>5, <3>1 DEF Entry
    <3>2. CASE i \in 1..m
      <4>1. \A j \in 1..(i - 1) : sources'[j] = sources[j]
        BY <1>5, <3>2
      <4>2. QED  BY <1>5, <3>2, <4>1 DEF Nested, Within
    <3>3. QED  BY <1>5, <3>1, <3>2
  <2>2. ASSUME NEW i \in 1..Len(toWalk'), Kept(toWalk[i])'
        PROVE  \/ Within(toWalk[i].path, Len(sources))'
               \/ \E j \in 1..(i - 1) : /\ Inside(toWalk'[j].path, toWalk'[i].path)
                                        /\ Kept(toWalk[j])' /\ toWalk'[j].kind = "directory"
    <3>1. /\ i \in 1..Len(walk) /\ toWalk'[i].path = top \o walk[i].path
          /\ walk[i].link = "no" \/ follow'
      BY <1>6, <2>2 DEF Kept
    <3>2. CASE walk[i].path \in Names
      <4>1. Inside(top, toWalk'[i].path)
        BY <1>3, <3>1, <3>2, NameIsInside DEF Names
      <4>2. /\ m + 1 \in 1..Len(sources') /\ sources'[m + 1].path = top
            /\ sources'[m + 1].kind = "directory"
        BY <1>5, <1>6 DEF Entry
      <4>3. QED  BY <4>1, <4>2 DEF Within
    <3>3. CASE walk[i].path \notin Names
      <4>1. PICK j \in 1..(i - 1) :
              /\ Inside(walk[j].path, walk[i].path) /\ walk[j].kind = "directory"
              /\ walk[i].link = "no" => walk[j].link = "no"
        BY <1>2, <3>1, <3>3 DEF Walks
      <4>2. j \in 1..Len(toWalk')
        BY <1>6
      <4>3. Inside(toWalk'[j].path, toWalk'[i].path)
        BY <1>3, <1>6, <3>1, <4>1, <4>2, InsideMoves
      <4>4. Kept(toWalk[j])' /\ toWalk'[j].kind = "directory"
        BY <1>6, <3>1, <4>1, <4>2 DEF Kept
      <4>5. QED  BY <4>3, <4>4
    <3>4. QED  BY <3>2, <3>3
  <2>3. QED  BY <2>1, <2>2 DEF Nested
<1>10. ASSUME Differ, Valid, ~Overdone(top)
       PROVE  (Differ /\ Valid)'
  <2>1. top \notin taken /\ Validate(top)
    BY <1>3, <1>10
  <2>2. ASSUME NEW k \in 1..m, NEW path \in Seq(Component), Under(top, path)
        PROVE  sources'[k].path # path
    <3>1. PICK name \in taken : Under(name, sources[k].path)
      BY DEF UnderTaken
    <3>2. name \in Names /\ name # top
      BY <2>1 DEF ManifestTypes
    <3>3. QED  BY <1>3, <1>5, <2>2, <3>1, <3>2, FirstNameIsOne
  <2>3. top \in Seq(Component) /\ Under(top, top)
    <3>1. top \in Seq(Component) /\ Len(top) \in Nat
      BY <1>3 DEF Names
    <3>2. QED  BY <3>1 DEF Under
  <2>4. ASSUME NEW i \in 1..Len(sources'), NEW j \in 1..Len(sources'), i # j
        PROVE  sources'[i].path # sources'[j].path
    <3>1. CASE i = m + 1
      BY <1>5, <2>2, <2>3, <2>4, <3>1 DEF Entry
    <3>2. CASE j = m + 1
      BY <1>5, <2>2, <2>3, <2>4, <3>2 DEF Entry
    <3>3. CASE i \in 1..m /\ j \in 1..m
      BY <1>5, <1>10, <2>4, <3>3 DEF Differ
    <3>4. QED  BY <1>5, <3>1, <3>2, <3>3
  <2>5. ASSUME NEW i \in 1..Len(toWalk'), NEW j \in 1..Len(toWalk'), i # j,
               toWalk'[i].path = toWalk'[j].path
        PROVE  "unreadable" \in {toWalk'[i].kind, toWalk'[j].kind}
    <3>1. walk[i].path = walk[j].path
      <4>1. walk[i].path \in Relative /\ walk[j].path \in Relative
        BY <1>6
      <4>2. top \o walk[i].path = top \o walk[j].path
        BY <1>6, <2>5
      <4>3. QED  BY <1>3, <4>1, <4>2, JoinedPath
    <3>2. QED  BY <1>2, <1>6, <2>5, <3>1 DEF Walks
  <2>6. ASSUME NEW i \in 1..Len(toWalk'), NEW k \in 1..Len(sources')
        PROVE  toWalk'[i].path # sources'[k].path
    <3>1. /\ toWalk'[i].path \in Seq(Component) /\ Under(top, toWalk'[i].path)
          /\ toWalk'[i].path # top
      <4>1. walk[i].path \in Relative /\ toWalk'[i].path = top \o walk[i].path
        BY <1>6
      <4>2. top \o walk[i].path \in Relative
        BY <1>3, <4>1, JoinedPath
      <4>3. top \o walk[i].path \in Seq(Component)
        BY <4>2 DEF Relative
      <4>4. QED  BY <1>3, <4>1, <4>3, JoinedPath
    <3>2. CASE k \in 1..m
      BY <2>2, <3>1, <3>2
    <3>3. CASE k = m + 1
      BY <1>5, <3>1, <3>3 DEF Entry
    <3>4. QED  BY <1>5, <3>2, <3>3
  <2>7. Valid'
    BY <1>5, <1>10, <2>1 DEF Valid, Validate, Entry
  <2>8. QED  BY <2>4, <2>5, <2>6, <2>7 DEF Differ
<1>11. QED
  BY <1>4, <1>7, <1>8, <1>9, <1>10

-----------------------------------------------------------------------------
(* Every step keeps ManifestInv. *)

LEMMA ManifestStarts ==
  ASSUME ManifestAssumption, ManifestInit
  PROVE  ManifestInv
<1>1. CASE origin = "ours"
  <2>1. toScan \in CommandLines /\ sources = <<>>
    BY <1>1 DEF ManifestInit
  <2>2. /\ toScan \in Seq(Arguments)
        /\ \A i \in 1..Len(toScan) : LeavesRoom(toScan[i].name)
    BY <2>1 DEF ManifestAssumption
  <2>3. QED
    BY <1>1, <2>1, <2>2, FS_EmptySet DEF ManifestInit, ManifestInv, ManifestTypes, SourcesInv, UnderTaken, Nested,
       Differ, Valid, PlanInv, OfferIsAccepted
<1>2. CASE origin = "other"
  <2>1. toScan = <<>> /\ sources \in Seq(Entries)
    BY <1>2 DEF ManifestInit, ManifestAssumption
  <2>2. QED
    BY <1>2, <2>1, FS_EmptySet DEF ManifestInit, ManifestInv, ManifestTypes, SourcesInv, PlanInv, OfferIsAccepted
<1>3. QED  BY <1>1, <1>2 DEF ManifestInit

\* A step that leaves all but toScan and offer alone keeps types and sources.
LEMMA Untouched ==
  ASSUME ManifestTypes, UNCHANGED <<origin, follow, toWalk, taken, sources, wanted, skipped, nextEntry>>,
         toScan' = toScan \/ (toScan # <<>> /\ toScan' = Tail(toScan)),
         offer' = "scanning" => offer = "scanning"
  PROVE  /\ ManifestTypes'
         /\ UnderTaken => UnderTaken'
         /\ Nested => Nested'
         /\ Differ /\ Valid => (Differ /\ Valid)'
<1>1. /\ toScan' \in Seq(Arguments)
      /\ \A i \in 1..Len(toScan') : LeavesRoom(toScan'[i].name)
  <2>1. CASE toScan' = toScan
    BY <2>1 DEF ManifestTypes
  <2>2. CASE toScan # <<>> /\ toScan' = Tail(toScan)
    <3>1. /\ Len(toScan) \in Nat /\ Len(toScan') = Len(toScan) - 1 /\ toScan' \in Seq(Arguments)
          /\ \A i \in 1..(Len(toScan) - 1) : toScan'[i] = toScan[i + 1]
      BY <2>2, Sequences DEF ManifestTypes
    <3>2. \A i \in 1..Len(toScan') : i \in 1..(Len(toScan) - 1) /\ i + 1 \in 1..Len(toScan)
      BY <3>1
    <3>3. QED  BY <3>1, <3>2 DEF ManifestTypes
  <2>3. QED  BY <2>1, <2>2
<1>2. ManifestTypes'
  BY <1>1 DEF ManifestTypes
<1>3. QED
  BY <1>2 DEF UnderTaken, Nested, Within, Kept, Differ, Valid, Validate

\* The steps of the scan.
LEMMA ScanKeeps ==
  ASSUME ManifestAssumption, ManifestTypes, SourcesInv,
         \/ SkipLink \/ Unscannable \/ ScanArgument \/ PassItem \/ RefuseItem \/ TakeItem \/ MakeOffer
  PROVE  ManifestTypes' /\ SourcesInv'
<1>1. offer = "scanning" /\ origin = "ours" /\ origin' = origin /\ follow' = follow
  BY DEF SkipLink, Unscannable, ScanArgument, PassItem, RefuseItem, TakeItem, MakeOffer, Scanning,
     Walking, Fixed, ManifestTypes
<1>2. CASE SkipLink \/ Unscannable \/ RefuseItem
  <2>1. /\ UNCHANGED <<origin, follow, toWalk, taken, sources, wanted, skipped, nextEntry>>
        /\ toScan' = toScan \/ (toScan # <<>> /\ toScan' = Tail(toScan))
        /\ offer' # "offered"
    BY <1>1, <1>2 DEF SkipLink, Unscannable, RefuseItem, Scanning, Walking, Fixed, Plan
  <2>2. QED  BY <1>1, <2>1, Untouched DEF SourcesInv
<1>3. CASE ScanArgument
  <2>1. offer' # "offered"
    BY <1>1, <1>3 DEF ScanArgument
  <2>2. QED  BY <1>1, <1>3, <2>1, ArgumentKeeps DEF SourcesInv
<1>4. CASE PassItem
  <2>1. /\ toWalk # <<>> /\ toWalk' = Tail(toWalk) /\ ~Kept(Head(toWalk))
        /\ UNCHANGED <<toScan, taken, sources, offer, wanted, skipped, nextEntry>>
    BY <1>4 DEF PassItem, Walking, Unseen, Kept, Fixed, Plan
  <2>2. ManifestTypes'
    <3>1. toWalk' \in Seq(Items)
      BY <2>1, Sequences DEF ManifestTypes
    <3>2. QED  BY <1>1, <2>1, <3>1 DEF ManifestTypes
  <2>3. Valid => Valid'
    BY <2>1 DEF Valid, Validate
  <2>4. QED  BY <1>1, <2>1, <2>2, <2>3, PassingKeeps DEF SourcesInv
<1>5. CASE TakeItem
  <2> DEFINE item == Head(toWalk)
  <2>1. /\ toWalk # <<>> /\ toWalk' = Tail(toWalk) /\ Validate(item.path)
        /\ sources' = IF Kept(item) THEN Append(sources, Entry(item.path, item.kind)) ELSE sources
        /\ UNCHANGED <<toScan, taken, wanted, skipped, nextEntry>>
        /\ offer' \in {"too many", offer}
    BY <1>5 DEF TakeItem, Walking, Fixed, Plan
  <2>2. item \in Items /\ toWalk' \in Seq(Items)
    BY <2>1, Sequences DEF ManifestTypes
  <2> HIDE DEF item
  <2>3. sources' \in Seq(Entries)
    <3>1. Kept(item) => Entry(item.path, item.kind) \in Entries
      BY <2>2 DEF Kept, Items, Relative, Entry, Entries
    <3>2. QED  BY <2>1, <3>1, Sequences DEF ManifestTypes
  <2>4. ManifestTypes'
    BY <1>1, <2>1, <2>2, <2>3 DEF ManifestTypes
  <2>5. CASE Kept(item)
    BY <1>1, <2>1, <2>4, <2>5, TakingKeeps DEF SourcesInv, item
  <2>6. CASE ~Kept(item)
    <3>1. Valid => Valid'
      BY <2>1, <2>6 DEF Valid, Validate
    <3>2. QED  BY <1>1, <2>1, <2>4, <2>6, <3>1, PassingKeeps DEF SourcesInv, item
  <2>7. QED  BY <2>5, <2>6
<1>6. CASE MakeOffer
  <2>1. /\ UNCHANGED <<origin, follow, toScan, toWalk, taken, sources, wanted, skipped, nextEntry>>
        /\ offer' # "scanning"
        /\ offer' = "offered" => sources # <<>> /\ ~(Len(sources) > MaxEntries)
    BY <1>6 DEF MakeOffer, Fixed, Plan
  <2>2. offer' = "offered" => Len(sources') \in 1..MaxEntries
    <3>1. sources # <<>> => Len(sources) \in Nat /\ Len(sources) >= 1
      BY Sequences DEF ManifestTypes
    <3>2. QED  BY <2>1, <3>1 DEF ManifestAssumption
  <2>3. QED  BY <1>1, <2>1, <2>2, Untouched DEF SourcesInv
<1>7. QED
  BY <1>2, <1>3, <1>4, <1>5, <1>6

\* A plan stays as it is while its offer does.
LEMMA PlanUntouched ==
  ASSUME PlanInv, UNCHANGED <<sources, wanted, nextEntry>>,
         offer' \in {"scanning", "offered"} => offer \in {"scanning", "offered"},
         offer' \in {"planning", "agreed"} => ~Repeats,
         offer' # "mistrusted"
  PROVE  PlanInv'
BY DEF PlanInv, Repeats

\* Before there is a plan nothing is said of the entries.
LEMMA ScanHasNoPlan ==
  ASSUME ManifestTypes', PlanInv, offer = "scanning", UNCHANGED <<wanted, nextEntry>>,
         offer' \notin {"planning", "agreed", "mistrusted"}
  PROVE  PlanInv'
<1>1. wanted = <<>> /\ nextEntry = 1 /\ Len(wanted') = 0 /\ nextEntry' - 1 = 0
  BY DEF PlanInv
<1>2. Len(sources') \in Nat
  BY Sequences DEF ManifestTypes
<1>3. QED  BY <1>1, <1>2 DEF PlanInv

\* One entry more is looked at.
LEMMA PlanGrows ==
  ASSUME ManifestTypes, PlanInv, PlanEntry
  PROVE  ManifestTypes' /\ PlanInv'
<1> DEFINE n == Len(wanted)
           kind == sources[nextEntry].kind
<1>1. /\ offer = "planning" /\ nextEntry <= Len(sources) /\ nextEntry' = nextEntry + 1
      /\ UNCHANGED <<origin, follow, policy, toScan, toWalk, taken, sources>>
  BY DEF PlanEntry, Fixed
<1>2. /\ n \in Nat /\ Len(sources) \in Nat /\ nextEntry \in Nat /\ nextEntry \in 1..Len(sources)
      /\ \A i \in 1..n : wanted[i] \in Nat
      /\ kind \in {"file", "directory", "unknown"}
  <2>1. n \in Nat /\ Len(sources) \in Nat /\ nextEntry \in Nat \ {0} /\ \A i \in 1..n : wanted[i] \in Nat
    BY Sequences DEF ManifestTypes
  <2>2. nextEntry \in 1..Len(sources)
    BY <1>1, <2>1
  <2>3. sources[nextEntry] \in Entries
    BY <2>2, Sequences DEF ManifestTypes
  <2>4. QED  BY <2>1, <2>2, <2>3 DEF Entries
<1>3. \/ Want /\ kind # "unknown"
      \/ Skip /\ kind # "directory"
      \/ offer' = "exists" /\ UNCHANGED <<wanted, skipped>> /\ kind = "file"
  BY <1>2 DEF PlanEntry
<1>4. ~Repeats /\ ~Repeats'
  BY <1>1 DEF PlanInv, Repeats
<1>5. ASSUME wanted' = wanted, kind # "directory", offer' \in {"planning", "exists"}
      PROVE  PlanInv'
  BY <1>1, <1>2, <1>4, <1>5 DEF PlanInv
<1>6. CASE Want /\ kind # "unknown"
  <2>1. /\ Len(wanted') = n + 1 /\ wanted'[n + 1] = nextEntry /\ \A i \in 1..n : wanted'[i] = wanted[i]
        /\ wanted' \in Seq(Nat) /\ UNCHANGED <<skipped, offer>>
    BY <1>2, <1>6, Sequences DEF Want, ManifestTypes
  <2>2. \A i \in 1..Len(wanted') : i \in 1..n \/ i = n + 1
    BY <1>2, <2>1
  <2>3. \A i \in 1..n : wanted[i] \in 1..(nextEntry - 1) /\ sources[wanted[i]].kind # "unknown"
    BY DEF PlanInv
  <2>4. ASSUME NEW i \in 1..Len(wanted')
        PROVE  wanted'[i] \in 1..(nextEntry' - 1) /\ sources'[wanted'[i]].kind # "unknown"
    <3>1. sources' = sources /\ nextEntry' = nextEntry + 1 /\ nextEntry \in Nat \ {0}
      BY <1>1, <1>2
    <3>2. CASE i \in 1..n
      <4>1. wanted'[i] = wanted[i] /\ wanted[i] \in 1..(nextEntry - 1)
            /\ sources[wanted[i]].kind # "unknown"
        BY <2>1, <2>3, <3>2
      <4>2. wanted'[i] \in 1..(nextEntry' - 1)
        <5> HIDE DEF n
        <5>1. QED  BY <3>1, <4>1
      <4>3. QED  BY <3>1, <4>1, <4>2
    <3>3. CASE i = n + 1
      <4>1. wanted'[i] = nextEntry
        BY <2>1, <3>3
      <4>2. sources[nextEntry].kind # "unknown"
        BY <1>6
      <4>3. QED  BY <3>1, <4>1, <4>2
    <3>4. QED  BY <2>2, <3>2, <3>3
  <2>5. ASSUME NEW i \in 1..Len(wanted'), NEW j \in 1..Len(wanted'), i < j
        PROVE  wanted'[i] < wanted'[j]
    <3>1. i \in 1..n
      BY <1>2, <2>1, <2>5
    <3>2. CASE j \in 1..n
      BY <2>1, <2>5, <3>1, <3>2 DEF PlanInv
    <3>3. CASE j = n + 1
      BY <1>2, <2>1, <2>3, <3>1, <3>3
    <3>4. QED  BY <2>2, <3>2, <3>3
  <2>6. ASSUME NEW k \in 1..(nextEntry' - 1), sources'[k].kind = "directory"
        PROVE  \E i \in 1..Len(wanted') : wanted'[i] = k
    <3>1. CASE k = nextEntry
      <4>1. n + 1 \in 1..Len(wanted')
        BY <1>2, <2>1
      <4>2. QED  BY <2>1, <3>1, <4>1
    <3>2. CASE k # nextEntry
      <4>1. k \in 1..(nextEntry - 1)
        BY <1>1, <1>2, <3>2
      <4>2. PICK i \in 1..n : wanted[i] = k
        BY <1>1, <2>6, <4>1 DEF PlanInv
      <4>3. i \in 1..Len(wanted')
        BY <1>2, <2>1
      <4>4. QED  BY <2>1, <4>2, <4>3
    <3>3. QED  BY <3>1, <3>2
  <2>7. offer' = "planning" /\ nextEntry' <= Len(sources') + 1
    BY <1>1, <1>2, <2>1
  <2>8. PlanInv'
    BY <1>4, <2>4, <2>5, <2>6, <2>7 DEF PlanInv
  <2>9. ManifestTypes'
    BY <1>1, <1>2, <2>1 DEF ManifestTypes
  <2>10. QED  BY <2>8, <2>9
<1>7. CASE Skip /\ kind # "directory"
  <2>1. skipped' \in Seq(Nat) /\ UNCHANGED <<wanted, offer>>
    BY <1>2, <1>7, Sequences DEF Skip, ManifestTypes
  <2>2. ManifestTypes'
    BY <1>1, <1>2, <2>1 DEF ManifestTypes
  <2>3. QED  BY <1>1, <1>5, <1>7, <2>1, <2>2
<1>8. CASE offer' = "exists" /\ UNCHANGED <<wanted, skipped>> /\ kind = "file"
  <2>1. ManifestTypes'
    BY <1>1, <1>2, <1>8 DEF ManifestTypes
  <2>2. QED  BY <1>5, <1>8, <2>1
<1>9. QED  BY <1>3, <1>6, <1>7, <1>8

\* The steps of the receiver, and the sender's answer.
LEMMA InspectKeeps ==
  ASSUME ManifestAssumption, ManifestInv, Inspect
  PROVE  ManifestInv'
<1>1. /\ offer = "offered" /\ offer' \in {"planning", "refused"}
      /\ UNCHANGED <<origin, follow, toScan, toWalk, taken, sources, wanted, skipped, nextEntry>>
      /\ offer' = "planning" => ~Repeats
      /\ offer' = "refused" => ~(Len(sources) \in 1..MaxEntries) \/ ~Valid \/ Repeats
  BY DEF Inspect, Fixed, Plan, Valid
<1>2. ManifestTypes' /\ SourcesInv'
  BY <1>1, Untouched DEF ManifestInv, SourcesInv
<1>3. PlanInv'
  BY <1>1, PlanUntouched DEF ManifestInv
<1>4. Differ => ~Repeats
  BY DEF Differ, Repeats
<1>5. OfferIsAccepted'
  BY <1>1, <1>4 DEF ManifestInv, SourcesInv, OfferIsAccepted, Overdone
<1>6. QED  BY <1>2, <1>3, <1>5 DEF ManifestInv

LEMMA AcceptKeeps ==
  ASSUME ManifestInv, Accept
  PROVE  ManifestInv'
<1>1. /\ offer = "planning" /\ offer' = IF ValidSelection THEN "agreed" ELSE "mistrusted"
      /\ UNCHANGED <<origin, follow, toScan, toWalk, taken, sources, wanted, skipped, nextEntry>>
  BY DEF Accept, Fixed, Plan
<1>2. ValidSelection
  <2>1. Len(wanted) \in Nat /\ Len(sources) \in Nat /\ nextEntry \in Nat
    BY Sequences DEF ManifestInv, ManifestTypes
  <2>2. \A i \in 1..Len(wanted) : wanted[i] <= Len(sources)
    BY <2>1 DEF ManifestInv, PlanInv
  <2>3. ASSUME NEW i \in 2..Len(wanted)
        PROVE  wanted[i - 1] < wanted[i]
    <3>1. i - 1 \in 1..Len(wanted) /\ i \in 1..Len(wanted) /\ i - 1 < i
      BY <2>1
    <3>2. QED  BY <3>1 DEF ManifestInv, PlanInv
  <2>4. QED  BY <2>2, <2>3 DEF ValidSelection
<1>3. ManifestTypes' /\ SourcesInv'
  BY <1>1, <1>2, Untouched DEF ManifestInv, SourcesInv
<1>4. ~Repeats
  BY <1>1 DEF ManifestInv, PlanInv
<1>5. PlanInv'
  BY <1>1, <1>2, <1>4, PlanUntouched DEF ManifestInv
<1>6. OfferIsAccepted'
  BY <1>1, <1>2 DEF OfferIsAccepted
<1>7. QED  BY <1>3, <1>5, <1>6 DEF ManifestInv

LEMMA PlanEntryKeeps ==
  ASSUME ManifestInv, PlanEntry
  PROVE  ManifestInv'
<1>1. /\ offer = "planning" /\ offer' \in {"planning", "exists"}
      /\ UNCHANGED <<origin, follow, toScan, toWalk, taken, sources>>
  <2>1. sources[nextEntry].kind \in {"file", "directory", "unknown"}
    <3>1. nextEntry \in 1..Len(sources)
      BY DEF PlanEntry, ManifestInv, ManifestTypes
    <3>2. sources[nextEntry] \in Entries
      BY <3>1, Sequences DEF ManifestInv, ManifestTypes
    <3>3. QED  BY <3>2 DEF Entries
  <2>2. QED  BY <2>1 DEF PlanEntry, Want, Skip, Fixed
<1>2. ManifestTypes' /\ PlanInv'
  BY PlanGrows DEF ManifestInv
<1>3. SourcesInv'
  BY <1>1 DEF ManifestInv, SourcesInv, UnderTaken, Nested, Within, Kept, Differ, Valid, Validate
<1>4. OfferIsAccepted'
  BY <1>1 DEF OfferIsAccepted
<1>5. QED  BY <1>2, <1>3, <1>4 DEF ManifestInv

LEMMA ManifestStep ==
  ASSUME ManifestAssumption, ManifestInv, [ManifestNext]_manifestVars
  PROVE  ManifestInv'
<1>1. CASE \/ SkipLink \/ Unscannable \/ ScanArgument \/ PassItem \/ RefuseItem \/ TakeItem \/ MakeOffer
  <2>1. ManifestTypes' /\ SourcesInv'
    BY <1>1, ScanKeeps DEF ManifestInv
  <2>2. /\ offer = "scanning" /\ UNCHANGED <<wanted, nextEntry>>
        /\ offer' \notin {"planning", "agreed", "mistrusted", "refused"}
    BY <1>1 DEF SkipLink, Unscannable, ScanArgument, PassItem, RefuseItem, TakeItem, MakeOffer, Scanning,
       Walking, Plan
  <2>3. PlanInv'
    BY <2>1, <2>2, ScanHasNoPlan DEF ManifestInv
  <2>4. QED  BY <2>1, <2>2, <2>3 DEF ManifestInv, OfferIsAccepted
<1>2. CASE Inspect
  BY <1>2, InspectKeeps
<1>3. CASE PlanEntry
  BY <1>3, PlanEntryKeeps
<1>4. CASE Accept
  BY <1>4, AcceptKeeps
<1>5. CASE UNCHANGED manifestVars
  BY <1>5 DEF manifestVars, ManifestInv, ManifestTypes, SourcesInv, UnderTaken, Nested, Within, Kept, Differ,
     Valid, Validate, PlanInv, Repeats, OfferIsAccepted
<1>6. QED
  BY <1>1, <1>2, <1>3, <1>4, <1>5 DEF ManifestNext

-----------------------------------------------------------------------------
(* The theorems. *)

(***************************************************************************)
(* What scan offers is accepted by inspect of the same build, whatever the *)
(* arguments, folders and links, and with any limits, unless disambiguate  *)
(* has made a name too long, or has come to its last resort.               *)
(* (files/scan.rs 68-285, transfer/receiver.rs 425-451)                    *)
(***************************************************************************)
THEOREM OfferIsAcceptedHolds ==
  ASSUME ManifestAssumption
  PROVE  ManifestSpec => []OfferIsAccepted
<1>1. ManifestInit => ManifestInv
  BY ManifestStarts
<1>2. ManifestInv /\ [ManifestNext]_manifestVars => ManifestInv'
  BY ManifestStep
<1>3. ManifestInv => OfferIsAccepted
  BY DEF ManifestInv
<1>4. QED  BY <1>1, <1>2, <1>3, PTL DEF ManifestSpec

\* An agreed plan is one that can be sent and received item by item.
LEMMA AgreedIsSound ==
  ASSUME ManifestInv
  PROVE  PlanIsSound
<1>1. SUFFICES ASSUME offer = "agreed", NEW i \in 1..Len(wanted)
               PROVE  LET e == sources[wanted[i]]
                          plain(f) == \A k \in 1..Len(f.path) : f.path[k].sep = "slash"
                      IN  /\ e.kind # "unknown" /\ (e.kind = "file" => e.local)
                          /\ origin = "ours" => e.path \in Names \/ \E j \in 1..(i - 1) :
                               Inside(sources[wanted[j]].path, e.path)
                                 /\ sources[wanted[j]].kind = "directory"
                          /\ \A j \in 1..(i - 1) : LET f == sources[wanted[j]] IN
                               plain(e) /\ plain(f) => OnDisk(e.path) # OnDisk(f.path)
  BY DEF PlanIsSound, ManifestInv, PlanInv
<1> DEFINE e == sources[wanted[i]]
           plain(f) == \A k \in 1..Len(f.path) : f.path[k].sep = "slash"
<1>2. /\ nextEntry \in Nat /\ nextEntry - 1 <= Len(sources) /\ Len(sources) \in Nat /\ Len(wanted) \in Nat
      /\ \A j \in 1..Len(wanted) : wanted[j] \in 1..(nextEntry - 1) /\ wanted[j] \in 1..Len(sources)
  <2>1. nextEntry \in Nat /\ Len(sources) \in Nat /\ Len(wanted) \in Nat
    BY Sequences DEF ManifestInv, ManifestTypes
  <2>2. nextEntry - 1 <= Len(sources) /\ \A j \in 1..Len(wanted) : wanted[j] \in 1..(nextEntry - 1)
    BY <2>1 DEF ManifestInv, PlanInv
  <2>3. QED  BY <2>1, <2>2
<1>3. \A j \in 1..(i - 1) : j \in 1..Len(wanted) /\ wanted[j] # wanted[i]
  <2> TAKE j \in 1..(i - 1)
  <2>1. j \in 1..Len(wanted) /\ j < i
    BY <1>2
  <2>2. QED  BY <1>2, <2>1 DEF ManifestInv, PlanInv
<1>4. \A j \in 1..Len(wanted) : sources[wanted[j]] \in Entries
  BY <1>2, Sequences DEF ManifestInv, ManifestTypes
<1>5. e.kind # "unknown" /\ (e.kind = "file" => e.local)
  BY <1>4 DEF Entries, ManifestInv, PlanInv
<1>6. ASSUME origin = "ours", e.path \notin Names
      PROVE  \E j \in 1..(i - 1) : /\ Inside(sources[wanted[j]].path, e.path)
                                   /\ sources[wanted[j]].kind = "directory"
  <2>1. PICK k \in 1..(wanted[i] - 1) : Inside(sources[k].path, e.path) /\ sources[k].kind = "directory"
    BY <1>2, <1>6 DEF ManifestInv, SourcesInv, Nested, Within
  <2>2. k \in 1..(nextEntry - 1) /\ k < wanted[i]
    BY <1>2
  <2>3. PICK j \in 1..Len(wanted) : wanted[j] = k
    BY <2>1, <2>2 DEF ManifestInv, PlanInv
  <2>4. j < i
    <3>1. ~(i < j) /\ i # j
      BY <1>2, <2>2, <2>3 DEF ManifestInv, PlanInv
    <3>2. QED  BY <1>2, <3>1
  <2>5. j \in 1..(i - 1)
    BY <1>2, <2>4
  <2>6. QED  BY <2>1, <2>3, <2>5
<1>7. ASSUME NEW j \in 1..(i - 1), plain(e), plain(sources[wanted[j]])
      PROVE  OnDisk(e.path) # OnDisk(sources[wanted[j]].path)
  <2>1. ASSUME NEW f \in Entries, plain(f)
        PROVE  OnDisk(f.path) = f.path
    <3>1. f.path \in Seq(Component) /\ Len(f.path) \in Nat
      BY <2>1 DEF Entries
    <3>2. \A k \in 1..Len(f.path) : [f.path[k] EXCEPT !.sep = "slash"] = f.path[k]
      <4> TAKE k \in 1..Len(f.path)
      <4>1. f.path[k] \in Component /\ f.path[k].sep = "slash"
        BY <2>1, <3>1, Sequences
      <4>2. \A c \in Component : c.sep = "slash" => [c EXCEPT !.sep = "slash"] = c
        BY DEF Component
      <4>3. QED  BY <4>1, <4>2
    <3>3. /\ OnDisk(f.path) = [k \in 1..Len(f.path) |-> f.path[k]]
      BY <3>2 DEF OnDisk
    <3>4. QED  BY <3>1, <3>3
  <2>2. e.path # sources[wanted[j]].path
    <3>1. ~Repeats
      BY <1>1 DEF ManifestInv, PlanInv
    <3>2. QED  BY <1>2, <1>3, <3>1 DEF Repeats
  <2>3. e \in Entries /\ sources[wanted[j]] \in Entries
    BY <1>3, <1>4
  <2> HIDE DEF e, plain
  <2>4. QED  BY <1>7, <2>1, <2>2, <2>3
<1>8. QED  BY <1>5, <1>6, <1>7

(***************************************************************************)
(* An Accept asks only for what the sender has, each folder before what is *)
(* in it, and no two things at one place; and validate_selection takes it. *)
(* (transfer/receiver.rs 425-489, transfer/sender.rs 230-249)              *)
(***************************************************************************)
THEOREM PlanIsSoundHolds ==
  ASSUME ManifestAssumption
  PROVE  ManifestSpec => []PlanIsSound
<1>1. ManifestInit => ManifestInv
  BY ManifestStarts
<1>2. ManifestInv /\ [ManifestNext]_manifestVars => ManifestInv'
  BY ManifestStep
<1>3. ManifestInv => PlanIsSound
  BY AgreedIsSound
<1>4. QED  BY <1>1, <1>2, <1>3, PTL DEF ManifestSpec
=============================================================================
