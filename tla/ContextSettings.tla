-------------------------- MODULE ContextSettings --------------------------
(***************************************************************************)
(* What a context holds and what becomes of it: the options applied to it, *)
(* the expansion of a loaded payload, the migration of the deprecated nsc  *)
(* field, validation, the embedding of credential files and the connection *)
(* options made from it.                                                   *)
(*                                                                         *)
(* A settings value is a function from Fields.  "" is an unset field; a    *)
(* field that may refer to a secret holds the kind of its reference: a     *)
(* bare value or one of the URI schemes.  A url is "" or a name.  The      *)
(* world is what the machine has: its nsc binary, files and environment.   *)
(***************************************************************************)
EXTENDS Naturals, FiniteSets

CONSTANTS
    DefaultURL,     \* nats.DefaultURL
    Payloads,       \* the settings in the files a user has
    OptionSets,     \* options given to a load: functions from some fields
    Machines,       \* the worlds the program runs in
    MaxSaves        \* bound: times a context is saved

VARIABLES
    payload,        \* the stored settings
    ctx,            \* the context in memory
    machine,
    saves

settingsVars == <<payload, ctx, machine, saves>>

CredentialFields == {"user", "creds", "nkey", "nsc", "jwt"}
Fields == CredentialFields \cup {"url", "nscUrl", "nscCreds", "password", "seed",
                                 "token", "cert", "key", "ca", "socks", "win"}
Empty == [f \in Fields |-> ""]

Unregistered == "x"
Refs == {"bare", "file", "data", "op", "env", "nsc", Unregistered}

SettingsWorlds == [nsc : {"full", "noservice", "missing"}, files : BOOLEAN, env : BOOLEAN, op : BOOLEAN]

\* The fields that hold what nsc answered are neither stored nor set by options.
Asking == {"nscUrl", "nscCreds"}

ASSUME SettingsAssumption ==
    /\ DefaultURL \in STRING
    /\ \A s \in Payloads : s \in [Fields -> STRING] /\ \A f \in Asking : s[f] = ""
    /\ \A opts \in OptionSets : /\ DOMAIN opts \subseteq Fields \ Asking
                               /\ \A f \in DOMAIN opts : opts[f] \in STRING
    /\ Machines \subseteq SettingsWorlds

\* What the deprecated lookup answers: credentials and the operator's service.
nscService(w) == IF w.nsc = "full" THEN "service" ELSE ""

-----------------------------------------------------------------------------
(* Loading.                                                                *)

\* An option with an empty value changes nothing ...
override(s, opts, f) == IF opts[f] = "" THEN s[f] ELSE opts[f]

\* ... except for the deprecated lookup; the proxy is removed by name.
WithNscUrl(opts) == opts["nsc"]
WithSocksProxy(s, opts) ==
    IF opts["socks"] \in {"none", "NONE", "-"} THEN "" ELSE override(s, opts, "socks")

applyOpts(s, opts) ==
    [f \in Fields |-> IF f \notin DOMAIN opts THEN s[f]
                      ELSE IF f = "socks" THEN WithSocksProxy(s, opts)
                      ELSE IF f = "nsc" THEN WithNscUrl(opts)
                      ELSE override(s, opts, f)]

configureNewContext(s, opts) ==
    LET t == applyOpts(s, opts)
    IN  IF t["nsc"] = "" /\ t["url"] = "" /\ t["nscUrl"] = ""
        THEN [t EXCEPT !["url"] = DefaultURL] ELSE t

\* ~ and variables are expanded (the kind of a reference stays) and the
\* deprecated lookup is resolved, which fails where nsc does.
Expands(s, w) == s["nsc"] # "" => w.nsc # "missing"
expand(s, w) ==
    IF s["nsc"] = "" THEN s
    ELSE [s EXCEPT !["nscCreds"] = "bare", !["nscUrl"] = nscService(w)]

ReadsBack(s, raw, w) == raw \/ Expands(s, w)
Loaded(s, opts, raw, w) ==
    IF raw THEN applyOpts(s, opts) ELSE configureNewContext(expand(s, w), opts)

ServerURL(s) == IF s["url"] # "" THEN s["url"]
                ELSE IF s["nscUrl"] # "" THEN s["nscUrl"]
                ELSE DefaultURL

Creds(s) == IF s["creds"] # "" THEN s["creds"] ELSE s["nscCreds"]

-----------------------------------------------------------------------------
(* Saving.                                                                 *)

\* nsc is asked again only when neither it nor the user gave credentials or a url.
Migrates(s, w) ==
    s["nsc"] # "" /\ s["creds"] = "" /\ s["url"] = "" /\ s["nscUrl"] = "" => w.nsc # "missing"

\* (A mutated migrateNSCLookup: the url nsc gave at load is dropped.)
migrateForgetsUrl(s, w) ==
    IF s["nsc"] = "" THEN s
    ELSE [s EXCEPT !["creds"] = IF @ = "" THEN "nsc" ELSE @,
                   !["nsc"] = "", !["nscCreds"] = "", !["nscUrl"] = ""]

\* The url nsc gave at load, or gives now, and its credentials as a reference.
migrateNSCLookup(s, w) ==
    IF s["nsc"] = "" THEN s
    ELSE LET url == IF s["url"] # "" THEN s["url"]
                    ELSE IF s["nscUrl"] # "" THEN s["nscUrl"]
                    ELSE IF s["creds"] = "" THEN nscService(w)
                    ELSE ""
         IN  [s EXCEPT !["url"] = url, !["creds"] = IF @ = "" THEN "nsc" ELSE @,
                       !["nsc"] = "", !["nscCreds"] = "", !["nscUrl"] = ""]

numCreds(s) == Cardinality({f \in CredentialFields : s[f] # ""})

\* The Windows store needs a type that parses, a matcher and what to match.
ValidStore(s) == s["win"] \notin {"badtype", "badmatchby", "nomatch"}
Validate(s) == numCreds(s) <= 1 /\ ValidStore(s)

\* A bare value and a file URI are read and put in place of the reference.
embedIfFile(ref) == IF ref \in {"bare", "file"} THEN "data" ELSE ref
EmbeddedFields == <<"creds", "nkey", "jwt", "seed">>
Embeds(s, w) == w.files \/ \A i \in DOMAIN EmbeddedFields : s[EmbeddedFields[i]] \notin {"bare", "file"}

\* A field that cannot be read ends the pass; the fields before it stay embedded.
embedFileCredentials(s, w) ==
    LET broken == {i \in DOMAIN EmbeddedFields :
                      ~w.files /\ s[EmbeddedFields[i]] \in {"bare", "file"}}
        done == {EmbeddedFields[i] : i \in {j \in DOMAIN EmbeddedFields : \A b \in broken : j < b}}
    IN  [f \in Fields |-> IF f \in done THEN embedIfFile(s[f]) ELSE s[f]]

\* What is serialized: the fields found by nsc are not part of the payload.
Payload(s) == [s EXCEPT !["nscUrl"] = "", !["nscCreds"] = ""]

Saves(s, embedding, w) ==
    /\ Migrates(s, w)
    /\ Validate(migrateNSCLookup(s, w))
    /\ embedding => Embeds(migrateNSCLookup(s, w), w)
Saved(s, embedding, w) ==
    LET m == migrateNSCLookup(s, w)
    IN  Payload(IF embedding THEN embedFileCredentials(m, w) ELSE m)

-----------------------------------------------------------------------------
(* Connecting.                                                             *)

\* The resolvers of the default registry.  A bare value has none.
fileResolver(ref, w) == ref = "file" /\ w.files
envResolver(ref, w) == ref = "env" /\ w.env
opResolver(ref, w) == ref = "op" /\ w.op
nscResolver(ref, w) == ref = "nsc" /\ w.nsc # "missing" /\ w.files
dataResolver(ref) == ref = "data"
Resolves(ref, w) == \/ fileResolver(ref, w) \/ envResolver(ref, w) \/ opResolver(ref, w)
                    \/ nscResolver(ref, w) \/ dataResolver(ref)

Registered(ref) == ref \in {"file", "env", "op", "nsc", "data"}
resolveLiteral(ref, w) == Registered(ref) => Resolves(ref, w)
buildCredsOption(ref, w) == ref \in {"bare", "file"} \/ (Registered(ref) /\ Resolves(ref, w))
buildNkeyOption(ref, w) ==
    IF ref \in {"bare", "file"} THEN w.files ELSE Registered(ref) /\ Resolves(ref, w)
requireFilePath(ref) == ref \in {"bare", "file"}

\* The one way a connection authenticates, the token aside.
Scheme(s) == IF s["user"] # "" THEN "user/password"
             ELSE IF Creds(s) # "" THEN "creds"
             ELSE IF s["nkey"] # "" THEN "nkey"
             ELSE IF s["jwt"] # "" THEN "user_jwt"
             ELSE "none"

Authenticates(s, w) ==
    CASE Scheme(s) = "user/password" -> resolveLiteral(s["password"], w)
      [] Scheme(s) = "creds" -> buildCredsOption(Creds(s), w)
      [] Scheme(s) = "nkey" -> buildNkeyOption(s["nkey"], w)
      [] Scheme(s) = "user_jwt" -> resolveLiteral(s["jwt"], w) /\ resolveLiteral(s["seed"], w)
      [] OTHER -> TRUE

certStoreNatsOptions(s) == s["win"] = "" \/ ValidStore(s)

\* NATSOptions makes the connection's options or fails.
NATSOptions(s, w) ==
    /\ Authenticates(s, w)
    /\ resolveLiteral(s["token"], w)
    /\ s["cert"] # "" /\ s["key"] # "" => requireFilePath(s["cert"]) /\ requireFilePath(s["key"])
    /\ s["ca"] # "" => requireFilePath(s["ca"])
    /\ certStoreNatsOptions(s)

-----------------------------------------------------------------------------
(* What a context means to its user: where it connects and how.            *)

Meaning(s) == [server |-> ServerURL(s), scheme |-> Scheme(s)]

\* nsc has answered for the lookup the settings hold, and for no other: not so
\* after a raw load, or when an option set or removed the lookup.
Asked(s) == (s["nsc"] # "") <=> (s["nscCreds"] # "")

\* Loading keeps what the context was loaded as, and what it meant then; an
\* edit of the lookup means what the edited payload would when loaded.  With
\* credentials in place of those of such a lookup, and no url, an edit opts out
\* of nsc and of the server it knows.
NoContext == [is |-> "none"]
context(s) ==
    [is |-> "loaded", settings |-> s, loaded |-> s, embedded |-> FALSE, asked |-> Asked(s),
     meant |-> Meaning(IF Asked(s) THEN s ELSE expand(Payload(s), machine)),
     optsOut |-> ~ Asked(s) /\ s["nsc"] # "" /\ s["creds"] # "" /\ s["url"] = ""]

SettingsInit ==
    /\ payload \in Payloads
    /\ ctx = NoContext
    /\ machine \in Machines
    /\ saves = 0

LoadSettings(opts, raw) ==
    /\ ctx.is # "loaded" /\ saves < MaxSaves
    /\ ReadsBack(payload, raw, machine)
    /\ ctx' = context(Loaded(payload, opts, raw, machine))
    /\ UNCHANGED <<payload, machine, saves>>

\* Embed, alone or as the first step of SaveEmbedded.
Embed ==
    /\ ctx.is = "loaded"
    /\ ctx' = [ctx EXCEPT !.settings = embedFileCredentials(@, machine)]
    /\ UNCHANGED <<payload, machine, saves>>

\* A save changes the context in memory as far as it comes, and is retried with
\* that; the backend may fail.
SaveSettings(embedding) ==
    /\ ctx.is = "loaded"
    /\ LET migrated == migrateNSCLookup(ctx.settings, machine)
           embedded == IF embedding THEN embedFileCredentials(migrated, machine) ELSE migrated
       IN  \/ /\ Migrates(ctx.settings, machine) /\ ~ Validate(migrated)
              /\ ctx' = [ctx EXCEPT !.settings = migrated]
              /\ UNCHANGED <<payload, saves>>
           \/ /\ Migrates(ctx.settings, machine) /\ Validate(migrated)
              /\ ctx' = [ctx EXCEPT !.settings = embedded]
              /\ UNCHANGED <<payload, saves>>                    \* a file, or the backend, fails
           \/ /\ Saves(ctx.settings, embedding, machine)
              /\ payload' = Saved(ctx.settings, embedding, machine)
              /\ ctx' = [ctx EXCEPT !.is = "saved", !.settings = embedded, !.embedded = embedding]
              /\ saves' = saves + 1
    /\ UNCHANGED machine

\* The machine loses its files, its environment or its nsc, or the payload is
\* carried to one without them.
ChangeMachine ==
    /\ machine' \in {w \in Machines : w.nsc \in {machine.nsc, "missing"}} \ {machine}
    /\ UNCHANGED <<payload, ctx, saves>>

SettingsNext ==
    \/ \E opts \in OptionSets, raw \in BOOLEAN : LoadSettings(opts, raw)
    \/ \E embedding \in BOOLEAN : SaveSettings(embedding)
    \/ Embed
    \/ ChangeMachine

SettingsSpec == SettingsInit /\ [][SettingsNext]_settingsVars

(***************************************************************************)
(* A context that is loaded and saved, after however many failed saves and *)
(* on a machine that lost its files or nsc meanwhile, connects to the same *)
(* server with the same kind of credentials when it is loaded again.  The  *)
(* deprecated lookup is gone, and a context that was embedded connects     *)
(* where its credential files are not (migrateNSCLookup's and              *)
(* SaveEmbedded's comments).  Only an edit that replaces the credentials   *)
(* of a lookup nsc was not asked for, and gives no url, loses its server.  *)
(***************************************************************************)
SaveKeepsMeaning ==
    ctx.is = "saved" =>
        LET again == Loaded(payload, <<>>, FALSE, machine)
            local == {again[f] : f \in {"password", "token", "creds", "nkey", "jwt", "seed"}}
            portable == "nsc" \notin local /\ "file" \notin {again["password"], again["token"]}
        IN  /\ numCreds(again) <= 1 /\ again["nsc"] = ""
            /\ ctx.optsOut \/ Meaning(again) = ctx.meant
            /\ ctx.asked /\ machine.files /\ NATSOptions(ctx.loaded, machine)
                 /\ (Creds(again) = "nsc" => machine.nsc # "missing")
                  => NATSOptions(again, machine)
            /\ ctx.embedded /\ portable /\ NATSOptions(again, [machine EXCEPT !.files = TRUE])
                  => NATSOptions(again, [machine EXCEPT !.files = FALSE])
=============================================================================
