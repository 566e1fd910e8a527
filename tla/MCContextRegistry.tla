-------------------------- MODULE MCContextRegistry --------------------------
(***************************************************************************)
(* Two goroutines and two contexts on every kind of backend; and what one  *)
(* context holds, edited and saved twice on machines with and without nsc, *)
(* credential files, and environment.                                      *)
(***************************************************************************)
EXTENDS ContextRegistry, ContextSettings

CONSTANTS a, b, g1, g2

VARIABLE part       \* "registry" or "settings"

set(s, fs) == [f \in Fields |-> IF f \in DOMAIN fs THEN fs[f] ELSE s[f]]

MCPayloads ==
    {Empty, set(Empty, [nsc |-> "bare"]), set(Empty, [nsc |-> "bare", url |-> "u"]),
     set(Empty, [nsc |-> "bare", creds |-> "bare"]), set(Empty, [nsc |-> "bare", nkey |-> "env"]), set(Empty, [user |-> "bare", creds |-> "bare"]),
     set(Empty, [jwt |-> "bare", seed |-> "file"]), set(Empty, [token |-> "file"]),
     set(Empty, [cert |-> "bare", key |-> "file", socks |-> "s"]), set(Empty, [win |-> "nomatch"])}
    \cup {set(Empty, [creds |-> ref, url |-> "u"]) : ref \in Refs}

MCOptionSets ==
    {<<>>, [url |-> "v"], [url |-> ""], [creds |-> "file"], [creds |-> ""], [socks |-> "none"],
     [user |-> "bare", password |-> "env"], [nkey |-> "bare"], [jwt |-> "data", seed |-> "op"],
     [nsc |-> ""], [nsc |-> "bare"], [nsc |-> "bare", creds |-> "bare"]}

MCMachines == {w \in SettingsWorlds : w.env = w.op}

MCInit ==
    /\ Init /\ SettingsInit
    /\ \/ part = "registry" /\ payload = Empty /\ machine = CHOOSE w \in Machines : TRUE
       \/ part = "settings" /\ backend = "rootless"
MCNext ==
    /\ UNCHANGED part
    /\ \/ part = "registry" /\ Next /\ UNCHANGED settingsVars
       \/ part = "settings" /\ SettingsNext /\ UNCHANGED vars
MCSpec == MCInit /\ [][MCNext]_<<vars, settingsVars, part>> 
          /\ \A c \in Caller : SF_vars(Advance(c))
=============================================================================
