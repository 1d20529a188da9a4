------------------------------- MODULE Providers -------------------------------
(***************************************************************************)
(* The LLM configuration (llm/, api/admin_llm_routes.py): providers, their *)
(* models by tier, and what a request makes of them.  A request of an       *)
(* administrator reads one row, decides on what it read, and commits; the   *)
(* ORM writes the columns that differ from what was read. Those who use the *)
(* configuration read it in two statements and keep what they read.         *)
(***************************************************************************)
EXTENDS Naturals, FiniteSets

CONSTANTS
  Provider,   \* the identifiers a provider row can get
  Tiers,      \* small, medium, large: the tiers a runtime must have
  ModelNames,
  NoName,     \* no row for the tier, or a field a request leaves alone
  Admins,     \* the requests that can be under way at once; a bound
  AdminOps,   \* what administrators do; a bound
  MaxRequests \* how many requests they make; a bound

ASSUME ProviderAssumption ==
  /\ NoName \notin ModelNames
  /\ MaxRequests \in Nat
  /\ AdminOps \subseteq {"create", "enable", "default", "delete", "add", "patch", "drop"}

VARIABLES
  row,       \* each provider's row: new, there, gone
  enabled,   \* those with is_enabled
  default,   \* those with is_default
  modelName, \* model_name of the provider's row for a tier
  modelsOn,  \* the models with is_enabled
  pending,   \* each administrator's request between its read and its commit
  asked,     \* requests so far
  overlapped \* whether two requests were ever under way at once

providerVars == <<row, enabled, default, modelName, modelsOn, pending, asked, overlapped>>
configVars == <<row, enabled, default, modelName, modelsOn>>

Idle == [op |-> "none"]
Present == {p \in Provider : row[p] = "there"}
Free(a) == pending[a] = Idle

\* The first provider is seeded with a model for each tier, as the default.
ProvidersInit ==
  /\ \E p \in Provider, n \in ModelNames :
       /\ row = [q \in Provider |-> IF q = p THEN "there" ELSE "new"]
       /\ enabled = {p}
       /\ default = {p}
       /\ modelName = [k \in Provider \X Tiers |-> IF k[1] = p THEN n ELSE NoName]
       /\ modelsOn = {p} \X Tiers
  /\ pending = [a \in Admins |-> Idle]
  /\ overlapped = FALSE

-----------------------------------------------------------------------------
\* Requests that pass the checks of their handler, with what they read.

Creations ==
  {r \in [op : {"create"}, p : {p \in Provider : row[p] = "new"}, on : BOOLEAN, dflt : BOOLEAN] :
     r.dflt => r.on}

\* update_provider and toggle_provider, which wants the opposite of what it read.
Switches ==
  {[op |-> "enable", p |-> p, to |-> to, sawOn |-> p \in enabled, sawDefault |-> p \in default] :
     p \in Present, to \in BOOLEAN}

Promotions == [op : {"default"}, p : Present \cap enabled]

Deletions == [op : {"delete"}, p : Present \ default]

Additions == [op : {"add"}, p : Present, t : Tiers, name : ModelNames, on : BOOLEAN]

ModelRows == {k \in Provider \X Tiers : modelName[k] # NoName}

\* update_model: any of its fields, each left alone or given.
Patches ==
  [op : {"patch"}, k : ModelRows, name : ModelNames \cup {NoName}, on : {"on", "off", "asis"}]

Drops == [op : {"drop"}, k : ModelRows]

Ask(a) ==
  /\ Free(a)
  /\ asked < MaxRequests
  /\ \E r \in Creations \cup Switches \cup Promotions \cup Deletions
                \cup Additions \cup Patches \cup Drops :
       r.op \in AdminOps /\ pending' = [pending EXCEPT ![a] = r]
  /\ asked' = asked + 1
  /\ overlapped' = (overlapped \/ \E b \in Admins \ {a} : ~Free(b))
  /\ UNCHANGED configVars

\* The commit, or the exception of one: a row that is gone, a constraint, a
\* database that fails. Nothing is written.
Answer(a) ==
  /\ pending' = [pending EXCEPT ![a] = Idle]
  /\ UNCHANGED <<asked, overlapped>>

RequestFails(a) == ~Free(a) /\ Answer(a) /\ UNCHANGED configVars

-----------------------------------------------------------------------------
\* create_provider: the other defaults are cleared in the same transaction.
Create(a) ==
  LET r == pending[a] IN
  /\ r.op = "create"
  /\ row[r.p] = "new"
  /\ row' = [row EXCEPT ![r.p] = "there"]
  /\ enabled' = IF r.on THEN enabled \cup {r.p} ELSE enabled
  /\ default' = IF r.dflt THEN {r.p} ELSE default
  /\ UNCHANGED <<modelName, modelsOn>>
  /\ Answer(a)

\* Mutant: a provider that is disabled stays the default.
Enable_KeepsDefault(a) ==
  LET r == pending[a] IN
  /\ r.op = "enable"
  /\ r.p \in Present \/ r.to = r.sawOn
  /\ enabled' = IF r.to = r.sawOn THEN enabled
                ELSE IF r.to THEN enabled \cup {r.p} ELSE enabled \ {r.p}
  /\ UNCHANGED <<row, default, modelName, modelsOn>>
  /\ Answer(a)

\* update_provider, toggle_provider: a column that holds what is assigned to
\* it is not written, whatever the row has become since.
Enable(a) ==
  LET r == pending[a] IN
  /\ r.op = "enable"
  /\ r.p \in Present \/ r.to = r.sawOn
  /\ enabled' = IF r.to = r.sawOn THEN enabled
                ELSE IF r.to THEN enabled \cup {r.p} ELSE enabled \ {r.p}
  /\ default' = IF ~r.to /\ r.sawDefault THEN default \ {r.p} ELSE default
  /\ UNCHANGED <<row, modelName, modelsOn>>
  /\ Answer(a)

\* set_default_provider: all are cleared and this one is set, or nothing.
SetDefault(a) ==
  LET r == pending[a] IN
  /\ r.op = "default"
  /\ r.p \in Present
  /\ default' = {r.p}
  /\ UNCHANGED <<row, enabled, modelName, modelsOn>>
  /\ Answer(a)

\* delete_provider: its models go with it.
Delete(a) ==
  LET r == pending[a] IN
  /\ r.op = "delete"
  /\ r.p \in Present
  /\ row' = [row EXCEPT ![r.p] = "gone"]
  /\ enabled' = enabled \ {r.p}
  /\ default' = default \ {r.p}
  /\ modelName' = [k \in Provider \X Tiers |-> IF k[1] = r.p THEN NoName ELSE modelName[k]]
  /\ modelsOn' = {k \in modelsOn : k[1] # r.p}
  /\ Answer(a)

\* create_model: a provider has one row for a tier.
AddModel(a) ==
  LET r == pending[a] IN
  /\ r.op = "add"
  /\ r.p \in Present
  /\ modelName[<<r.p, r.t>>] = NoName
  /\ modelName' = [modelName EXCEPT ![<<r.p, r.t>>] = r.name]
  /\ modelsOn' = IF r.on THEN modelsOn \cup {<<r.p, r.t>>} ELSE modelsOn
  /\ UNCHANGED <<row, enabled, default>>
  /\ Answer(a)

\* update_model
PatchModel(a) ==
  LET r == pending[a] IN
  /\ r.op = "patch"
  /\ modelName[r.k] # NoName
  /\ modelName' = IF r.name = NoName THEN modelName ELSE [modelName EXCEPT ![r.k] = r.name]
  /\ modelsOn' = CASE r.on = "on" -> modelsOn \cup {r.k}
                   [] r.on = "off" -> modelsOn \ {r.k}
                   [] OTHER -> modelsOn
  /\ UNCHANGED <<row, enabled, default>>
  /\ Answer(a)

\* delete_model
DropModel(a) ==
  LET r == pending[a] IN
  /\ r.op = "drop"
  /\ modelName[r.k] # NoName
  /\ modelName' = [modelName EXCEPT ![r.k] = NoName]
  /\ modelsOn' = modelsOn \ {r.k}
  /\ UNCHANGED <<row, enabled, default>>
  /\ Answer(a)

Administer ==
  \E a \in Admins :
    \/ Ask(a) \/ RequestFails(a)
    \/ Create(a) \/ Enable(a) \/ SetDefault(a) \/ Delete(a)
    \/ AddModel(a) \/ PatchModel(a) \/ DropModel(a)

-----------------------------------------------------------------------------
\* LLMConfigService: the provider's row, then its enabled models.

Usable(p) == p \in Present /\ p \in enabled

EnabledModels(p) ==
  [t \in {u \in Tiers : <<p, u>> \in modelsOn} |-> modelName[p, t]]

\* _build_runtime: every tier has its model, or there is no runtime.
Builds(models) == DOMAIN models # {} /\ Tiers \subseteq DOMAIN models

-----------------------------------------------------------------------------
\* A default that is disabled leaves every query without a runtime
\* (load_default_runtime); it takes two administrators at once to make one
\* (admin_llm_routes.py, "A disabled provider cannot be default").
DefaultIsUsable == default \subseteq enabled \cap Present \/ overlapped

===============================================================================
