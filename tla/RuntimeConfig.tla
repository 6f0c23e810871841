--------------------------- MODULE RuntimeConfig ---------------------------
(***************************************************************************)
(* The configuration: the tables settings, upstreams and proxy_host_rules  *)
(* (internal/store), what the process runs with (internal/app), and the    *)
(* calls of the admin API that change the one and then the other.  Nothing *)
(* orders these calls: each statement is a step, and the process may be    *)
(* killed between any two and started again.                               *)
(*                                                                         *)
(* Of the settings three are kept: one that is checked with other tables   *)
(* (apk.enabled), one that is only parsed when it is applied (the sizes of *)
(* the memory cache), and one that waits for a restart (cache.root).  An   *)
(* upstream is its row, a host its rule; the order of rows, URLs and APT   *)
(* mirrors are left out.  What applyRuntimeConfig makes of a configuration *)
(* (clients, memory cache, upstream manager, verifier) is installed with   *)
(* it and not shown.                                                       *)
(***************************************************************************)
EXTENDS Naturals, FiniteSets

CONSTANTS
    Calls,        \* bound: requests to the admin API under way
    MaxCalls,     \* bound: requests made in all
    Ups,          \* bound: upstreams that ever have a row
    Imported,     \* upstreams of config.toml, imported at the first start
    Hosts,        \* hosts that may have a rule
    Roots,        \* values of cache.root
    None

VARIABLES
    settings,     \* table settings
    ups,          \* table upstreams; ids are never used again
    rules,        \* table proxy_host_rules
    allowed,      \* setting proxy.allowed_hosts
    cfg,          \* a.cfg, or None while the process is down
    guarded,      \* a.proxyHostRulesConfigured
    call,         \* each call under way, or None
    begun,        \* how many there have been
    agreed,       \* history: the last call to end ran alone and succeeded
    ruled,        \* history: the proxy was guarded while no call was to open
                  \* it, and the table has never been empty since
    absent        \* history: hosts without a rule when the setting was written
                  \* without them, and that no call was then about to write
                  \* to it or has added since

tables == <<settings, ups, rules, allowed>>
running == <<cfg, guarded>>
history == <<agreed, absent>>
vars == <<tables, running, call, begun, history, ruled>>

Settings == [apk : BOOLEAN, size : {"good", "bad"}, root : Roots]

\* What a call sends: None for a setting it does not name.
Edit == [apk : BOOLEAN \cup {None}, size : {"good", "bad", None},
         root : Roots \cup {None}]

\* Of the settings of the proxy none is kept here.
NoEdit == [apk |-> None, size |-> None, root |-> None]

Config == [apk : BOOLEAN, size : {"good", "bad"}, root : Roots,
           ups : SUBSET Ups, hosts : SUBSET Hosts]

\* A rule, and the call that has made it.
Rule == [on : BOOLEAN, by : Calls \cup {None}]

Ops == {"settings", "proxy", "reload", "createUp", "up", "createRule", "rule"}

Steps == {"write", "list", "sync", "load", "loadUps", "loadHosts", "commit",
          "replace", "apply", "install", "guard", "undo", "end"}

Call == [op : Ops, step : Steps,
         edit : Edit \cup {None},            \* settings still to be stored
         hosts : (SUBSET Hosts) \cup {None}, \* rules to store; those it has read
         made : Ups \cup Hosts \cup {None},  \* the row it has made
         next : Config \cup {None},          \* what it loads and applies
         guard : BOOLEAN,                    \* rules it has seen on applying
         ok : BOOLEAN, alone : BOOLEAN]

ASSUME ConfigAssumption ==
    /\ Imported \subseteq Ups /\ Imported # {}
    /\ Roots # {}
    /\ MaxCalls \in Nat
    /\ None \notin Calls \cup Ups \cup Hosts \cup Roots
    /\ None \notin BOOLEAN /\ None \notin {"good", "bad"}
    /\ None \notin Edit \cup Config \cup Call \cup Rule
    /\ \A hs \in SUBSET Hosts : hs # None

Up == cfg # None

HasUp == {u \in Ups : ups[u] \in {"on", "off"}}
EnabledUps == {u \in Ups : ups[u] = "on"}
HasRule == {h \in Hosts : rules[h] # None}
EnabledHosts == {h \in HasRule : rules[h].on}

\* config.Validate, and the parsing that only applyRuntimeConfig and New do.
Validate(c) == c.apk => c.ups # {}
Parses(c) == c.size = "good"

\* LoadRuntimeConfig at one moment; without rows the upstreams of base stay.
LoadConfig(base) ==
    [apk |-> settings.apk, size |-> settings.size, root |-> settings.root,
     ups |-> IF HasUp = {} THEN base ELSE EnabledUps,
     hosts |-> EnabledHosts]

\* Configuration or settings f with what e names.
Override(f, e) ==
    [f EXCEPT !.apk = IF e.apk = None THEN @ ELSE e.apk,
              !.size = IF e.size = None THEN @ ELSE e.size,
              !.root = IF e.root = None THEN @ ELSE e.root]

\* The process has been started for the first time, with a valid config.toml.
Init ==
    /\ settings \in {s \in Settings : s.apk /\ s.size = "good"}
    /\ ups = [u \in Ups |-> IF u \in Imported THEN "on" ELSE "new"]
    /\ rules = [h \in Hosts |-> None]
    /\ allowed = {}
    /\ cfg = LoadConfig({})
    /\ guarded = FALSE
    /\ call = [c \in Calls |-> None] /\ begun = 0
    /\ agreed = TRUE /\ ruled = FALSE /\ absent = Hosts
-----------------------------------------------------------------------------
(* A call and its answer.                                                  *)

Quiet == \A c \in Calls : call[c] = None

Begin(c, op, step, edit, hosts) ==
    /\ Up /\ call[c] = None /\ begun < MaxCalls
    /\ begun' = begun + 1
    /\ call' = [d \in Calls |->
           IF d = c
           THEN [op |-> op, step |-> step, edit |-> edit, hosts |-> hosts,
                 made |-> None, next |-> None, guard |-> FALSE, ok |-> TRUE,
                 alone |-> Quiet]
           ELSE IF call[d] = None THEN None ELSE [call[d] EXCEPT !.alone = FALSE]]
    /\ agreed' = FALSE
    /\ UNCHANGED <<tables, running, absent>>

AdminUpdateConfig(c) == \E e \in Edit \ {NoEdit} : Begin(c, "settings", "load", e, None)

(* Mutant: what is applied has never been loaded.                          *)
AdminReloadConfigUnread(c) == Begin(c, "reload", "apply", None, None)

AdminReloadConfig(c) == Begin(c, "reload", "load", None, None)

AdminProxyConfig(c) ==
    \E hs \in (SUBSET Hosts) \cup {None} : Begin(c, "proxy", "load", NoEdit, hs)

AdminCreateUpstream(c) == Begin(c, "createUp", "write", None, None)

AdminUpstreamAction(c) == Begin(c, "up", "write", None, None)

AdminCreateProxyHostRule(c) == Begin(c, "createRule", "write", None, None)

AdminProxyHostRuleAction(c) == Begin(c, "rule", "write", None, None)

At(c, step) == call[c] # None /\ call[c].step = step

Goto(c, r, step) == call' = [call EXCEPT ![c] = [r EXCEPT !.step = step]]

\* A creation that fails once its row is there takes it back.
Fail(c) ==
    Goto(c, [call[c] EXCEPT !.ok = FALSE, !.next = None],
         IF call[c].made = None THEN "end" ELSE "undo")

\* The database refuses, or the client has gone and its context with it.
StatementFails(c) ==
    /\ call[c] # None /\ call[c].step \notin {"install", "guard", "end"}
    /\ IF call[c].step = "undo" THEN Goto(c, call[c], "end") ELSE Fail(c)
    /\ UNCHANGED <<tables, running, history>>

\* Rows lose the mark of the call with it.
End(c) ==
    /\ At(c, "end")
    /\ rules' = [h \in Hosts |->
           IF rules[h] # None /\ rules[h].by = c
           THEN [rules[h] EXCEPT !.by = None] ELSE rules[h]]
    /\ call' = [call EXCEPT ![c] = None]
    /\ agreed' = (call[c].ok /\ call[c].alone)
    /\ UNCHANGED <<settings, ups, allowed, running, absent>>
-----------------------------------------------------------------------------
(* Rows of upstreams and rules.                                            *)

CreateUpstream(c) ==
    /\ At(c, "write") /\ call[c].op = "createUp"
    /\ \E u \in Ups, state \in {"on", "off"} :
           /\ ups[u] = "new"
           /\ ups' = [ups EXCEPT ![u] = state]
           /\ Goto(c, [call[c] EXCEPT !.made = u], "load")
    /\ UNCHANGED <<settings, rules, allowed, running, history>>

\* UpdateUpstream, SetUpstreamEnabled, DeleteUpstream; the row may have gone.
WriteUpstream(c) ==
    /\ At(c, "write") /\ call[c].op = "up"
    /\ \/ \E u \in HasUp, state \in {"on", "off", "deleted"} :
              ups' = [ups EXCEPT ![u] = state]
       \/ ups' = ups
    /\ Goto(c, call[c], "load")
    /\ UNCHANGED <<settings, rules, allowed, running, history>>

\* A host has one rule: a second one is an error.
CreateProxyHostRule(c) ==
    /\ At(c, "write") /\ call[c].op = "createRule"
    /\ \E h \in Hosts \ HasRule, on \in BOOLEAN :
           /\ rules' = [rules EXCEPT ![h] = [on |-> on, by |-> c]]
           /\ absent' = absent \ {h}
           /\ Goto(c, [call[c] EXCEPT !.made = h], "list")
    /\ UNCHANGED <<settings, ups, allowed, running, agreed>>

\* UpdateProxyHostRule, which may give the rule another host,
\* SetProxyHostRuleEnabled, DeleteProxyHostRule; the row may have gone.
WriteProxyHostRule(c) ==
    /\ At(c, "write") /\ call[c].op = "rule"
    /\ \/ \E h \in HasRule, g \in Hosts, on \in BOOLEAN :
              /\ g = h \/ g \notin HasRule
              /\ rules' = [rules EXCEPT ![h] = None,
                                        ![g] = [on |-> on, by |-> rules[h].by]]
              /\ absent' = absent \ {g}
       \/ \E h \in HasRule :
              rules' = [rules EXCEPT ![h] = None] /\ absent' = absent
       \/ rules' = rules /\ absent' = absent
    /\ Goto(c, call[c], "list")
    /\ UNCHANGED <<settings, ups, allowed, running, agreed>>

\* SyncProxyAllowedHostsSetting: the enabled rules are read ...
ListRules(c) ==
    /\ At(c, "list")
    /\ Goto(c, [call[c] EXCEPT !.hosts = EnabledHosts], "sync")
    /\ UNCHANGED <<tables, running, history>>

\* Hosts that a call other than c has read and is to write to the setting.
Listed(c) ==
    {h \in Hosts : \E d \in Calls \ {c} : At(d, "sync") /\ h \in call[d].hosts}

(* Mutant: an empty list is not written.                                   *)
SyncAllowedHostsIfAny(c) ==
    /\ At(c, "sync")
    /\ allowed' = IF call[c].hosts = {} THEN allowed ELSE call[c].hosts
    /\ absent' = absent \cup (Hosts \ (HasRule \cup call[c].hosts \cup Listed(c)))
    /\ Goto(c, [call[c] EXCEPT !.hosts = {}], "load")
    /\ UNCHANGED <<settings, ups, rules, running, agreed>>

\* ... and written.
SyncAllowedHosts(c) ==
    /\ At(c, "sync")
    /\ allowed' = call[c].hosts
    /\ absent' = absent \cup (Hosts \ (HasRule \cup call[c].hosts \cup Listed(c)))
    /\ Goto(c, [call[c] EXCEPT !.hosts = {}], "load")
    /\ UNCHANGED <<settings, ups, rules, running, agreed>>

\* The row made is deleted by its id; the setting is not written again.
Undo(c) ==
    /\ At(c, "undo")
    /\ ups' = [u \in Ups |-> IF call[c].made = u THEN "deleted" ELSE ups[u]]
    /\ rules' = [h \in Hosts |->
           IF rules[h] # None /\ rules[h].by = c THEN None ELSE rules[h]]
    /\ Goto(c, call[c], "end")
    /\ UNCHANGED <<settings, allowed, running, history>>
-----------------------------------------------------------------------------
(* LoadRuntimeConfig over a.cfg, ValidateSettings and UpdateSettings.      *)

Load(c) ==
    /\ At(c, "load")
    /\ Goto(c, [call[c] EXCEPT !.next = [Override(cfg, settings) EXCEPT !.hosts = {}]],
            "loadUps")
    /\ UNCHANGED <<tables, running, history>>

LoadUps(c) ==
    /\ At(c, "loadUps")
    /\ Goto(c, IF HasUp = {} THEN call[c]
               ELSE [call[c] EXCEPT !.next.ups = EnabledUps], "loadHosts")
    /\ UNCHANGED <<tables, running, history>>

(* Mutant: what is loaded is checked, what is edited is not.               *)
LoadHostsUnchecked(c) ==
    LET r == [call[c] EXCEPT !.next.hosts = EnabledHosts] IN
    /\ At(c, "loadHosts")
    /\ IF ~Validate(r.next) THEN Fail(c)
       ELSE IF r.edit = None THEN Goto(c, r, "apply")
       ELSE Goto(c, [r EXCEPT !.next = Override(r.next, r.edit)], "commit")
    /\ UNCHANGED <<tables, running, history>>

\* The last of the tables; then everything is validated, and once more with
\* the settings that are sent.
LoadHosts(c) ==
    LET r == [call[c] EXCEPT !.next.hosts = EnabledHosts]
        edited == IF r.edit = None THEN r.next ELSE Override(r.next, r.edit) IN
    /\ At(c, "loadHosts")
    /\ IF ~Validate(r.next) \/ ~Validate(edited) THEN Fail(c)
       ELSE Goto(c, [r EXCEPT !.next = edited],
                 IF r.edit = None THEN "apply" ELSE "commit")
    /\ UNCHANGED <<tables, running, history>>

\* The transaction of UpdateSettings; adminProxyConfig goes on with rules.
Commit(c) ==
    /\ At(c, "commit")
    /\ settings' = Override(settings, call[c].edit)
    /\ Goto(c, [call[c] EXCEPT !.edit = None],
            IF call[c].hosts = None THEN "apply" ELSE "replace")
    /\ UNCHANGED <<ups, rules, allowed, running, history>>

(* Mutant: what was loaded before the rules were replaced is applied.      *)
ReplaceProxyHostRulesUnread(c) ==
    /\ At(c, "replace")
    /\ rules' = [h \in Hosts |->
           IF h \in call[c].hosts THEN [on |-> TRUE, by |-> None] ELSE None]
    /\ allowed' = call[c].hosts
    /\ absent' = (absent \cup (Hosts \ Listed(c))) \ call[c].hosts
    /\ Goto(c, [call[c] EXCEPT !.hosts = {}], "apply")
    /\ UNCHANGED <<settings, ups, running, agreed>>

\* ReplaceProxyHostRules, one transaction, and reloadRuntimeFromStore.
ReplaceProxyHostRules(c) ==
    /\ At(c, "replace")
    /\ rules' = [h \in Hosts |->
           IF h \in call[c].hosts THEN [on |-> TRUE, by |-> None] ELSE None]
    /\ allowed' = call[c].hosts
    /\ absent' = (absent \cup (Hosts \ Listed(c))) \ call[c].hosts
    /\ Goto(c, [call[c] EXCEPT !.hosts = {}], "load")
    /\ UNCHANGED <<settings, ups, running, agreed>>
-----------------------------------------------------------------------------
(* applyRuntimeConfig.                                                     *)

(* Mutant: settings that need a restart are applied too.                   *)
ApplyAll(c) ==
    /\ At(c, "apply")
    /\ IF Parses(call[c].next)
       THEN Goto(c, [call[c] EXCEPT !.guard = HasRule # {}], "install")
       ELSE Fail(c)
    /\ UNCHANGED <<tables, running, history>>

(* Mutant: only the rules that are enabled count.                          *)
ApplyEnabledOnly(c) ==
    /\ At(c, "apply")
    /\ IF Parses(call[c].next)
       THEN Goto(c, [call[c] EXCEPT !.next.root = cfg.root,
                                    !.guard = EnabledHosts # {}], "install")
       ELSE Fail(c)
    /\ UNCHANGED <<tables, running, history>>

\* runtimeConfigWithCurrentRestartFields, the parsing, and the rules.
Apply(c) ==
    /\ At(c, "apply")
    /\ IF Parses(call[c].next)
       THEN Goto(c, [call[c] EXCEPT !.next.root = cfg.root,
                                    !.guard = HasRule # {}], "install")
       ELSE Fail(c)
    /\ UNCHANGED <<tables, running, history>>

\* The fields of App are assigned one after the other, without a lock.
Install(c) ==
    /\ At(c, "install")
    /\ cfg' = call[c].next
    /\ Goto(c, call[c], "guard")
    /\ UNCHANGED <<tables, guarded, history>>

InstallGuard(c) ==
    /\ At(c, "guard")
    /\ guarded' = call[c].guard
    /\ Goto(c, [call[c] EXCEPT !.next = None, !.guard = FALSE], "end")
    /\ UNCHANGED <<tables, cfg, history>>
-----------------------------------------------------------------------------
(* The process.                                                            *)

Crash ==
    /\ Up
    /\ cfg' = None /\ guarded' = FALSE
    /\ call' = [c \in Calls |-> None]
    /\ agreed' = FALSE
    /\ UNCHANGED <<tables, absent>>

\* New: without rules those of the setting are imported; what is loaded over
\* config.toml has to be valid and to parse, or the process ends.
Start ==
    /\ ~Up
    /\ rules' = [h \in Hosts |->
           IF HasRule = {} /\ h \in allowed THEN [on |-> TRUE, by |-> None]
           ELSE rules[h]]
    /\ LET loaded == [LoadConfig(Imported) EXCEPT !.hosts = EnabledHosts'] IN
       IF Validate(loaded) /\ Parses(loaded)
       THEN /\ cfg' = loaded
            /\ guarded' = (HasRule' # {})
            /\ agreed' = TRUE
       ELSE UNCHANGED <<running, agreed>>
    /\ UNCHANGED <<settings, ups, allowed, call, absent>>
-----------------------------------------------------------------------------
Request(c) ==
    \/ AdminUpdateConfig(c) \/ AdminReloadConfig(c) \/ AdminProxyConfig(c)
    \/ AdminCreateUpstream(c) \/ AdminUpstreamAction(c)
    \/ AdminCreateProxyHostRule(c) \/ AdminProxyHostRuleAction(c)

Handle(c) ==
    \/ CreateUpstream(c) \/ WriteUpstream(c)
    \/ CreateProxyHostRule(c) \/ WriteProxyHostRule(c)
    \/ ListRules(c) \/ SyncAllowedHosts(c) \/ Undo(c)
    \/ Load(c) \/ LoadUps(c) \/ LoadHosts(c)
    \/ Commit(c) \/ ReplaceProxyHostRules(c)
    \/ Apply(c) \/ Install(c) \/ InstallGuard(c)
    \/ StatementFails(c) \/ End(c)

\* A call has found no rule and is to install that.
Opening ==
    \E c \in Calls : (At(c, "install") \/ At(c, "guard")) /\ ~call[c].guard

\* The history of rules in force.
Ruled ==
    ruled' = (HasRule' # {} /\ (ruled \/ (Up' /\ guarded' /\ ~Opening')))

Next ==
    /\ \/ \E c \in Calls : Request(c)
       \/ /\ Crash \/ Start \/ \E c \in Calls : Handle(c)
          /\ begun' = begun
    /\ Ruled

Spec == Init /\ [][Next]_vars
-----------------------------------------------------------------------------
(* Properties.                                                             *)

\* Types: calls are under way only while the process is up, and what a call
\* commits, applies or installs has been loaded by it.
TypeOK ==
    /\ settings \in Settings
    /\ ups \in [Ups -> {"new", "on", "off", "deleted"}]
    /\ rules \in [Hosts -> Rule \cup {None}]
    /\ allowed \subseteq Hosts
    /\ cfg \in Config \cup {None}
    /\ guarded \in BOOLEAN
    /\ call \in [Calls -> Call \cup {None}] /\ begun \in 0 .. MaxCalls
    /\ Up \/ Quiet
    /\ \A c \in Calls :
           call[c] # None /\ call[c].step \in {"loadUps", "loadHosts", "commit",
                                              "apply", "install", "guard"}
               => call[c].next # None
    /\ agreed \in BOOLEAN /\ ruled \in BOOLEAN
    /\ absent \subseteq Hosts

\* What the process runs with is always usable, whichever edits of settings
\* and rows overlap: while APK is enabled there is an upstream, and the sizes
\* parse (config.Validate, applyRuntimeConfig).
RunningValid == Up => Validate(cfg) /\ Parses(cfg)

\* A setting that needs a restart keeps its value in force until the process
\* is started again (runtimeConfigWithCurrentRestartFields).
RestartFieldsKept == [][Up /\ Up' => cfg'.root = cfg.root]_vars

\* What New would run with: LoadRuntimeConfig over config.toml, after the
\* import of rules from the setting if there are none.
StartConfig ==
    [LoadConfig(Imported) EXCEPT !.hosts = IF HasRule = {} THEN allowed ELSE @]

\* Once a call that ran alone has succeeded, the process runs with what is
\* stored, restart fields excepted, whatever was edited, failed or crashed
\* before: another reload would change nothing.  A start would load the same,
\* but for what it imports: without upstream rows those of config.toml, where
\* the process keeps the last ones it had, and without rules those that the
\* setting still names because a sync after a deletion has failed
\* (reloadRuntimeFromStore after every write, EnsureRuntimeConfig).
AgreesAfterSuccess ==
    Up /\ agreed =>
        /\ cfg = [LoadConfig(cfg.ups) EXCEPT !.root = cfg.root]
        /\ guarded = (HasRule # {})
        /\ HasUp # {} /\ (HasRule = {} => allowed = {})
               => cfg = [StartConfig EXCEPT !.root = cfg.root]

\* Once host rules are in force the proxy is not open to every host while the
\* table has a rule, even a disabled one: not between the steps of concurrent
\* edits, replacements and reloads, and not after a restart.  They are in force
\* when the proxy is guarded and no call that found the table empty is still
\* to install that; until then CreatedRuleInForce shows what may happen
\* (proxyHostRulesConfigured).
RulesStayInForce == Up /\ ruled => guarded

\* When the creation of a rule is to be answered with success, no other call
\* is under way and the table still has a rule, the proxy is not open to every
\* host: with rules only hosts of enabled ones are allowed
\* (docs/runtime-config-design.md, README.md).
CreatedRuleInForce ==
    \A c \in Calls :
        /\ At(c, "end") /\ call[c].op = "createRule" /\ call[c].ok
        /\ \A d \in Calls \ {c} : call[d] = None
        /\ HasRule # {}
        => guarded

\* A host whose rule has been deleted or replaced, and that the setting
\* proxy.allowed_hosts has been written without, gets a rule again only from a
\* call that adds it, and from no start that imports the setting.  A deletion
\* is answered with success only after that write.  The exception is a call
\* that has listed the rules before the deletion and writes its list after it:
\* that list brings the host back (SyncProxyAllowedHostsSetting,
\* ReplaceProxyHostRules, ensureProxyHostRulesFromAllowedHosts).
DeletedRulesStayAway == absent \cap HasRule = {}

\* What does not validate is not written: with no call under way, what is
\* stored can be loaded and applied by a start (docs/admin-console-design.md).
StoredStartable ==
    Up /\ Quiet => Validate(LoadConfig(Imported)) /\ Parses(settings)
=============================================================================
