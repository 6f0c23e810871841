----------------------- MODULE RuntimeConfig_proofs -----------------------
(***************************************************************************)
(* Proofs about RuntimeConfig.  Fine says, of one call, what its steps     *)
(* have established about what it carries; a call that began alone is      *)
(* alone until another begins (Alone).  While rules are in force no call   *)
(* is to install that there are none, and neither the setting nor a list   *)
(* that is to be written to it names a host of absent.  With these the     *)
(* invariants about the running configuration and the rules are inductive. *)
(***************************************************************************)
EXTENDS RuntimeConfig, TLAPS

\* What a call applies is valid, then parses, then has the root in force.
Checked(c) ==
    /\ call[c].step \in {"commit", "apply", "install", "guard"}
           => Validate(call[c].next)
    /\ call[c].step \in {"install", "guard"} => Parses(call[c].next)
    /\ call[c].step = "install" => call[c].next.root = cfg.root

\* What it has seen or is to write of the rules.
Seen(c) ==
    /\ call[c].step \in {"sync", "replace"} => call[c].hosts # None
    /\ call[c].step = "write" => call[c].hosts = None
    /\ call[c].step = "sync" => call[c].hosts \cap absent = {}

\* The settings it still has to store.
Unsaved(c) ==
    /\ call[c].step = "commit" => call[c].edit # None
    /\ call[c].op = "rule" => call[c].edit = None
    /\ call[c].step = "undo" => ~call[c].ok
    /\ call[c].ok /\ call[c].step \in {"apply", "install", "guard", "end"}
           => call[c].edit = None

Fine(c) == call[c] # None => Checked(c) /\ Seen(c) /\ Unsaved(c)

Alone ==
    \A c, d \in Calls :
        c # d /\ call[c] # None /\ call[c].alone => call[d] = None

IInv ==
    /\ TypeOK
    /\ RunningValid
    /\ RulesStayInForce
    /\ DeletedRulesStayAway
    /\ absent \cap allowed = {}
    /\ ruled => HasRule # {} /\ ~Opening
    /\ Alone
    /\ \A c \in Calls : Fine(c)
-----------------------------------------------------------------------------
(* Calls and records.                                                      *)

LEMMA CallFacts ==
    ASSUME IInv, NEW c \in Calls, call[c] # None
    PROVE  /\ call[c] \in Call /\ Up /\ cfg \in Config /\ Fine(c)
           /\ Checked(c) /\ Seen(c) /\ Unsaved(c)
BY DEF IInv, TypeOK, Up, Quiet, Fine

LEMMA GotoFacts ==
    ASSUME TypeOK, NEW c \in Calls, NEW r \in Call, NEW step \in Steps,
           Goto(c, r, step)
    PROVE  /\ call' \in [Calls -> Call \cup {None}]
           /\ \A d \in Calls : d # c => call'[d] = call[d]
           /\ call'[c] \in Call /\ call'[c] # None
           /\ call'[c].step = step /\ call'[c].op = r.op
           /\ call'[c].edit = r.edit /\ call'[c].hosts = r.hosts
           /\ call'[c].next = r.next /\ call'[c].guard = r.guard
           /\ call'[c].ok = r.ok /\ call'[c].alone = r.alone
<1>1. [r EXCEPT !.step = step] \in Call
  BY DEF Call
<1>2. call'[c] = [r EXCEPT !.step = step]
  BY DEF Goto, TypeOK
<1>3. call'[c] \in Call /\ call'[c] # None
  BY <1>1, <1>2, ConfigAssumption
<1> QED
  BY <1>1, <1>2, <1>3 DEF Goto, TypeOK, Call

LEMMA OverrideFacts ==
    ASSUME NEW f \in Config, NEW e \in Edit
    PROVE  Override(f, e) \in Config
BY DEF Override, Config, Edit

LEMMA SettingsFacts ==
    ASSUME NEW f \in Settings, NEW e \in Edit
    PROVE  Override(f, e) \in Settings
BY DEF Override, Settings, Edit

LEMMA SettingsEdit == Settings \subseteq Edit
BY DEF Settings, Edit

\* Rules come into force, or stay so.
LEMMA RuledFacts ==
    ASSUME Ruled
    PROVE  /\ ruled' \in BOOLEAN
           /\ ruled' => HasRule' # {} /\ (ruled \/ (guarded' /\ ~Opening'))
BY DEF Ruled

\* A step of c leaves the other calls as fine as they were.
LEMMA Continue ==
    ASSUME IInv, NEW c \in Calls, call[c] # None,
           call' \in [Calls -> Call \cup {None}],
           \A d \in Calls : d # c => call'[d] = call[d],
           call'[c] # None, call'[c].alone = call[c].alone,
           call'[c].step \in {"loadUps", "loadHosts", "commit", "apply",
                              "install", "guard"} => call'[c].next # None,
           Fine(c)', begun' = begun, Ruled,
           settings' \in Settings,
           ups' \in [Ups -> {"new", "on", "off", "deleted"}],
           rules' \in [Hosts -> Rule \cup {None}], allowed' \subseteq Hosts,
           cfg' \in Config, Validate(cfg'), Parses(cfg'), cfg'.root = cfg.root,
           guarded' \in BOOLEAN, ruled => guarded',
           call'[c].step \in {"install", "guard"} /\ ruled /\ HasRule' # {}
               => call'[c].guard,
           agreed' = agreed, absent' \subseteq Hosts,
           \/ absent' \subseteq absent
           \/ \A d \in Calls \ {c} :
                  At(d, "sync") => call[d].hosts \cap absent' = {},
           absent' \cap HasRule' = {}, absent' \cap allowed' = {}
    PROVE  IInv'
<1>1. Up' /\ ~Quiet
  BY ConfigAssumption DEF Up, Quiet
<1>2. ruled' \in BOOLEAN /\ (ruled' => HasRule' # {} /\ guarded' /\ ~Opening')
  <2>1. ruled /\ HasRule' # {} => ~Opening'
    BY ConfigAssumption DEF IInv, Opening, At
  <2> QED
    BY <2>1, RuledFacts
<1>3. TypeOK'
  BY <1>1, <1>2 DEF IInv, TypeOK, Up
<1>4. RunningValid' /\ RulesStayInForce' /\ DeletedRulesStayAway'
  BY <1>2 DEF RunningValid, RulesStayInForce, DeletedRulesStayAway
<1>5. Alone'
  BY DEF IInv, Alone
<1>6. ASSUME NEW d \in Calls, d # c, call'[d] # None
      PROVE  Fine(d)'
  <2>1. call'[d] = call[d] /\ call[d] # None /\ Fine(d)
    BY <1>6 DEF IInv
  <2>2. Checked(d)'
    BY <2>1 DEF Fine, Checked, Validate, Parses
  <2>3. Seen(d)'
    BY <1>6, <2>1 DEF Fine, Seen, At
  <2>4. Unsaved(d)'
    BY <2>1 DEF Fine, Unsaved
  <2> QED
    BY <2>2, <2>3, <2>4 DEF Fine
<1>7. \A d \in Calls : Fine(d)'
  BY <1>6 DEF Fine
<1> QED
  BY <1>2, <1>3, <1>4, <1>5, <1>7 DEF IInv

\* A step of c that only changes what c carries.
LEMMA Private ==
    ASSUME IInv, NEW c \in Calls, call[c] # None,
           NEW r \in Call, NEW step \in Steps, Goto(c, r, step),
           r.alone = call[c].alone,
           step \in {"loadUps", "loadHosts", "commit", "apply", "install",
                     "guard"} => r.next # None,
           step \in {"install", "guard"} /\ HasRule # {} => r.guard,
           Fine(c)', begun' = begun, Ruled,
           UNCHANGED <<tables, running, history>>
    PROVE  IInv'
<1>1. /\ call' \in [Calls -> Call \cup {None}]
      /\ \A d \in Calls : d # c => call'[d] = call[d]
      /\ call'[c] # None /\ call'[c].alone = call[c].alone
      /\ call'[c].step = step /\ call'[c].next = r.next
      /\ call'[c].guard = r.guard
  BY GotoFacts DEF IInv
<1>2. /\ settings' = settings /\ ups' = ups /\ rules' = rules
      /\ allowed' = allowed /\ cfg' = cfg /\ guarded' = guarded
      /\ agreed' = agreed /\ absent' = absent /\ HasRule' = HasRule
  BY DEF tables, running, history, HasRule
<1>3. /\ Up /\ cfg \in Config /\ Validate(cfg) /\ Parses(cfg)
      /\ ruled => guarded
  BY CallFacts DEF IInv, RunningValid, RulesStayInForce
<1>4. /\ settings \in Settings
      /\ ups \in [Ups -> {"new", "on", "off", "deleted"}]
      /\ rules \in [Hosts -> Rule \cup {None}] /\ allowed \subseteq Hosts
      /\ guarded \in BOOLEAN /\ absent \subseteq Hosts
      /\ absent \cap HasRule = {} /\ absent \cap allowed = {}
  BY DEF IInv, TypeOK, DeletedRulesStayAway
<1>5. /\ cfg' \in Config /\ Validate(cfg') /\ Parses(cfg') /\ cfg'.root = cfg.root
      /\ ruled => guarded'
  BY <1>2, <1>3
<1>6. /\ settings' \in Settings
      /\ ups' \in [Ups -> {"new", "on", "off", "deleted"}]
      /\ rules' \in [Hosts -> Rule \cup {None}] /\ allowed' \subseteq Hosts
      /\ guarded' \in BOOLEAN /\ absent' \subseteq absent
      /\ absent' \subseteq Hosts /\ absent' \cap HasRule' = {} /\ absent' \cap allowed' = {}
  BY <1>2, <1>4
<1> QED
  BY <1>1, <1>2, <1>5, <1>6, Continue
-----------------------------------------------------------------------------
(* Steps that only change what a call carries.                             *)

LEMMA FailKeeps ==
    ASSUME IInv, NEW c \in Calls, call[c] # None,
           Fail(c), begun' = begun, Ruled,
           UNCHANGED <<tables, running, history>>
    PROVE  IInv'
<1> DEFINE r == [call[c] EXCEPT !.ok = FALSE, !.next = None]
           step == IF call[c].made = None THEN "end" ELSE "undo"
<1>1. call[c] \in Call /\ Fine(c) /\ Unsaved(c)
  BY CallFacts
<1>2. /\ r \in Call /\ r.alone = call[c].alone
      /\ ~r.ok /\ r.op = call[c].op /\ r.edit = call[c].edit
  BY <1>1 DEF Call
<1>3. step \in Steps /\ step \in {"end", "undo"}
  BY DEF Steps
<1>4. Goto(c, r, step)
  BY DEF Fail
<1> HIDE DEF r, step
<1>5. /\ call'[c].step = step /\ ~call'[c].ok
      /\ call'[c].op = call[c].op /\ call'[c].edit = call[c].edit
  BY <1>2, <1>3, <1>4, GotoFacts DEF IInv
<1>6. Fine(c)'
  BY <1>1, <1>3, <1>5 DEF Fine, Checked, Seen, Unsaved
<1> QED
  BY <1>2, <1>3, <1>4, <1>6, Private

LEMMA StatementFailsKeeps ==
    ASSUME IInv, NEW c \in Calls, StatementFails(c), begun' = begun, Ruled
    PROVE  IInv'
<1>0. call[c] # None /\ UNCHANGED <<tables, running, history>>
  BY DEF StatementFails
<1>1. CASE Fail(c)
  BY <1>0, <1>1, FailKeeps
<1>2. CASE call[c].step = "undo" /\ Goto(c, call[c], "end")
  <2>1. call[c] \in Call /\ Unsaved(c) /\ "end" \in Steps
    BY <1>0, CallFacts DEF Steps
  <2>2. /\ call'[c].step = "end" /\ ~call'[c].ok
        /\ call'[c].op = call[c].op /\ call'[c].edit = call[c].edit
    BY <1>2, <2>1, GotoFacts DEF IInv, Unsaved
  <2>3. Fine(c)'
    BY <2>1, <2>2 DEF Fine, Checked, Seen, Unsaved
  <2> QED
    BY <1>0, <1>2, <2>1, <2>3, Private
<1> QED
  BY <1>1, <1>2 DEF StatementFails

LEMMA ListRulesKeeps ==
    ASSUME IInv, NEW c \in Calls, ListRules(c), begun' = begun, Ruled
    PROVE  IInv'
<1> DEFINE r == [call[c] EXCEPT !.hosts = EnabledHosts]
<1>0. /\ call[c] # None /\ UNCHANGED <<tables, running, history>>
      /\ Goto(c, r, "sync") /\ "sync" \in Steps
  BY DEF ListRules, At, Steps
<1>1. call[c] \in Call /\ Unsaved(c)
  BY <1>0, CallFacts
<1>2. EnabledHosts \subseteq HasRule /\ HasRule \subseteq Hosts
  BY DEF EnabledHosts, HasRule
<1>3. /\ r \in Call /\ r.alone = call[c].alone
      /\ r.op = call[c].op /\ r.edit = call[c].edit
      /\ r.hosts = EnabledHosts
  BY <1>1, <1>2 DEF Call
<1> HIDE DEF r
<1>4. /\ call'[c].step = "sync" /\ call'[c].hosts = EnabledHosts
      /\ call'[c].op = call[c].op /\ call'[c].edit = call[c].edit
  BY <1>0, <1>3, GotoFacts DEF IInv
<1>5. /\ HasRule' = HasRule /\ absent' = absent
      /\ absent \cap HasRule = {} /\ EnabledHosts # None
  BY <1>0, <1>2, ConfigAssumption
     DEF tables, history, HasRule, IInv, DeletedRulesStayAway
<1>6. Seen(c)'
  BY <1>2, <1>4, <1>5 DEF Seen
<1>7. Fine(c)'
  BY <1>1, <1>4, <1>6 DEF Fine, Checked, Unsaved
<1> QED
  BY <1>0, <1>3, <1>7, Private

LEMMA LoadKeeps ==
    ASSUME IInv, NEW c \in Calls, Load(c), begun' = begun, Ruled
    PROVE  IInv'
<1> DEFINE n == [Override(cfg, settings) EXCEPT !.hosts = {}]
           r == [call[c] EXCEPT !.next = n]
<1>0. /\ call[c] # None /\ call[c].step = "load"
      /\ UNCHANGED <<tables, running, history>>
      /\ Goto(c, r, "loadUps") /\ "loadUps" \in Steps
  BY DEF Load, At, Steps
<1>1. call[c] \in Call /\ Unsaved(c) /\ cfg \in Config
  BY <1>0, CallFacts
<1>2. n \in Config
  <2>1. Override(cfg, settings) \in Config
    BY <1>1, OverrideFacts, SettingsEdit DEF IInv, TypeOK
  <2> QED
    BY <2>1 DEF Config
<1> HIDE DEF n
<1>3. /\ r \in Call /\ r.alone = call[c].alone /\ r.ok = call[c].ok
      /\ r.op = call[c].op /\ r.edit = call[c].edit
      /\ r.hosts = call[c].hosts /\ r.next = n /\ n # None
  BY <1>1, <1>2, ConfigAssumption DEF Call
<1> HIDE DEF r
<1>4. /\ call'[c].step = "loadUps" /\ call'[c].hosts = call[c].hosts
      /\ call'[c].op = call[c].op /\ call'[c].edit = call[c].edit
      /\ call'[c].ok = call[c].ok /\ call'[c].alone = call[c].alone
  BY <1>0, <1>3, GotoFacts DEF IInv
<1>5. Fine(c)'
  BY <1>1, <1>4 DEF Fine, Checked, Seen, Unsaved
<1> QED
  BY <1>0, <1>3, <1>5, Private

LEMMA LoadUpsKeeps ==
    ASSUME IInv, NEW c \in Calls, LoadUps(c), begun' = begun, Ruled
    PROVE  IInv'
<1> DEFINE n == IF HasUp = {} THEN call[c].next
                ELSE [call[c].next EXCEPT !.ups = EnabledUps]
           r == [call[c] EXCEPT !.next = n]
<1>0. /\ call[c] # None /\ call[c].step = "loadUps"
      /\ UNCHANGED <<tables, running, history>> /\ "loadHosts" \in Steps
  BY DEF LoadUps, At, Steps
<1>1. /\ call[c] \in Call /\ Unsaved(c)
      /\ call[c].next \in Config
  <2>1. call[c] \in Call /\ Unsaved(c) /\ call[c].next # None
    BY <1>0, CallFacts DEF IInv, TypeOK
  <2> QED
    BY <2>1 DEF Call
<1>2. n \in Config
  BY <1>1 DEF Config, EnabledUps
<1>3. Goto(c, r, "loadHosts")
  BY <1>1 DEF LoadUps, Goto, Call
<1> HIDE DEF n
<1>4. /\ r \in Call /\ r.alone = call[c].alone /\ r.ok = call[c].ok
      /\ r.op = call[c].op /\ r.edit = call[c].edit
      /\ r.hosts = call[c].hosts /\ r.next = n /\ n # None
  BY <1>1, <1>2, ConfigAssumption DEF Call
<1> HIDE DEF r
<1>5. /\ call'[c].step = "loadHosts" /\ call'[c].hosts = call[c].hosts
      /\ call'[c].op = call[c].op /\ call'[c].edit = call[c].edit
      /\ call'[c].ok = call[c].ok /\ call'[c].alone = call[c].alone
  BY <1>0, <1>3, <1>4, GotoFacts DEF IInv
<1>6. Fine(c)'
  BY <1>1, <1>5 DEF Fine, Checked, Seen, Unsaved
<1> QED
  BY <1>0, <1>3, <1>4, <1>6, Private

LEMMA LoadHostsKeeps ==
    ASSUME IInv, NEW c \in Calls, LoadHosts(c), begun' = begun, Ruled
    PROVE  IInv'
<1> DEFINE n == [call[c].next EXCEPT !.hosts = EnabledHosts]
           edited == IF call[c].edit = None THEN n ELSE Override(n, call[c].edit)
           r == [call[c] EXCEPT !.next = edited]
           step == IF call[c].edit = None THEN "apply" ELSE "commit"
<1>0. /\ call[c] # None /\ call[c].step = "loadHosts"
      /\ UNCHANGED <<tables, running, history>>
  BY DEF LoadHosts, At
<1>1. /\ call[c] \in Call /\ Unsaved(c)
      /\ call[c].next \in Config
  <2>1. call[c] \in Call /\ Unsaved(c) /\ call[c].next # None
    BY <1>0, CallFacts DEF IInv, TypeOK
  <2> QED
    BY <2>1 DEF Call
<1>2. CASE Fail(c)
  BY <1>0, <1>2, FailKeeps
<1>3. CASE ~Fail(c)
  <2>1. n \in Config
    BY <1>1 DEF Config, EnabledHosts, HasRule
  <2>2. edited \in Config
    BY <1>1, <2>1, OverrideFacts DEF Call
  <2>3. Goto(c, r, step) /\ Validate(edited)
    BY <1>1, <1>3 DEF LoadHosts, Goto, Call
  <2> HIDE DEF edited
  <2>4. /\ r \in Call /\ r.alone = call[c].alone /\ r.ok = call[c].ok
        /\ r.op = call[c].op /\ r.edit = call[c].edit
        /\ r.hosts = call[c].hosts /\ r.next = edited /\ edited # None
    BY <1>1, <2>2, ConfigAssumption DEF Call
  <2>5. step \in Steps
    BY DEF Steps
  <2> HIDE DEF r
  <2>6. /\ call'[c].step = step /\ call'[c].hosts = call[c].hosts
        /\ call'[c].op = call[c].op /\ call'[c].edit = call[c].edit
        /\ call'[c].ok = call[c].ok /\ call'[c].alone = call[c].alone
        /\ call'[c].next = edited
    BY <2>3, <2>4, <2>5, GotoFacts DEF IInv
  <2>7. Fine(c)'
    BY <1>0, <1>1, <2>3, <2>6 DEF Fine, Checked, Seen, Unsaved, Validate
  <2> QED
    BY <1>0, <2>3, <2>4, <2>5, <2>7, Private
<1> QED
  BY <1>2, <1>3

LEMMA ApplyKeeps ==
    ASSUME IInv, NEW c \in Calls, Apply(c), begun' = begun, Ruled
    PROVE  IInv'
<1> DEFINE n == [call[c].next EXCEPT !.root = cfg.root]
           g == HasRule # {}
           r == [call[c] EXCEPT !.next = n, !.guard = g]
<1>0. /\ call[c] # None /\ call[c].step = "apply"
      /\ UNCHANGED <<tables, running, history>> /\ "install" \in Steps
  BY DEF Apply, At, Steps
<1>1. /\ call[c] \in Call /\ Unsaved(c) /\ Checked(c)
      /\ call[c].next \in Config /\ cfg \in Config
  <2>1. /\ call[c] \in Call /\ Unsaved(c) /\ Checked(c)
        /\ call[c].next # None /\ cfg \in Config
    BY <1>0, CallFacts DEF IInv, TypeOK
  <2> QED
    BY <2>1 DEF Call
<1>2. CASE Fail(c)
  BY <1>0, <1>2, FailKeeps
<1>3. CASE ~Fail(c)
  <2>1. /\ n \in Config /\ n.root = cfg.root
        /\ n.apk = call[c].next.apk /\ n.ups = call[c].next.ups
        /\ n.size = call[c].next.size
    BY <1>1 DEF Config
  <2>2. Goto(c, r, "install") /\ Parses(call[c].next)
    BY <1>1, <1>3 DEF Apply, Goto, Call
  <2>3. Validate(n) /\ Parses(n)
    BY <1>0, <1>1, <2>1, <2>2 DEF Checked, Validate, Parses
  <2>4. g \in BOOLEAN
    OBVIOUS
  <2> HIDE DEF n, g
  <2>5. /\ r \in Call /\ r.alone = call[c].alone /\ r.ok = call[c].ok
        /\ r.op = call[c].op /\ r.edit = call[c].edit
        /\ r.hosts = call[c].hosts /\ r.next = n /\ n # None
        /\ r.guard = g
    BY <1>1, <2>1, <2>4, ConfigAssumption DEF Call
  <2> HIDE DEF r
  <2>6. /\ call'[c].step = "install" /\ call'[c].hosts = call[c].hosts
        /\ call'[c].op = call[c].op /\ call'[c].edit = call[c].edit
        /\ call'[c].ok = call[c].ok /\ call'[c].alone = call[c].alone
        /\ call'[c].next = n /\ call'[c].guard = g
    BY <1>0, <2>2, <2>5, GotoFacts DEF IInv
  <2>7. Checked(c)'
    BY <1>0, <2>1, <2>3, <2>6 DEF Checked, Validate, Parses, running
  <2>8. Fine(c)'
    BY <1>0, <1>1, <2>6, <2>7 DEF Fine, Seen, Unsaved
  <2>9. HasRule # {} => g
    BY DEF g
  <2> QED
    BY <1>0, <2>2, <2>5, <2>8, <2>9, Private
<1> QED
  BY <1>2, <1>3
-----------------------------------------------------------------------------
(* Steps that write a table, or install.                                   *)

\* What Continue asks of the variables a step leaves alone.
LEMMA Standing ==
    ASSUME IInv, NEW c \in Calls, call[c] # None
    PROVE  /\ settings \in Settings
           /\ ups \in [Ups -> {"new", "on", "off", "deleted"}]
           /\ rules \in [Hosts -> Rule \cup {None}] /\ allowed \subseteq Hosts
           /\ cfg \in Config /\ Validate(cfg) /\ Parses(cfg)
           /\ guarded \in BOOLEAN /\ (ruled => guarded)
           /\ absent \cap HasRule = {} /\ absent \cap allowed = {}
           /\ absent \subseteq Hosts /\ TypeOK
BY CallFacts DEF IInv, TypeOK, RunningValid, RulesStayInForce,
    DeletedRulesStayAway

\* A row made is remembered, and the step is the next.
LEMMA MadeFacts ==
    ASSUME IInv, NEW c \in Calls, call[c] # None,
           NEW x \in Ups \cup Hosts, NEW step \in Steps,
           Goto(c, [call[c] EXCEPT !.made = x], step)
    PROVE  /\ call' \in [Calls -> Call \cup {None}]
           /\ \A d \in Calls : d # c => call'[d] = call[d]
           /\ call'[c] # None /\ call'[c].step = step
           /\ call'[c].op = call[c].op /\ call'[c].edit = call[c].edit
           /\ call'[c].hosts = call[c].hosts /\ call'[c].ok = call[c].ok
           /\ call'[c].alone = call[c].alone
<1> DEFINE r == [call[c] EXCEPT !.made = x]
<1>1. call[c] \in Call
  BY CallFacts
<1>2. /\ r \in Call
      /\ r.op = call[c].op /\ r.edit = call[c].edit
      /\ r.hosts = call[c].hosts /\ r.ok = call[c].ok
      /\ r.alone = call[c].alone
  BY <1>1 DEF Call
<1>3. Goto(c, r, step)
  OBVIOUS
<1> HIDE DEF r
<1> QED
  BY <1>2, <1>3, GotoFacts DEF IInv

LEMMA UpstreamWritesKeep ==
    ASSUME IInv, NEW c \in Calls, CreateUpstream(c) \/ WriteUpstream(c),
           begun' = begun, Ruled
    PROVE  IInv'
<1>0. /\ call[c] # None /\ call[c].step = "write"
      /\ call[c].op \in {"createUp", "up"}
      /\ UNCHANGED <<settings, rules, allowed, running, history>>
      /\ "load" \in Steps
  BY DEF CreateUpstream, WriteUpstream, At, Steps
<1>1. call[c] \in Call /\ Unsaved(c)
  BY <1>0, CallFacts
<1>2. /\ call' \in [Calls -> Call \cup {None}]
      /\ \A d \in Calls : d # c => call'[d] = call[d]
      /\ call'[c] # None /\ call'[c].step = "load"
      /\ call'[c].op = call[c].op /\ call'[c].edit = call[c].edit
      /\ call'[c].hosts = call[c].hosts /\ call'[c].alone = call[c].alone
      /\ ups' \in [Ups -> {"new", "on", "off", "deleted"}]
  <2>1. CASE CreateUpstream(c)
    <3>1. PICK u \in Ups, state \in {"on", "off"} :
              /\ ups' = [ups EXCEPT ![u] = state]
              /\ Goto(c, [call[c] EXCEPT !.made = u], "load")
      BY <2>1 DEF CreateUpstream
    <3>2. ups' \in [Ups -> {"new", "on", "off", "deleted"}]
      BY <1>0, <3>1, Standing
    <3> QED
      BY <1>0, <3>1, <3>2, MadeFacts
  <2>2. CASE WriteUpstream(c)
    <3>1. Goto(c, call[c], "load")
      BY <2>2 DEF WriteUpstream
    <3>2. ups' \in [Ups -> {"new", "on", "off", "deleted"}]
      BY <1>0, <2>2, Standing DEF WriteUpstream, HasUp
    <3> QED
      BY <1>0, <1>1, <3>1, <3>2, GotoFacts DEF IInv
  <2> QED
    BY <2>1, <2>2
<1>3. Fine(c)'
  BY <1>1, <1>2 DEF Fine, Checked, Seen, Unsaved
<1> QED
  BY <1>0, <1>2, <1>3, Standing, Continue DEF running, history, HasRule

LEMMA CreateProxyHostRuleKeeps ==
    ASSUME IInv, NEW c \in Calls, CreateProxyHostRule(c), begun' = begun, Ruled
    PROVE  IInv'
<1>0. /\ call[c] # None /\ call[c].step = "write"
      /\ UNCHANGED <<settings, ups, allowed, running, agreed>>
      /\ "list" \in Steps
  BY DEF CreateProxyHostRule, At, Steps
<1>1. Unsaved(c)
  BY <1>0, CallFacts
<1>2. PICK h \in Hosts \ HasRule, on \in BOOLEAN :
          /\ rules' = [rules EXCEPT ![h] = [on |-> on, by |-> c]]
          /\ absent' = absent \ {h}
          /\ Goto(c, [call[c] EXCEPT !.made = h], "list")
  BY DEF CreateProxyHostRule
<1>3. /\ call' \in [Calls -> Call \cup {None}]
      /\ \A d \in Calls : d # c => call'[d] = call[d]
      /\ call'[c] # None /\ call'[c].step = "list"
      /\ call'[c].op = call[c].op /\ call'[c].edit = call[c].edit
      /\ call'[c].alone = call[c].alone
  BY <1>0, <1>2, MadeFacts
<1>4. /\ rules' \in [Hosts -> Rule \cup {None}]
      /\ HasRule' \subseteq HasRule \cup {h}
  <2>1. [on |-> on, by |-> c] \in Rule
    BY DEF Rule
  <2> QED
    BY <1>0, <1>2, <2>1, Standing DEF HasRule
<1>5. /\ absent' \subseteq absent
      /\ absent' \cap HasRule' = {} /\ absent' \cap allowed' = {}
  BY <1>0, <1>2, <1>4, Standing
<1>6. Fine(c)'
  BY <1>1, <1>3 DEF Fine, Checked, Seen, Unsaved
<1> QED
  BY <1>0, <1>3, <1>4, <1>5, <1>6, Standing, Continue DEF running

LEMMA WriteProxyHostRuleKeeps ==
    ASSUME IInv, NEW c \in Calls, WriteProxyHostRule(c), begun' = begun, Ruled
    PROVE  IInv'
<1>0. /\ call[c] # None /\ call[c].step = "write"
      /\ UNCHANGED <<settings, ups, allowed, running, agreed>>
      /\ Goto(c, call[c], "list") /\ "list" \in Steps
  BY DEF WriteProxyHostRule, At, Steps
<1>1. call[c] \in Call /\ Unsaved(c)
  BY <1>0, CallFacts
<1>2. /\ call' \in [Calls -> Call \cup {None}]
      /\ \A d \in Calls : d # c => call'[d] = call[d]
      /\ call'[c] # None /\ call'[c].step = "list"
      /\ call'[c].op = call[c].op /\ call'[c].edit = call[c].edit
      /\ call'[c].alone = call[c].alone
  BY <1>0, <1>1, GotoFacts DEF IInv
<1>3. /\ rules' \in [Hosts -> Rule \cup {None}]
      /\ absent' \subseteq absent /\ absent' \cap HasRule' = {}
  <2>0. /\ rules \in [Hosts -> Rule \cup {None}]
        /\ absent \cap HasRule = {}
    BY <1>0, Standing
  <2>1. ASSUME NEW h \in HasRule, NEW g \in Hosts, NEW on \in BOOLEAN,
               rules' = [rules EXCEPT ![h] = None,
                                      ![g] = [on |-> on, by |-> rules[h].by]],
               absent' = absent \ {g}
        PROVE  /\ rules' \in [Hosts -> Rule \cup {None}]
               /\ absent' \subseteq absent /\ absent' \cap HasRule' = {}
    <3>1. rules[h] \in Rule /\ h \in Hosts
      BY <2>0 DEF HasRule
    <3>2. [on |-> on, by |-> rules[h].by] \in Rule
      BY <3>1 DEF Rule
    <3>3. rules' \in [Hosts -> Rule \cup {None}]
      BY <2>0, <2>1, <3>1, <3>2
    <3>4. HasRule' \subseteq HasRule \cup {g}
      BY <2>0, <2>1, <3>1 DEF HasRule
    <3> QED
      BY <2>0, <2>1, <3>3, <3>4
  <2>2. ASSUME NEW h \in HasRule,
               rules' = [rules EXCEPT ![h] = None], absent' = absent
        PROVE  /\ rules' \in [Hosts -> Rule \cup {None}]
               /\ absent' \subseteq absent /\ absent' \cap HasRule' = {}
    BY <2>0, <2>2 DEF HasRule
  <2>3. ASSUME rules' = rules, absent' = absent
        PROVE  /\ rules' \in [Hosts -> Rule \cup {None}]
               /\ absent' \subseteq absent /\ absent' \cap HasRule' = {}
    BY <2>0, <2>3 DEF HasRule
  <2> QED
    BY <2>1, <2>2, <2>3 DEF WriteProxyHostRule
<1>4. absent' \cap allowed' = {}
  BY <1>0, <1>3, Standing
<1>5. Fine(c)'
  BY <1>1, <1>2 DEF Fine, Checked, Seen, Unsaved
<1> QED
  BY <1>0, <1>2, <1>3, <1>4, <1>5, Standing, Continue DEF running

LEMMA SyncAllowedHostsKeeps ==
    ASSUME IInv, NEW c \in Calls, SyncAllowedHosts(c), begun' = begun, Ruled
    PROVE  IInv'
<1> DEFINE r == [call[c] EXCEPT !.hosts = {}]
<1>0. /\ call[c] # None /\ call[c].step = "sync"
      /\ allowed' = call[c].hosts /\ Goto(c, r, "load")
      /\ absent' = absent \cup (Hosts \ (HasRule \cup call[c].hosts \cup Listed(c)))
      /\ UNCHANGED <<settings, ups, rules, running, agreed>>
      /\ "load" \in Steps
  BY DEF SyncAllowedHosts, At, Steps
<1>1. call[c] \in Call /\ Unsaved(c) /\ Seen(c)
  BY <1>0, CallFacts
<1>2. /\ r \in Call /\ r.alone = call[c].alone
      /\ r.op = call[c].op /\ r.edit = call[c].edit
  BY <1>1 DEF Call
<1> HIDE DEF r
<1>3. /\ call' \in [Calls -> Call \cup {None}]
      /\ \A d \in Calls : d # c => call'[d] = call[d]
      /\ call'[c] # None /\ call'[c].step = "load"
      /\ call'[c].op = call[c].op /\ call'[c].edit = call[c].edit
      /\ call'[c].alone = call[c].alone
  BY <1>0, <1>2, GotoFacts DEF IInv
<1>4. allowed' \subseteq Hosts /\ absent \cap allowed' = {}
  <2>1. call[c].hosts \in SUBSET Hosts
    BY <1>0, <1>1 DEF Call, Seen
  <2> QED
    BY <1>0, <1>1, <2>1 DEF Seen
<1>5. /\ absent' \subseteq Hosts /\ absent' \cap allowed' = {}
      /\ absent' \cap HasRule' = {}
      /\ \A d \in Calls \ {c} :
             At(d, "sync") => call[d].hosts \cap absent' = {}
  <2>1. absent \subseteq Hosts /\ absent \cap HasRule = {} /\ HasRule' = HasRule
    BY <1>0, Standing DEF HasRule
  <2>2. ASSUME NEW d \in Calls \ {c}, At(d, "sync")
        PROVE  call[d].hosts \cap absent' = {}
    <3>1. call[d].hosts \cap absent = {}
      BY <2>2, CallFacts DEF Seen, At
    <3>2. call[d].hosts \cap Hosts \subseteq Listed(c)
      BY <2>2 DEF Listed
    <3> QED
      BY <1>0, <3>1, <3>2
  <2> QED
    BY <1>0, <1>4, <2>1, <2>2
<1>6. Fine(c)'
  BY <1>1, <1>3 DEF Fine, Checked, Seen, Unsaved
<1> QED
  BY <1>0, <1>3, <1>4, <1>5, <1>6, Standing, Continue DEF running

LEMMA UndoKeeps ==
    ASSUME IInv, NEW c \in Calls, Undo(c), begun' = begun, Ruled
    PROVE  IInv'
<1>0. /\ call[c] # None /\ call[c].step = "undo"
      /\ Goto(c, call[c], "end") /\ "end" \in Steps
      /\ UNCHANGED <<settings, allowed, running, history>>
  BY DEF Undo, At, Steps
<1>1. call[c] \in Call /\ Unsaved(c) /\ ~call[c].ok
  BY <1>0, CallFacts DEF Unsaved
<1>2. /\ call' \in [Calls -> Call \cup {None}]
      /\ \A d \in Calls : d # c => call'[d] = call[d]
      /\ call'[c] # None /\ call'[c].step = "end" /\ ~call'[c].ok
      /\ call'[c].op = call[c].op /\ call'[c].edit = call[c].edit
      /\ call'[c].alone = call[c].alone
  BY <1>0, <1>1, GotoFacts DEF IInv
<1>3. /\ ups' \in [Ups -> {"new", "on", "off", "deleted"}]
      /\ rules' \in [Hosts -> Rule \cup {None}]
      /\ HasRule' \subseteq HasRule
  BY <1>0, Standing DEF Undo, HasRule
<1>4. Fine(c)'
  BY <1>1, <1>2 DEF Fine, Checked, Seen, Unsaved
<1>5. absent' \cap HasRule' = {} /\ absent' \cap allowed' = {}
  BY <1>0, <1>3, Standing DEF history
<1> QED
  BY <1>0, <1>2, <1>3, <1>4, <1>5, Standing, Continue DEF running, history

LEMMA CommitKeeps ==
    ASSUME IInv, NEW c \in Calls, Commit(c), begun' = begun, Ruled
    PROVE  IInv'
<1> DEFINE r == [call[c] EXCEPT !.edit = None]
           step == IF call[c].hosts = None THEN "apply" ELSE "replace"
<1>0. /\ call[c] # None /\ call[c].step = "commit"
      /\ settings' = Override(settings, call[c].edit)
      /\ Goto(c, r, step) /\ step \in Steps
      /\ UNCHANGED <<ups, rules, allowed, running, history>>
  BY DEF Commit, At, Steps
<1>1. /\ call[c] \in Call /\ Unsaved(c) /\ Checked(c)
      /\ call[c].edit \in Edit /\ call[c].next # None
  BY <1>0, CallFacts DEF Call, Unsaved, IInv, TypeOK
<1>2. settings' \in Settings
  BY <1>0, <1>1, Standing, SettingsFacts
<1>3. /\ r \in Call /\ r.alone = call[c].alone /\ r.edit = None
      /\ r.op = call[c].op /\ r.hosts = call[c].hosts
      /\ r.next = call[c].next
  BY <1>1 DEF Call
<1> HIDE DEF r
<1>4. /\ call' \in [Calls -> Call \cup {None}]
      /\ \A d \in Calls : d # c => call'[d] = call[d]
      /\ call'[c] # None /\ call'[c].step = step
      /\ call'[c].op = call[c].op /\ call'[c].edit = None
      /\ call'[c].hosts = call[c].hosts /\ call'[c].next = call[c].next
      /\ call'[c].alone = call[c].alone
  BY <1>0, <1>3, GotoFacts DEF IInv
<1>5. Fine(c)'
  <2>1. Checked(c)'
    BY <1>0, <1>1, <1>4 DEF Checked, Validate
  <2>2. Seen(c)' /\ Unsaved(c)'
    BY <1>4 DEF Seen, Unsaved
  <2> QED
    BY <2>1, <2>2 DEF Fine
<1> QED
  BY <1>0, <1>1, <1>2, <1>4, <1>5, Standing, Continue DEF running, history, HasRule

LEMMA ReplaceKeeps ==
    ASSUME IInv, NEW c \in Calls, ReplaceProxyHostRules(c), begun' = begun, Ruled
    PROVE  IInv'
<1> DEFINE r == [call[c] EXCEPT !.hosts = {}]
<1>0. /\ call[c] # None /\ call[c].step = "replace"
      /\ rules' = [h \in Hosts |->
             IF h \in call[c].hosts THEN [on |-> TRUE, by |-> None] ELSE None]
      /\ allowed' = call[c].hosts
      /\ absent' = (absent \cup (Hosts \ Listed(c))) \ call[c].hosts
      /\ Goto(c, r, "load")
      /\ UNCHANGED <<settings, ups, running, agreed>>
      /\ "load" \in Steps
  BY DEF ReplaceProxyHostRules, At, Steps
<1>1. call[c] \in Call /\ Unsaved(c) /\ call[c].hosts \subseteq Hosts
  BY <1>0, CallFacts DEF Call, Seen
<1>2. /\ r \in Call /\ r.alone = call[c].alone
      /\ r.op = call[c].op /\ r.edit = call[c].edit
  BY <1>1 DEF Call
<1> HIDE DEF r
<1>3. /\ call' \in [Calls -> Call \cup {None}]
      /\ \A d \in Calls : d # c => call'[d] = call[d]
      /\ call'[c] # None /\ call'[c].step = "load"
      /\ call'[c].op = call[c].op /\ call'[c].edit = call[c].edit
      /\ call'[c].alone = call[c].alone
  BY <1>0, <1>2, GotoFacts DEF IInv
<1>4. rules' \in [Hosts -> Rule \cup {None}] /\ HasRule' = call[c].hosts
  <2>1. [on |-> TRUE, by |-> None] \in Rule
    BY DEF Rule
  <2>2. [on |-> TRUE, by |-> None] # None
    BY <2>1, ConfigAssumption
  <2>3. rules' \in [Hosts -> Rule \cup {None}]
    BY <1>0, <2>1
  <2>4. HasRule' = call[c].hosts
    BY <1>0, <1>1, <2>2 DEF HasRule
  <2> QED
    BY <2>3, <2>4
<1>5. /\ absent' \subseteq Hosts /\ absent' \cap allowed' = {}
      /\ absent' \cap HasRule' = {}
      /\ \A d \in Calls \ {c} :
             At(d, "sync") => call[d].hosts \cap absent' = {}
  <2>1. absent \subseteq Hosts
    BY <1>0, Standing
  <2>2. ASSUME NEW d \in Calls \ {c}, At(d, "sync")
        PROVE  call[d].hosts \cap absent' = {}
    <3>1. call[d].hosts \cap absent = {}
      BY <2>2, CallFacts DEF Seen, At
    <3>2. call[d].hosts \cap Hosts \subseteq Listed(c)
      BY <2>2 DEF Listed
    <3> QED
      BY <1>0, <3>1, <3>2
  <2> QED
    BY <1>0, <1>4, <2>1, <2>2
<1>6. Fine(c)'
  BY <1>1, <1>3 DEF Fine, Checked, Seen, Unsaved
<1> QED
  BY <1>0, <1>1, <1>3, <1>4, <1>5, <1>6, Standing, Continue DEF running

LEMMA InstallKeeps ==
    ASSUME IInv, NEW c \in Calls, Install(c), begun' = begun, Ruled
    PROVE  IInv'
<1>0. /\ call[c] # None /\ call[c].step = "install"
      /\ cfg' = call[c].next /\ Goto(c, call[c], "guard")
      /\ UNCHANGED <<tables, guarded, history>> /\ "guard" \in Steps
  BY DEF Install, At, Steps
<1>1. /\ call[c] \in Call /\ Unsaved(c) /\ Checked(c) /\ Seen(c)
      /\ call[c].next # None
  BY <1>0, CallFacts DEF IInv, TypeOK
<1>2. call[c].next \in Config
  BY <1>1 DEF Call
<1>3. /\ call' \in [Calls -> Call \cup {None}]
      /\ \A d \in Calls : d # c => call'[d] = call[d]
      /\ call'[c] # None /\ call'[c].step = "guard"
      /\ call'[c].op = call[c].op /\ call'[c].edit = call[c].edit
      /\ call'[c].hosts = call[c].hosts /\ call'[c].next = call[c].next
      /\ call'[c].guard = call[c].guard /\ call'[c].ok = call[c].ok
      /\ call'[c].alone = call[c].alone
  BY <1>0, <1>1, GotoFacts DEF IInv
<1>4. Validate(cfg') /\ Parses(cfg') /\ cfg'.root = cfg.root
  BY <1>0, <1>1 DEF Checked
<1>5. Fine(c)'
  <2>1. Checked(c)'
    BY <1>0, <1>1, <1>3 DEF Checked, Validate, Parses
  <2> QED
    BY <1>0, <1>1, <1>3, <2>1 DEF Fine, Seen, Unsaved
<1>6. ruled => call[c].guard
  BY <1>0 DEF IInv, Opening, At
<1> QED
  BY <1>0, <1>1, <1>2, <1>3, <1>4, <1>5, <1>6, Standing, Continue
     DEF tables, history, HasRule

LEMMA InstallGuardKeeps ==
    ASSUME IInv, NEW c \in Calls, InstallGuard(c), begun' = begun, Ruled
    PROVE  IInv'
<1> DEFINE r == [call[c] EXCEPT !.next = None, !.guard = FALSE]
<1>0. /\ call[c] # None /\ call[c].step = "guard"
      /\ guarded' = call[c].guard /\ Goto(c, r, "end")
      /\ UNCHANGED <<tables, cfg, history>> /\ "end" \in Steps
  BY DEF InstallGuard, At, Steps
<1>1. call[c] \in Call /\ Unsaved(c) /\ Seen(c)
  BY <1>0, CallFacts
<1>2. /\ r \in Call /\ r.alone = call[c].alone /\ r.ok = call[c].ok
      /\ r.op = call[c].op /\ r.edit = call[c].edit
      /\ r.hosts = call[c].hosts
      /\ call[c].guard \in BOOLEAN
  BY <1>1 DEF Call
<1> HIDE DEF r
<1>3. /\ call' \in [Calls -> Call \cup {None}]
      /\ \A d \in Calls : d # c => call'[d] = call[d]
      /\ call'[c] # None /\ call'[c].step = "end"
      /\ call'[c].op = call[c].op /\ call'[c].edit = call[c].edit
      /\ call'[c].hosts = call[c].hosts /\ call'[c].ok = call[c].ok
      /\ call'[c].alone = call[c].alone
  BY <1>0, <1>2, GotoFacts DEF IInv
<1>4. guarded' \in BOOLEAN /\ (ruled => guarded')
  BY <1>0, <1>2 DEF IInv, Opening, At
<1>5. Fine(c)'
  BY <1>0, <1>1, <1>3 DEF Fine, Checked, Seen, Unsaved
<1> QED
  BY <1>0, <1>3, <1>4, <1>5, Standing, Continue DEF tables, history, HasRule
-----------------------------------------------------------------------------
(* A call begins, ends, and the process does.                              *)

LEMMA EndKeeps ==
    ASSUME IInv, NEW c \in Calls, End(c), begun' = begun, Ruled
    PROVE  IInv'
<1>0. /\ call[c] # None /\ call[c].step = "end"
      /\ rules' = [h \in Hosts |->
             IF rules[h] # None /\ rules[h].by = c
             THEN [rules[h] EXCEPT !.by = None] ELSE rules[h]]
      /\ call' = [call EXCEPT ![c] = None]
      /\ UNCHANGED <<settings, ups, allowed, running, absent>>
  BY DEF End, At
<1>1. /\ call[c] \in Call /\ Unsaved(c) /\ Up
  BY <1>0, CallFacts
<1>2. /\ call' \in [Calls -> Call \cup {None}] /\ call'[c] = None
      /\ \A d \in Calls : d # c => call'[d] = call[d]
  BY <1>0 DEF IInv, TypeOK
<1>3. rules' \in [Hosts -> Rule \cup {None}] /\ HasRule' = HasRule
  <2>0. rules \in [Hosts -> Rule \cup {None}]
    BY <1>0, Standing
  <2>1. \A h \in Hosts : rules[h] # None =>
            /\ [rules[h] EXCEPT !.by = None] \in Rule
            /\ [rules[h] EXCEPT !.by = None] # None
    BY <2>0, ConfigAssumption DEF Rule
  <2>2. rules' \in [Hosts -> Rule \cup {None}]
    BY <1>0, <2>0, <2>1
  <2>3. HasRule' = HasRule
    BY <1>0, <2>0, <2>1 DEF HasRule
  <2> QED
    BY <2>2, <2>3
<1>4. agreed' \in BOOLEAN
  BY <1>1 DEF End, Call
<1>5. /\ absent' \subseteq Hosts
      /\ absent' \cap HasRule' = {} /\ absent' \cap allowed' = {}
  BY <1>0, <1>3, Standing
<1>6. ruled' \in BOOLEAN /\ (ruled' => HasRule' # {} /\ guarded' /\ ~Opening')
  <2>1. ruled => guarded' /\ ~Opening'
    BY <1>0, <1>1, <1>2 DEF IInv, RulesStayInForce, Opening, At, running
  <2> QED
    BY <2>1, RuledFacts
<1>7. TypeOK'
  <2>1. Up' \/ Quiet'
    BY <1>0, <1>1 DEF Up, running
  <2>2. begun' \in 0 .. MaxCalls /\ cfg' \in Config \cup {None}
    BY <1>0 DEF IInv, TypeOK, running
  <2>3. \A d \in Calls :
            call'[d] # None /\ call'[d].step \in {"loadUps", "loadHosts",
                "commit", "apply", "install", "guard"} => call'[d].next # None
    BY <1>2 DEF IInv, TypeOK
  <2> QED
    BY <1>0, <1>2, <1>3, <1>4, <1>5, <1>6, <2>1, <2>2, <2>3, Standing
       DEF TypeOK, running
<1>8. RunningValid' /\ RulesStayInForce' /\ DeletedRulesStayAway'
  BY <1>0, <1>5, <1>6 DEF IInv, RunningValid, RulesStayInForce,
     DeletedRulesStayAway, Up, running
<1>9. Alone'
  BY <1>2 DEF IInv, Alone
<1>10. ASSUME NEW d \in Calls, call'[d] # None
       PROVE  Fine(d)'
  <2>1. /\ d # c /\ call'[d] = call[d] /\ call[d] # None
        /\ absent' = absent /\ Fine(d)
    BY <1>0, <1>2, <1>10 DEF IInv
  <2> QED
    BY <1>0, <1>3, <1>6, <2>1
       DEF Fine, Checked, Seen, Unsaved, Validate, Parses, running
<1>11. \A d \in Calls : Fine(d)'
  BY <1>10 DEF Fine
<1> QED
  BY <1>5, <1>6, <1>7, <1>8, <1>9, <1>11 DEF IInv

\* Calls begin before anything is loaded or written; those that only load
\* are not about rules.
LEMMA BeginKeeps ==
    ASSUME IInv, NEW c \in Calls, NEW op \in Ops, NEW step \in {"write", "load"},
           NEW edit \in Edit \cup {None}, NEW hosts \in (SUBSET Hosts) \cup {None},
           op = "rule" => edit = None /\ step = "write",
           step = "write" => hosts = None,
           hosts # None => edit # None,
           Begin(c, op, step, edit, hosts), Ruled
    PROVE  IInv'
<1> DEFINE quiet == Quiet
           new == [op |-> op, step |-> step, edit |-> edit, hosts |-> hosts,
                   made |-> None, next |-> None, guard |-> FALSE, ok |-> TRUE,
                   alone |-> quiet]
           rest(d) == IF call[d] = None THEN None ELSE [call[d] EXCEPT !.alone = FALSE]
<1>0. /\ Up /\ call[c] = None /\ begun < MaxCalls /\ begun' = begun + 1
      /\ call' = [d \in Calls |-> IF d = c THEN new ELSE rest(d)]
      /\ agreed' = FALSE /\ UNCHANGED <<tables, running, absent>>
  BY DEF Begin
<1>t. TypeOK
  BY DEF IInv
<1>1. quiet \in BOOLEAN
  BY DEF Quiet
<1> HIDE DEF quiet
<1>2. /\ new \in Call /\ new.op = op /\ new.step = step /\ new.edit = edit
      /\ new.hosts = hosts /\ new.ok /\ new.alone = quiet
  BY <1>1 DEF Call, Steps
<1> HIDE DEF new
<1>3. ASSUME NEW d \in Calls, call[d] # None
      PROVE  /\ rest(d) \in Call /\ rest(d) # None /\ ~rest(d).alone
             /\ rest(d).op = call[d].op /\ rest(d).step = call[d].step
             /\ rest(d).edit = call[d].edit /\ rest(d).hosts = call[d].hosts
             /\ rest(d).next = call[d].next /\ rest(d).guard = call[d].guard
             /\ rest(d).ok = call[d].ok
  <2>1. call[d] \in Call
    BY <1>3, CallFacts
  <2>2. rest(d) \in Call
    BY <1>3, <2>1 DEF Call
  <2> QED
    BY <1>3, <2>1, <2>2, ConfigAssumption DEF Call
<1>4. \A d \in Calls : call[d] = None => rest(d) = None
  OBVIOUS
<1> HIDE DEF rest
<1>5. /\ call' \in [Calls -> Call \cup {None}]
      /\ call'[c] = new /\ new # None
      /\ \A d \in Calls : d # c => call'[d] = rest(d)
  <2>1. \A d \in Calls : rest(d) \in Call \cup {None}
    BY <1>3, <1>4
  <2> QED
    BY <1>0, <1>2, <2>1, ConfigAssumption
<1>6. /\ settings' = settings /\ ups' = ups /\ rules' = rules
      /\ allowed' = allowed /\ cfg' = cfg /\ guarded' = guarded
      /\ absent' = absent /\ HasRule' = HasRule
  BY <1>0 DEF tables, running, HasRule
<1>7. ruled' \in BOOLEAN /\ (ruled' => HasRule' # {} /\ guarded' /\ ~Opening')
  <2>1. ruled => guarded'
    BY <1>0, <1>6 DEF IInv, RulesStayInForce
  <2>2. ASSUME ruled, NEW d \in Calls,
               At(d, "install")' \/ At(d, "guard")'
        PROVE  call'[d].guard
    <3>1. /\ d # c /\ call[d] # None /\ call'[d] = rest(d)
          /\ At(d, "install") \/ At(d, "guard")
      BY <1>2, <1>3, <1>4, <1>5, <2>2 DEF At
    <3> QED
      BY <1>3, <2>2, <3>1 DEF IInv, Opening
  <2> QED
    BY <2>1, <2>2, RuledFacts DEF Opening
<1>8. TypeOK'
  <2>1. ASSUME NEW d \in Calls, call'[d] # None,
               call'[d].step \in {"loadUps", "loadHosts", "commit", "apply",
                                  "install", "guard"}
        PROVE  call'[d].next # None
    <3>1. d # c /\ call'[d] = rest(d) /\ call[d] # None
      BY <1>2, <1>4, <1>5, <2>1
    <3> QED
      BY <1>3, <1>t, <2>1, <3>1 DEF TypeOK
  <2>2. begun' \in 0 .. MaxCalls
    BY <1>0, <1>t, ConfigAssumption DEF TypeOK
  <2>3. Up' /\ agreed' \in BOOLEAN
    BY <1>0, <1>6 DEF Up
  <2> QED
    BY <1>5, <1>6, <1>7, <1>t, <2>1, <2>2, <2>3 DEF TypeOK
<1>9. /\ RunningValid' /\ RulesStayInForce' /\ DeletedRulesStayAway'
      /\ absent' \cap allowed' = {}
  BY <1>6, <1>7 DEF IInv, RunningValid, RulesStayInForce, DeletedRulesStayAway, Up
<1>10. Alone'
  <2>1. quiet => \A d \in Calls : call[d] = None
    BY DEF quiet, Quiet
  <2>2. ASSUME NEW a \in Calls, NEW d \in Calls, a # d,
               call'[a] # None, call'[a].alone
        PROVE  call'[d] = None
    <3>1. a = c
      BY <1>3, <1>4, <1>5, <2>2
    <3> QED
      BY <1>2, <1>4, <1>5, <2>1, <2>2, <3>1
  <2> QED
    BY <2>2 DEF Alone
<1>11. ASSUME NEW d \in Calls
       PROVE  Fine(d)'
  <2>1. CASE d = c
    BY <1>2, <1>5, <2>1 DEF Fine, Checked, Seen, Unsaved
  <2>2. CASE d # c /\ call[d] = None
    BY <1>4, <1>5, <2>2 DEF Fine
  <2>3. CASE d # c /\ call[d] # None
    <3>1. call'[d] = rest(d) /\ Checked(d) /\ Seen(d) /\ Unsaved(d)
      BY <1>5, <2>3, CallFacts
    <3>2. Checked(d)'
      BY <1>3, <1>6, <2>3, <3>1 DEF Checked, Validate, Parses
    <3>3. Seen(d)' /\ Unsaved(d)'
      BY <1>3, <1>6, <2>3, <3>1 DEF Seen, Unsaved
    <3> QED
      BY <3>2, <3>3 DEF Fine
  <2> QED
    BY <2>1, <2>2, <2>3
<1> QED
  BY <1>7, <1>8, <1>9, <1>10, <1>11 DEF IInv

LEMMA RequestKeeps ==
    ASSUME IInv, NEW c \in Calls, Request(c), Ruled
    PROVE  IInv'
<1>0. /\ {"settings", "proxy", "reload", "createUp", "up", "createRule", "rule"}
             \subseteq Ops
      /\ None \in (SUBSET Hosts) \cup {None} /\ None \in Edit \cup {None}
      /\ NoEdit \in Edit /\ NoEdit # None
  BY ConfigAssumption DEF Ops, NoEdit, Edit
<1>1. CASE AdminUpdateConfig(c)
  <2>1. PICK e \in Edit : Begin(c, "settings", "load", e, None)
    BY <1>1 DEF AdminUpdateConfig
  <2> QED
    BY <1>0, <2>1, BeginKeeps
<1>2. CASE AdminReloadConfig(c)
  BY <1>0, <1>2, BeginKeeps DEF AdminReloadConfig
<1>3. CASE AdminProxyConfig(c)
  <2>1. PICK hs \in (SUBSET Hosts) \cup {None} :
            Begin(c, "proxy", "load", NoEdit, hs)
    BY <1>3 DEF AdminProxyConfig
  <2> QED
    BY <1>0, <2>1, BeginKeeps
<1>4. CASE AdminCreateUpstream(c)
  BY <1>0, <1>4, BeginKeeps DEF AdminCreateUpstream
<1>5. CASE AdminUpstreamAction(c)
  BY <1>0, <1>5, BeginKeeps DEF AdminUpstreamAction
<1>6. CASE AdminCreateProxyHostRule(c)
  BY <1>0, <1>6, BeginKeeps DEF AdminCreateProxyHostRule
<1>7. CASE AdminProxyHostRuleAction(c)
  BY <1>0, <1>7, BeginKeeps DEF AdminProxyHostRuleAction
<1> QED
  BY <1>1, <1>2, <1>3, <1>4, <1>5, <1>6, <1>7 DEF Request

LEMMA HandleKeeps ==
    ASSUME IInv, NEW c \in Calls, Handle(c), begun' = begun, Ruled
    PROVE  IInv'
BY UpstreamWritesKeep, CreateProxyHostRuleKeeps, WriteProxyHostRuleKeeps,
   ListRulesKeeps, SyncAllowedHostsKeeps, UndoKeeps, LoadKeeps, LoadUpsKeeps,
   LoadHostsKeeps, CommitKeeps, ReplaceKeeps, ApplyKeeps, InstallKeeps,
   InstallGuardKeeps, StatementFailsKeeps, EndKeeps DEF Handle

LEMMA CrashKeeps ==
    ASSUME IInv, Crash, begun' = begun, Ruled
    PROVE  IInv'
<1>1. /\ cfg' = None /\ guarded' = FALSE /\ agreed' = FALSE
      /\ settings' = settings /\ ups' = ups /\ rules' = rules
      /\ allowed' = allowed /\ absent' = absent /\ HasRule' = HasRule
      /\ call' = [c \in Calls |-> None]
  BY DEF Crash, tables, HasRule
<1>2. ruled' \in BOOLEAN /\ (ruled' => HasRule' # {} /\ ~Opening')
  BY <1>1, RuledFacts DEF Opening, At
<1>3. TypeOK'
  BY <1>1, <1>2 DEF IInv, TypeOK, Quiet
<1> QED
  BY <1>1, <1>2, <1>3 DEF IInv, Alone, Fine, RunningValid, RulesStayInForce,
     DeletedRulesStayAway, Up

LEMMA StartKeeps ==
    ASSUME IInv, Start, begun' = begun, Ruled
    PROVE  IInv'
<1> DEFINE loaded == [LoadConfig(Imported) EXCEPT !.hosts = EnabledHosts']
<1>0. /\ ~Up /\ Quiet /\ TypeOK
      /\ rules' = [h \in Hosts |->
             IF HasRule = {} /\ h \in allowed THEN [on |-> TRUE, by |-> None]
             ELSE rules[h]]
      /\ UNCHANGED <<settings, ups, allowed, call, absent>>
      /\ \/ /\ Validate(loaded) /\ Parses(loaded) /\ cfg' = loaded
            /\ guarded' = (HasRule' # {}) /\ agreed' = TRUE
         \/ UNCHANGED <<cfg, guarded, agreed>>
  BY DEF Start, IInv, TypeOK, running
<1>1. rules' \in [Hosts -> Rule \cup {None}] /\ HasRule' \subseteq HasRule \cup allowed
  <2>1. [on |-> TRUE, by |-> None] \in Rule
    BY DEF Rule
  <2> QED
    BY <1>0, <2>1 DEF TypeOK, HasRule
<1>2. loaded \in Config
  <2>1. LoadConfig(Imported) \in Config
    BY <1>0, ConfigAssumption
       DEF LoadConfig, Config, TypeOK, Settings, EnabledUps, EnabledHosts, HasRule
  <2>2. EnabledHosts' \subseteq Hosts
    BY DEF EnabledHosts, HasRule
  <2> QED
    BY <2>1, <2>2 DEF Config
<1> HIDE DEF loaded
<1>3. Quiet' /\ \A c \in Calls : call'[c] = None
  BY <1>0 DEF Quiet
<1>4. ruled' \in BOOLEAN /\ (ruled' => HasRule' # {} /\ ~Opening')
  BY <1>3, RuledFacts DEF Opening, At
<1>5. TypeOK'
  BY <1>0, <1>1, <1>2, <1>3, <1>4 DEF TypeOK
<1>6. RunningValid' /\ RulesStayInForce'
  BY <1>0, <1>4 DEF RunningValid, RulesStayInForce, Up
<1>7. DeletedRulesStayAway' /\ absent' \cap allowed' = {}
  BY <1>0, <1>1 DEF IInv, DeletedRulesStayAway
<1> QED
  BY <1>3, <1>4, <1>5, <1>6, <1>7 DEF IInv, Alone, Fine
-----------------------------------------------------------------------------
LEMMA InitIInv == Init => IInv
<1> SUFFICES ASSUME Init PROVE IInv
  OBVIOUS
<1>1. /\ settings \in Settings /\ settings.apk /\ settings.size = "good"
      /\ HasRule = {} /\ EnabledHosts = {} /\ HasUp = Imported
      /\ EnabledUps = Imported
  BY ConfigAssumption DEF Init, HasRule, EnabledHosts, HasUp, EnabledUps
<1>2. /\ cfg = LoadConfig({}) /\ cfg \in Config
      /\ Validate(cfg) /\ Parses(cfg)
  <2>1. cfg = [apk |-> settings.apk, size |-> settings.size,
               root |-> settings.root, ups |-> Imported, hosts |-> {}]
    BY <1>1, ConfigAssumption DEF Init, LoadConfig
  <2>2. /\ settings.apk \in BOOLEAN /\ settings.size \in {"good", "bad"}
        /\ settings.root \in Roots
    BY <1>1 DEF Settings
  <2>3. cfg \in Config
    BY <2>1, <2>2, ConfigAssumption DEF Config
  <2>4. Validate(cfg) /\ Parses(cfg)
    BY <1>1, <2>1, ConfigAssumption DEF Validate, Parses
  <2>5. cfg = LoadConfig({})
    BY DEF Init
  <2> QED
    BY <2>3, <2>4, <2>5
<1>3. TypeOK
  <2>1. ups \in [Ups -> {"new", "on", "off", "deleted"}]
    BY DEF Init
  <2>2. begun \in 0 .. MaxCalls
    BY ConfigAssumption DEF Init
  <2>3. \A c \in Calls : call[c] = None
    BY DEF Init
  <2>4. /\ rules \in [Hosts -> Rule \cup {None}] /\ allowed \subseteq Hosts
        /\ guarded \in BOOLEAN /\ agreed \in BOOLEAN /\ ruled \in BOOLEAN
        /\ absent \subseteq Hosts /\ call \in [Calls -> Call \cup {None}]
    BY DEF Init
  <2> QED
    BY <1>1, <1>2, <2>1, <2>2, <2>3, <2>4 DEF TypeOK, Quiet
<1> QED
  BY <1>1, <1>2, <1>3 DEF Init, IInv, RunningValid, RulesStayInForce,
     DeletedRulesStayAway, Alone, Fine

LEMMA NextIInv == IInv /\ [Next]_vars => IInv'
<1> SUFFICES ASSUME IInv, [Next]_vars PROVE IInv'
  OBVIOUS
<1>1. ASSUME NEW c \in Calls, Request(c), Ruled PROVE IInv'
  BY <1>1, RequestKeeps
<1>2. ASSUME NEW c \in Calls, Handle(c), begun' = begun, Ruled PROVE IInv'
  BY <1>2, HandleKeeps
<1>3. ASSUME Crash \/ Start, begun' = begun, Ruled PROVE IInv'
  BY <1>3, CrashKeeps, StartKeeps
<1>4. CASE UNCHANGED vars
  BY <1>4 DEF vars, tables, running, history, IInv, TypeOK, RunningValid,
     RulesStayInForce, DeletedRulesStayAway, Alone, Fine, Checked, Seen,
     Unsaved, Opening, At, Up, Quiet, HasRule, Validate, Parses
<1> QED
  BY <1>1, <1>2, <1>3, <1>4 DEF Next

LEMMA Invariance == Spec => []IInv
BY InitIInv, NextIInv, PTL DEF Spec

\* The types hold for any number of calls, upstreams, hosts and roots.
THEOREM TypeCorrect == Spec => []TypeOK
BY Invariance, PTL DEF IInv

\* What the process runs with is valid, whichever calls overlap (store.go
\* LoadRuntimeConfig and ValidateSettings, admin.go applyRuntimeConfig).
THEOREM RunningValidHolds == Spec => []RunningValid
BY Invariance, PTL DEF IInv

\* Once rules are in force, and no call that found none is to install that, the
\* proxy is not opened to every host by an edit of its rules, a reload or a
\* restart while the table has a rule (admin.go applyRuntimeConfig).
THEOREM RulesStayInForceHolds == Spec => []RulesStayInForce
BY Invariance, PTL DEF IInv

\* A host that had no rule when the setting was written without it, and that no
\* other call was then about to write to it, gets a rule again only from a call
\* that adds it (store.go SyncProxyAllowedHostsSetting, ReplaceProxyHostRules
\* and ensureProxyHostRulesFromAllowedHosts).
THEOREM DeletedRulesStayAwayHolds == Spec => []DeletedRulesStayAway
BY Invariance, PTL DEF IInv

LEMMA StepKeepsRoot ==
    IInv /\ [Next]_vars => [Up /\ Up' => cfg'.root = cfg.root]_vars
<1> SUFFICES ASSUME IInv, Next, Up, Up' PROVE cfg'.root = cfg.root
  BY DEF vars, running
<1>1. ASSUME NEW c \in Calls, Install(c) PROVE cfg'.root = cfg.root
  BY <1>1, CallFacts DEF Install, At, Checked
<1>2. CASE \E c \in Calls : Request(c)
  BY <1>2 DEF Request, Begin, AdminUpdateConfig, AdminReloadConfig,
     AdminProxyConfig, AdminCreateUpstream, AdminUpstreamAction,
     AdminCreateProxyHostRule, AdminProxyHostRuleAction, running
<1>3. CASE \E c \in Calls : Handle(c)
  BY <1>1, <1>3 DEF Handle, CreateUpstream, WriteUpstream, CreateProxyHostRule,
     WriteProxyHostRule, ListRules, SyncAllowedHosts, Undo, Load, LoadUps,
     LoadHosts, Commit, ReplaceProxyHostRules, Apply, InstallGuard,
     StatementFails, End, running
<1> QED
  BY <1>2, <1>3 DEF Next, Crash, Start, Up

\* A setting that needs a restart stays in force until then (admin.go
\* runtimeConfigWithCurrentRestartFields).
THEOREM RestartFieldsKeptHolds == Spec => RestartFieldsKept
BY Invariance, StepKeepsRoot, PTL DEF Spec, RestartFieldsKept
-----------------------------------------------------------------------------
(* What the process runs with is what is stored.  While a call is alone no *)
(* other writes the tables, so what it loads stays what they hold; Fresh   *)
(* says which part that is after each of its steps.                        *)

\* The settings that f would be loaded with, if it were loaded now.
SameSettings(f, s) == f.apk = s.apk /\ f.size = s.size

SameUps(f) == HasUp # {} => f.ups = EnabledUps

Current ==
    SameSettings(cfg, settings) /\ SameUps(cfg) /\ cfg.hosts = EnabledHosts

Fresh(c) ==
    call[c] # None /\ call[c].alone /\ call[c].ok =>
        /\ call[c].step \in {"loadUps", "loadHosts", "apply", "install"}
               => SameSettings(call[c].next, settings)
        /\ call[c].step = "commit"
               => SameSettings(call[c].next, Override(settings, call[c].edit))
        /\ call[c].step \in {"loadHosts", "commit", "apply", "install"}
               => SameUps(call[c].next)
        /\ call[c].step \in {"commit", "apply", "install"}
               => call[c].next.hosts = EnabledHosts
        /\ call[c].step \in {"install", "guard"} => call[c].guard = (HasRule # {})
        /\ call[c].step \in {"guard", "end"} => Current
        /\ call[c].step = "end" => guarded = (HasRule # {})

AInv ==
    /\ agreed => Quiet
    /\ \A c \in Calls : Fresh(c)
    /\ Up /\ agreed => Current /\ guarded = (HasRule # {})

LEMMA TablesKept ==
    ASSUME UNCHANGED <<settings, ups, rules>>
    PROVE  /\ HasUp' = HasUp /\ EnabledUps' = EnabledUps
           /\ HasRule' = HasRule /\ EnabledHosts' = EnabledHosts
BY DEF HasUp, EnabledUps, HasRule, EnabledHosts

\* A step of c tells nothing of the other calls: none of them is alone.
LEMMA AgreesOn ==
    ASSUME IInv, AInv, NEW c \in Calls, call[c] # None,
           \A d \in Calls : d # c => call'[d] = call[d],
           agreed' = agreed, Fresh(c)'
    PROVE  AInv'
<1>1. ~Quiet /\ ~agreed
  BY DEF Quiet, AInv
<1>2. ASSUME NEW d \in Calls, d # c PROVE Fresh(d)'
  <2>1. call'[d] = call[d] /\ ~ (call[d] # None /\ call[d].alone)
    BY <1>2 DEF IInv, Alone
  <2> QED
    BY <2>1 DEF Fresh
<1> QED
  BY <1>1, <1>2 DEF AInv, IInv, TypeOK

\* Nothing is asked of a call that has failed or is about to load again.
LEMMA NotAsked ==
    ASSUME IInv, AInv, NEW c \in Calls, call[c] # None,
           NEW r \in Call, NEW step \in Steps, Goto(c, r, step), agreed' = agreed,
           step \in {"load", "list", "sync", "replace"} \/ ~r.ok
    PROVE  AInv'
<1>1. /\ \A d \in Calls : d # c => call'[d] = call[d]
      /\ call'[c].step = step /\ call'[c].ok = r.ok
  BY GotoFacts DEF IInv
<1>2. Fresh(c)'
  BY <1>1 DEF Fresh
<1> QED
  BY <1>1, <1>2, AgreesOn

LEMMA FailAgrees ==
    ASSUME IInv, AInv, NEW c \in Calls, call[c] # None, Fail(c), agreed' = agreed
    PROVE  AInv'
<1> DEFINE r == [call[c] EXCEPT !.ok = FALSE, !.next = None]
           step == IF call[c].made = None THEN "end" ELSE "undo"
<1>1. r \in Call /\ ~r.ok
  BY CallFacts DEF Call
<1>2. step \in Steps /\ Goto(c, r, step)
  BY DEF Steps, Fail
<1> HIDE DEF r, step
<1> QED
  BY <1>1, <1>2, NotAsked

LEMMA WritesAgree ==
    ASSUME IInv, AInv, NEW c \in Calls,
           \/ CreateUpstream(c) \/ WriteUpstream(c) \/ CreateProxyHostRule(c)
           \/ WriteProxyHostRule(c) \/ ListRules(c) \/ SyncAllowedHosts(c)
           \/ ReplaceProxyHostRules(c) \/ Undo(c) \/ StatementFails(c)
    PROVE  AInv'
<1>0. /\ call[c] # None /\ call[c] \in Call /\ Unsaved(c)
      /\ {"load", "list", "sync", "replace", "end"} \subseteq Steps
  BY CallFacts DEF CreateUpstream, WriteUpstream, CreateProxyHostRule, WriteProxyHostRule,
     ListRules, SyncAllowedHosts, ReplaceProxyHostRules, Undo, StatementFails, At, Steps
<1>1. CASE CreateUpstream(c)
  <2>1. PICK u \in Ups : Goto(c, [call[c] EXCEPT !.made = u], "load")
    BY <1>1 DEF CreateUpstream
  <2>2. [call[c] EXCEPT !.made = u] \in Call
    BY <1>0 DEF Call
  <2> QED
    BY <1>0, <1>1, <2>1, <2>2, NotAsked DEF CreateUpstream, history
<1>2. CASE WriteUpstream(c)
  BY <1>0, <1>2, NotAsked DEF WriteUpstream, history
<1>3. CASE CreateProxyHostRule(c)
  <2>1. PICK h \in Hosts : Goto(c, [call[c] EXCEPT !.made = h], "list")
    BY <1>3 DEF CreateProxyHostRule
  <2>2. [call[c] EXCEPT !.made = h] \in Call
    BY <1>0 DEF Call
  <2> QED
    BY <1>0, <1>3, <2>1, <2>2, NotAsked DEF CreateProxyHostRule
<1>4. CASE WriteProxyHostRule(c)
  BY <1>0, <1>4, NotAsked DEF WriteProxyHostRule
<1>5. CASE ListRules(c)
  <2>1. EnabledHosts \subseteq Hosts
    BY DEF EnabledHosts, HasRule
  <2>2. [call[c] EXCEPT !.hosts = EnabledHosts] \in Call
    BY <1>0, <2>1 DEF Call
  <2> QED
    BY <1>0, <1>5, <2>2, NotAsked DEF ListRules, history
<1>6. CASE SyncAllowedHosts(c) \/ ReplaceProxyHostRules(c)
  <2>1. [call[c] EXCEPT !.hosts = {}] \in Call
    BY <1>0 DEF Call
  <2> QED
    BY <1>0, <1>6, <2>1, NotAsked DEF SyncAllowedHosts, ReplaceProxyHostRules, history
<1>7. CASE Undo(c)
  BY <1>0, <1>7, NotAsked DEF Undo, At, Unsaved, history
<1>8. CASE StatementFails(c)
  <2>1. agreed' = agreed
    BY <1>8 DEF StatementFails, history
  <2>2. CASE Fail(c)
    BY <1>0, <2>1, <2>2, FailAgrees
  <2>3. CASE call[c].step = "undo" /\ Goto(c, call[c], "end")
    BY <1>0, <2>1, <2>3, NotAsked DEF Unsaved
  <2> QED
    BY <1>8, <2>2, <2>3 DEF StatementFails
<1> QED
  BY <1>1, <1>2, <1>3, <1>4, <1>5, <1>6, <1>7, <1>8

\* What a call carries on to its next step.
LEMMA CarryFacts ==
    ASSUME IInv, NEW c \in Calls, call[c] # None, NEW n \in Config,
           NEW step \in Steps, Goto(c, [call[c] EXCEPT !.next = n], step)
    PROVE  /\ \A d \in Calls : d # c => call'[d] = call[d]
           /\ call'[c].step = step /\ call'[c].next = n
           /\ call'[c].edit = call[c].edit /\ call'[c].guard = call[c].guard
           /\ call'[c].ok = call[c].ok /\ call'[c].alone = call[c].alone
<1> DEFINE r == [call[c] EXCEPT !.next = n]
<1>1. /\ r \in Call /\ r.next = n /\ r.edit = call[c].edit
      /\ r.guard = call[c].guard /\ r.ok = call[c].ok /\ r.alone = call[c].alone
  BY CallFacts DEF Call
<1>2. Goto(c, r, step)
  OBVIOUS
<1> HIDE DEF r
<1> QED
  BY <1>1, <1>2, GotoFacts DEF IInv

LEMMA LoadAgrees ==
    ASSUME IInv, AInv, NEW c \in Calls, Load(c)
    PROVE  AInv'
<1> DEFINE n == [Override(cfg, settings) EXCEPT !.hosts = {}]
<1>0. /\ call[c] # None /\ UNCHANGED <<tables, running, history>>
      /\ Goto(c, [call[c] EXCEPT !.next = n], "loadUps") /\ "loadUps" \in Steps
  BY DEF Load, At, Steps
<1>1. cfg \in Config /\ settings \in Settings
  BY <1>0, CallFacts DEF IInv, TypeOK
<1>2. n \in Config /\ SameSettings(n, settings)
  <2>1. Override(cfg, settings) \in Config
    BY <1>1, OverrideFacts, SettingsEdit
  <2>2. SameSettings(Override(cfg, settings), settings)
    BY <1>1, ConfigAssumption DEF Override, SameSettings, Config, Settings
  <2> QED
    BY <2>1, <2>2 DEF Config, SameSettings
<1> HIDE DEF n
<1>3. Fresh(c)'
  BY <1>0, <1>2, CarryFacts DEF Fresh, tables
<1> QED
  BY <1>0, <1>2, <1>3, CarryFacts, AgreesOn DEF history

LEMMA LoadUpsAgrees ==
    ASSUME IInv, AInv, NEW c \in Calls, LoadUps(c)
    PROVE  AInv'
<1> DEFINE n == IF HasUp = {} THEN call[c].next
                ELSE [call[c].next EXCEPT !.ups = EnabledUps]
<1>0. /\ call[c] # None /\ call[c].step = "loadUps" /\ "loadHosts" \in Steps
      /\ UNCHANGED <<tables, running, history>>
  BY DEF LoadUps, At, Steps
<1>1. call[c] \in Call /\ call[c].next \in Config
  <2>1. call[c] \in Call /\ call[c].next # None
    BY <1>0, CallFacts DEF IInv, TypeOK
  <2> QED
    BY <2>1 DEF Call
<1>2. /\ n \in Config /\ SameUps(n)
      /\ n.apk = call[c].next.apk /\ n.size = call[c].next.size
  BY <1>1 DEF Config, EnabledUps, SameUps
<1>3. Goto(c, [call[c] EXCEPT !.next = n], "loadHosts")
  BY <1>1 DEF LoadUps, Goto, Call
<1> HIDE DEF n
<1>4. Fresh(c)'
  BY <1>0, <1>2, <1>3, CarryFacts, TablesKept
     DEF AInv, Fresh, SameSettings, SameUps, tables
<1> QED
  BY <1>0, <1>2, <1>3, <1>4, CarryFacts, AgreesOn DEF history

LEMMA LoadHostsAgrees ==
    ASSUME IInv, AInv, NEW c \in Calls, LoadHosts(c)
    PROVE  AInv'
<1> DEFINE n == [call[c].next EXCEPT !.hosts = EnabledHosts]
           edited == IF call[c].edit = None THEN n ELSE Override(n, call[c].edit)
           step == IF call[c].edit = None THEN "apply" ELSE "commit"
<1>0. /\ call[c] # None /\ call[c].step = "loadHosts"
      /\ UNCHANGED <<tables, running, history>> /\ step \in Steps
  BY DEF LoadHosts, At, Steps
<1>1. call[c] \in Call /\ call[c].next \in Config
  <2>1. call[c] \in Call /\ call[c].next # None
    BY <1>0, CallFacts DEF IInv, TypeOK
  <2> QED
    BY <2>1 DEF Call
<1>2. CASE Fail(c)
  BY <1>0, <1>2, FailAgrees DEF history
<1>3. CASE ~Fail(c)
  <2>1. /\ n \in Config /\ n.hosts = EnabledHosts /\ n.ups = call[c].next.ups
        /\ n.apk = call[c].next.apk /\ n.size = call[c].next.size
    BY <1>1 DEF Config, EnabledHosts, HasRule
  <2>2. Goto(c, [call[c] EXCEPT !.next = edited], step)
    BY <1>1, <1>3 DEF LoadHosts, Goto, Call
  <2> HIDE DEF n
  <2>3. call[c].edit # None => call[c].edit \in Edit
    BY <1>1 DEF Call
  <2>4. /\ edited \in Config /\ edited.hosts = EnabledHosts
        /\ edited.ups = call[c].next.ups
    BY <2>1, <2>3, OverrideFacts DEF Override, Config
  <2>5. ASSUME SameSettings(call[c].next, settings)
        PROVE  /\ step = "apply" => SameSettings(edited, settings)
               /\ step = "commit" => SameSettings(edited, Override(settings, call[c].edit))
    <3>1. CASE call[c].edit = None
      BY <2>1, <2>5, <3>1 DEF SameSettings
    <3>2. CASE call[c].edit # None
      BY <2>1, <2>3, <2>5, <3>2 DEF SameSettings, Override, Config, IInv, TypeOK, Settings
    <3> QED
      BY <3>1, <3>2
  <2> HIDE DEF edited
  <2>6. /\ \A d \in Calls : d # c => call'[d] = call[d]
        /\ call'[c].step = step /\ call'[c].next = edited
        /\ call'[c].edit = call[c].edit
        /\ call'[c].ok = call[c].ok /\ call'[c].alone = call[c].alone
    BY <1>0, <2>2, <2>4, CarryFacts
  <2>7. settings' = settings /\ HasUp' = HasUp /\ EnabledUps' = EnabledUps
        /\ EnabledHosts' = EnabledHosts
    BY <1>0, TablesKept DEF tables
  <2>8. Fresh(c)'
    BY <1>0, <2>4, <2>5, <2>6, <2>7 DEF AInv, Fresh, SameUps
  <2> QED
    BY <1>0, <2>6, <2>8, AgreesOn DEF history
<1> QED
  BY <1>2, <1>3

LEMMA CommitAgrees ==
    ASSUME IInv, AInv, NEW c \in Calls, Commit(c)
    PROVE  AInv'
<1> DEFINE r == [call[c] EXCEPT !.edit = None]
           step == IF call[c].hosts = None THEN "apply" ELSE "replace"
<1>0. /\ call[c] # None /\ call[c].step = "commit" /\ Goto(c, r, step)
      /\ settings' = Override(settings, call[c].edit)
      /\ UNCHANGED <<ups, rules, allowed, running, history>> /\ step \in Steps
  BY DEF Commit, At, Steps
<1>1. /\ r \in Call /\ r.next = call[c].next
      /\ r.ok = call[c].ok /\ r.alone = call[c].alone
  BY <1>0, CallFacts DEF Call
<1> HIDE DEF r
<1>2. /\ \A d \in Calls : d # c => call'[d] = call[d]
      /\ call'[c].step = step /\ call'[c].next = call[c].next
      /\ call'[c].ok = call[c].ok /\ call'[c].alone = call[c].alone
  BY <1>0, <1>1, GotoFacts DEF IInv
<1>3. HasUp' = HasUp /\ EnabledUps' = EnabledUps /\ EnabledHosts' = EnabledHosts
  BY <1>0 DEF HasUp, EnabledUps, EnabledHosts, HasRule
<1>4. Fresh(c)'
  BY <1>0, <1>2, <1>3 DEF AInv, Fresh, SameUps
<1> QED
  BY <1>0, <1>2, <1>4, AgreesOn DEF history

LEMMA ApplyAgrees ==
    ASSUME IInv, AInv, NEW c \in Calls, Apply(c)
    PROVE  AInv'
<1> DEFINE n == [call[c].next EXCEPT !.root = cfg.root]
           g == HasRule # {}
           r == [call[c] EXCEPT !.next = n, !.guard = g]
<1>0. /\ call[c] # None /\ call[c].step = "apply"
      /\ UNCHANGED <<tables, running, history>> /\ "install" \in Steps
  BY DEF Apply, At, Steps
<1>1. call[c] \in Call /\ call[c].next \in Config /\ cfg \in Config
  <2>1. call[c] \in Call /\ call[c].next # None /\ cfg \in Config
    BY <1>0, CallFacts DEF IInv, TypeOK
  <2> QED
    BY <2>1 DEF Call
<1>2. CASE Fail(c)
  BY <1>0, <1>2, FailAgrees DEF history
<1>3. CASE ~Fail(c)
  <2>1. /\ n \in Config /\ n.hosts = call[c].next.hosts /\ n.ups = call[c].next.ups
        /\ n.apk = call[c].next.apk /\ n.size = call[c].next.size
    BY <1>1 DEF Config
  <2>2. Goto(c, r, "install")
    BY <1>1, <1>3 DEF Apply, Goto, Call
  <2>3. g \in BOOLEAN
    OBVIOUS
  <2> HIDE DEF n, g
  <2>4. /\ r \in Call /\ r.next = n /\ r.guard = g
        /\ r.ok = call[c].ok /\ r.alone = call[c].alone
    BY <1>1, <2>1, <2>3 DEF Call
  <2> HIDE DEF r
  <2>5. /\ \A d \in Calls : d # c => call'[d] = call[d]
        /\ call'[c].step = "install" /\ call'[c].next = n /\ call'[c].guard = g
        /\ call'[c].ok = call[c].ok /\ call'[c].alone = call[c].alone
    BY <1>0, <2>2, <2>4, GotoFacts DEF IInv
  <2>6. settings' = settings /\ HasUp' = HasUp /\ EnabledUps' = EnabledUps
        /\ EnabledHosts' = EnabledHosts /\ g = (HasRule' # {})
    BY <1>0, TablesKept DEF tables, g
  <2>7. Fresh(c)'
    BY <1>0, <2>1, <2>5, <2>6 DEF AInv, Fresh, SameUps, SameSettings
  <2> QED
    BY <1>0, <2>5, <2>7, AgreesOn DEF history
<1> QED
  BY <1>2, <1>3

LEMMA InstallAgrees ==
    ASSUME IInv, AInv, NEW c \in Calls, Install(c)
    PROVE  AInv'
<1>0. /\ call[c] # None /\ call[c].step = "install" /\ cfg' = call[c].next
      /\ UNCHANGED <<tables, guarded, history>>
      /\ Goto(c, call[c], "guard") /\ "guard" \in Steps
  BY DEF Install, At, Steps
<1>1. /\ \A d \in Calls : d # c => call'[d] = call[d]
      /\ call'[c].step = "guard" /\ call'[c].guard = call[c].guard
      /\ call'[c].ok = call[c].ok /\ call'[c].alone = call[c].alone
  BY <1>0, CallFacts, GotoFacts DEF IInv
<1>2. settings' = settings /\ HasUp' = HasUp /\ EnabledUps' = EnabledUps
      /\ HasRule' = HasRule /\ EnabledHosts' = EnabledHosts
  BY <1>0, TablesKept DEF tables
<1>3. Fresh(c)'
  BY <1>0, <1>1, <1>2 DEF AInv, Fresh, Current, SameUps, SameSettings
<1> QED
  BY <1>0, <1>1, <1>3, AgreesOn DEF history

LEMMA InstallGuardAgrees ==
    ASSUME IInv, AInv, NEW c \in Calls, InstallGuard(c)
    PROVE  AInv'
<1> DEFINE r == [call[c] EXCEPT !.next = None, !.guard = FALSE]
<1>0. /\ call[c] # None /\ call[c].step = "guard" /\ guarded' = call[c].guard
      /\ UNCHANGED <<tables, cfg, history>>
      /\ Goto(c, r, "end") /\ "end" \in Steps
  BY DEF InstallGuard, At, Steps
<1>1. r \in Call /\ r.ok = call[c].ok /\ r.alone = call[c].alone
  BY <1>0, CallFacts DEF Call
<1> HIDE DEF r
<1>2. /\ \A d \in Calls : d # c => call'[d] = call[d]
      /\ call'[c].step = "end"
      /\ call'[c].ok = call[c].ok /\ call'[c].alone = call[c].alone
  BY <1>0, <1>1, GotoFacts DEF IInv
<1>3. settings' = settings /\ HasUp' = HasUp /\ EnabledUps' = EnabledUps
      /\ HasRule' = HasRule /\ EnabledHosts' = EnabledHosts
  BY <1>0, TablesKept DEF tables
<1>4. Fresh(c)'
  BY <1>0, <1>2, <1>3 DEF AInv, Fresh, Current, SameUps, SameSettings
<1> QED
  BY <1>0, <1>2, <1>4, AgreesOn DEF history

LEMMA EndAgrees ==
    ASSUME IInv, AInv, NEW c \in Calls, End(c)
    PROVE  AInv'
<1>0. /\ call[c] # None /\ call[c].step = "end" /\ TypeOK
      /\ call' = [call EXCEPT ![c] = None]
      /\ agreed' = (call[c].ok /\ call[c].alone)
      /\ UNCHANGED <<settings, ups, allowed, running>>
  BY DEF End, At, IInv
<1>1. call'[c] = None /\ \A d \in Calls : d # c => call'[d] = call[d]
  BY <1>0 DEF TypeOK
<1>2. /\ HasUp' = HasUp /\ EnabledUps' = EnabledUps
      /\ HasRule' = HasRule /\ EnabledHosts' = EnabledHosts
  <2>1. ASSUME NEW h \in Hosts
        PROVE  /\ rules'[h] = None <=> rules[h] = None
               /\ rules[h] # None => rules'[h].on = rules[h].on
    <3>1. rules[h] # None => rules[h] \in Rule
      BY <1>0 DEF TypeOK
    <3>2. \A x \in Rule : [x EXCEPT !.by = None] \in Rule /\ [x EXCEPT !.by = None].on = x.on
      BY DEF Rule
    <3>3. rules'[h] = IF rules[h] # None /\ rules[h].by = c
                      THEN [rules[h] EXCEPT !.by = None] ELSE rules[h]
      BY DEF End
    <3>4. None \notin Rule
      BY ConfigAssumption
    <3> QED
      BY <3>1, <3>2, <3>3, <3>4
  <2> QED
    BY <1>0, <2>1 DEF HasUp, EnabledUps, HasRule, EnabledHosts
<1>3. ASSUME NEW d \in Calls PROVE Fresh(d)'
  <2>1. call'[d] = None \/ ~call'[d].alone
    BY <1>0, <1>1 DEF IInv, Alone
  <2> QED
    BY <2>1 DEF Fresh
<1>4. agreed' => Quiet'
  BY <1>0, <1>1 DEF IInv, Alone, Quiet
<1>5. agreed' => Current' /\ guarded' = (HasRule' # {})
  BY <1>0, <1>2 DEF AInv, Fresh, Current, SameUps, SameSettings, running
<1> QED
  BY <1>3, <1>4, <1>5 DEF AInv

LEMMA BeginAgrees ==
    ASSUME IInv, AInv, NEW c \in Calls, Request(c)
    PROVE  AInv'
<1>1. PICK op \in Ops, step \in {"write", "load"}, edit \in Edit \cup {None},
          hosts \in (SUBSET Hosts) \cup {None} : Begin(c, op, step, edit, hosts)
  <2>0. /\ {"settings", "proxy", "reload", "createUp", "up", "createRule", "rule"}
               \subseteq Ops
        /\ None \in (SUBSET Hosts) \cup {None} /\ None \in Edit \cup {None}
        /\ NoEdit \in Edit \cup {None}
    BY DEF Ops, NoEdit, Edit
  <2> QED
    BY <2>0 DEF Request, AdminUpdateConfig, AdminReloadConfig, AdminProxyConfig,
       AdminCreateUpstream, AdminUpstreamAction, AdminCreateProxyHostRule,
       AdminProxyHostRuleAction
<1>2. ASSUME NEW d \in Calls, call'[d] # None
      PROVE  call'[d].alone => d = c /\ call'[d].step \in {"write", "load"}
  <2>1. CASE d = c
    BY <1>1, <1>2, <2>1 DEF Begin
  <2>2. CASE d # c
    <3>1. call[d] # None /\ call'[d] = [call[d] EXCEPT !.alone = FALSE]
      BY <1>1, <1>2, <2>2 DEF Begin
    <3>2. call[d] \in Call
      BY <3>1, CallFacts
    <3> QED
      BY <3>1, <3>2 DEF Call
  <2> QED
    BY <2>1, <2>2
<1>3. \A d \in Calls : Fresh(d)'
  BY <1>2 DEF Fresh
<1> QED
  BY <1>1, <1>3 DEF AInv, Begin

LEMMA ProcessAgrees ==
    ASSUME IInv, AInv, Crash \/ Start
    PROVE  AInv'
<1>1. CASE Crash
  BY <1>1 DEF Crash, AInv, Fresh
<1>2. CASE Start
  <2>1. Quiet /\ Quiet' /\ \A c \in Calls : Fresh(c)'
    BY <1>2 DEF Start, IInv, TypeOK, Quiet, Fresh
  <2>2. HasUp' = HasUp /\ EnabledUps' = EnabledUps
    BY <1>2 DEF Start, HasUp, EnabledUps
  <2>3. CASE cfg' = [LoadConfig(Imported) EXCEPT !.hosts = EnabledHosts']
             /\ guarded' = (HasRule' # {})
    <3>1. Current'
      BY <1>2, <2>2, <2>3 DEF Start, LoadConfig, Current, SameSettings, SameUps
    <3> QED
      BY <2>1, <2>3, <3>1 DEF AInv
  <2>4. CASE UNCHANGED running
    BY <1>2, <2>1, <2>4 DEF Start, AInv, Up, running
  <2> QED
    BY <1>2, <2>3, <2>4 DEF Start
<1> QED
  BY <1>1, <1>2

LEMMA InitAInv == Init => AInv
<1> SUFFICES ASSUME Init PROVE AInv
  OBVIOUS
<1>1. HasRule = {} /\ EnabledHosts = {} /\ HasUp = Imported /\ EnabledUps = Imported
  BY ConfigAssumption DEF Init, HasRule, EnabledHosts, HasUp, EnabledUps
<1>2. Current
  BY <1>1, ConfigAssumption DEF Init, LoadConfig, Current, SameSettings, SameUps
<1> QED
  BY <1>1, <1>2 DEF Init, AInv, Fresh, Quiet

LEMMA NextAInv == IInv /\ AInv /\ [Next]_vars => AInv'
<1> SUFFICES ASSUME IInv, AInv, [Next]_vars PROVE AInv'
  OBVIOUS
<1>1. ASSUME NEW c \in Calls, Request(c) PROVE AInv'
  BY <1>1, BeginAgrees
<1>2. ASSUME NEW c \in Calls, Handle(c) PROVE AInv'
  BY <1>2, WritesAgree, LoadAgrees, LoadUpsAgrees, LoadHostsAgrees, CommitAgrees,
     ApplyAgrees, InstallAgrees, InstallGuardAgrees, EndAgrees DEF Handle
<1>3. ASSUME Crash \/ Start PROVE AInv'
  BY <1>3, ProcessAgrees
<1>4. CASE UNCHANGED vars
  <2>1. /\ call' = call /\ agreed' = agreed /\ cfg' = cfg /\ guarded' = guarded
        /\ UNCHANGED <<settings, ups, rules>>
    BY <1>4 DEF vars, tables, running, history
  <2> QED
    BY <2>1, TablesKept DEF AInv, Fresh, Current, SameSettings, SameUps, Up, Quiet
<1> QED
  BY <1>1, <1>2, <1>3, <1>4 DEF Next

LEMMA CurrentIsLoaded ==
    ASSUME TypeOK, Up, Current
    PROVE  cfg = [LoadConfig(cfg.ups) EXCEPT !.root = cfg.root]
<1>1. cfg \in Config
  BY DEF TypeOK, Up
<1>2. cfg = [apk |-> cfg.apk, size |-> cfg.size, root |-> cfg.root,
             ups |-> cfg.ups, hosts |-> cfg.hosts]
  BY <1>1 DEF Config
<1> QED
  BY <1>2 DEF Current, SameSettings, SameUps, LoadConfig

\* With rows and rules to load, a start imports nothing.
LEMMA StartLoadsTheSame ==
    ASSUME HasUp # {}, HasRule = {} => allowed = {}, NEW base
    PROVE  StartConfig = LoadConfig(base)
<1>1. EnabledHosts = IF HasRule = {} THEN allowed ELSE EnabledHosts
  BY DEF EnabledHosts
<1>2. /\ LoadConfig(Imported) = LoadConfig(base)
      /\ LoadConfig(base).hosts = EnabledHosts
      /\ LoadConfig(base) = [LoadConfig(base) EXCEPT !.hosts = EnabledHosts]
  BY DEF LoadConfig
<1> QED
  BY <1>1, <1>2 DEF StartConfig

\* After a call that ran alone and succeeded the process runs with what is
\* stored, which is what a start would load where it has nothing to import,
\* whatever else was edited, had failed or had crashed before it (admin.go
\* reloadRuntimeFromStore, applyRuntimeConfig; store.go EnsureRuntimeConfig).
THEOREM AgreesAfterSuccessHolds == Spec => []AgreesAfterSuccess
<1>1. IInv /\ AInv => AgreesAfterSuccess
  <2> SUFFICES ASSUME IInv, AInv, Up, agreed
               PROVE  /\ cfg = [LoadConfig(cfg.ups) EXCEPT !.root = cfg.root]
                      /\ guarded = (HasRule # {})
                      /\ HasUp # {} /\ (HasRule = {} => allowed = {})
                             => cfg = [StartConfig EXCEPT !.root = cfg.root]
    BY DEF AgreesAfterSuccess
  <2>1. cfg = [LoadConfig(cfg.ups) EXCEPT !.root = cfg.root]
    BY CurrentIsLoaded DEF IInv, AInv
  <2>2. guarded = (HasRule # {})
    BY DEF AInv
  <2>3. HasUp # {} /\ (HasRule = {} => allowed = {})
            => StartConfig = LoadConfig(cfg.ups)
    BY StartLoadsTheSame
  <2> QED
    BY <2>1, <2>2, <2>3
<1>2. Spec => [](IInv /\ AInv)
  BY InitIInv, NextIInv, InitAInv, NextAInv, PTL DEF Spec
<1> QED
  BY <1>1, <1>2, PTL
=============================================================================
