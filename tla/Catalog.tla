-------------------------------- MODULE Catalog --------------------------------
(***************************************************************************)
(* What a list of models decides: which model a name means, whether it is  *)
(* offered, routed and executed, with which reasoning effort and budget.   *)
(* go/models.go, parseModelsFile of go/models_remote.go, routeModel of     *)
(* go/dispatch.go and the checks of prepareTurn and of the envelope.       *)
(*                                                                         *)
(* The state is a list of models and the filters of the configuration; how *)
(* and when they change is ModelRegistry's subject.  Everything else is a  *)
(* function of them and of a request.                                      *)
(*                                                                         *)
(* A name is a record: a namespace of the plugin's own or none, a vendor   *)
(* or none, a short name, whether it is spelled in capitals, and an effort *)
(* in parentheses or none.  Namespaces and parentheses inside an ID of the *)
(* list are not modelled; see the README.  Context limits are treated like *)
(* output limits and are left out.                                         *)
(***************************************************************************)
EXTENDS Integers, FiniteSets

CONSTANTS Vendors, Shorts,   \* parts of a model ID
          NoVendor,          \* an ID or a name without a slash
          Defs,              \* the model definitions a list may contain
          Filters,           \* the names that models and disable_models may list
          Rosters,           \* the lists of models, each a set of definitions
          Budgets,           \* values of max_tokens
          DefaultMaxTokens,  \* defaultMaxTokens
          None               \* an absent suffix, field or result

GatewayLevels == {"low", "high"}              \* and medium, xhigh, max
AutoLevels    == {"auto"}                     \* and default, -1
OffLevels     == {"none"}                     \* and off, minimal
Levels        == GatewayLevels \cup AutoLevels \cup OffLevels \cup {"meduim", ""}

Ids   == [vendor : Vendors \cup {NoVendor}, short : Shorts, capitals : BOOLEAN]
Names == [ns : BOOLEAN, vendor : Vendors \cup {NoVendor}, short : Shorts, capitals : BOOLEAN,
          suffix : Levels \cup {None}]

modelDef == [id : Ids, output : Nat, outputSource : {"fallback", "reference"},
             gatewayOutput : Nat, efforts : SUBSET Levels]

ASSUME DefsAssumption    == Defs \subseteq modelDef /\ Rosters \subseteq SUBSET Defs
ASSUME FiltersAssumption == Filters \subseteq Names
ASSUME BudgetsAssumption == Budgets \subseteq Int /\ DefaultMaxTokens \in Nat \ {0}
ASSUME VendorAssumption  == NoVendor \notin Vendors
ASSUME RostersAssumption == \A r \in Rosters : IsFiniteSet(r)
ASSUME NoneAssumption    == None \notin Ids \cup Levels \cup Int

VARIABLES models,  \* the snapshot in use
          allow,   \* pluginConfig.Models
          deny     \* pluginConfig.DisableModels

vars == <<models, allow, deny>>

--------------------------------------------------------------------------------
(* Names                                                                    *)

(* strings.ToLower of the part without namespace and suffix.                *)
Key(n) == <<n.vendor, n.short>>

MatchFirst(n) ==
    LET byID    == {d \in models : Key(d.id) = Key(n)}
        byShort == {d \in models : d.id.short = n.short}
    IN  IF byID # {} THEN (CHOOSE d \in byID : TRUE).id
        ELSE IF n.vendor = NoVendor /\ byShort # {}
             THEN (CHOOSE d \in byShort : TRUE).id
             ELSE None

(* byShort: a short name that two definitions share finds neither.          *)
Match(n) ==
    LET byID    == {d \in models : Key(d.id) = Key(n)}
        byShort == {d \in models : d.id.short = n.short}
    IN  IF byID # {} THEN (CHOOSE d \in byID : TRUE).id
        ELSE IF n.vendor = NoVendor /\ Cardinality(byShort) = 1
             THEN (CHOOSE d \in byShort : TRUE).id
             ELSE None

Definition(id) == CHOOSE d \in models : Key(d.id) = Key(id)

Allowed(id) == /\ \A x \in deny : Match(x) # id
               /\ allow = {} \/ \E x \in allow : Match(x) = id

--------------------------------------------------------------------------------
(* Reasoning effort and budget                                              *)

listedEfforts(d) == d.efforts

supportedEfforts(d) == d.efforts \cap GatewayLevels

Sent(level) == [ok |-> TRUE, effort |-> level]
Invalid     == [ok |-> FALSE, effort |-> None]

reasoningEffortUnchecked(id, suffix, requested) ==
    LET level == IF suffix # None THEN suffix ELSE requested
    IN  CASE level = None \/ level \in AutoLevels \/ (level = "" /\ suffix = None) -> Sent(None)
          [] level \in OffLevels -> Sent(None)
          [] level \in GatewayLevels -> Sent(level)
          [] OTHER -> Invalid

(* The suffix has precedence over the body.  Only an empty suffix is an     *)
(* error, an empty body effort is none.  A catalog that lists no efforts    *)
(* denies none.                                                             *)
reasoningEffort(id, suffix, requested) ==
    LET level == IF suffix # None THEN suffix ELSE requested
        d     == Definition(id)
    IN  CASE level = None \/ level \in AutoLevels \/ (level = "" /\ suffix = None) -> Sent(None)
          [] level \in OffLevels -> Sent(None)
          [] level \in GatewayLevels ->
                Sent(IF d.efforts = {} \/ level \in supportedEfforts(d) THEN level ELSE None)
          [] OTHER -> Invalid

Least(a, b) == IF a < b THEN a ELSE b

Capped(d, n) == IF d.gatewayOutput > 0 THEN Least(n, d.gatewayOutput) ELSE n

maxTokensClamped(id, requested) ==
    LET d == Definition(id)
        n == IF requested # None /\ requested > 0 THEN requested ELSE DefaultMaxTokens
    IN  Capped(d, IF d.output > 0 THEN Least(n, d.output) ELSE n)

(* max_tokens, or max_completion_tokens when the first is absent or not     *)
(* positive, is `requested' here.                                           *)
maxTokens(id, requested) ==
    LET d   == Definition(id)
        own == IF d.outputSource = "fallback" THEN d.output ELSE Least(DefaultMaxTokens, d.output)
    IN  Capped(d, IF requested # None /\ requested > 0 THEN requested
                  ELSE IF d.output > 0 THEN own ELSE DefaultMaxTokens)

--------------------------------------------------------------------------------
(* The three users of the catalog                                           *)

(* Registered: the ID the host learns is the plugin's namespace and the     *)
(* model's own ID.                                                          *)
NameOf(id) == [ns |-> TRUE, vendor |-> id.vendor, short |-> id.short, capitals |-> id.capitals,
               suffix |-> None]

Advertised(d) == [name    |-> NameOf(d.id),
                  output  |-> IF d.gatewayOutput > 0 THEN d.gatewayOutput
                              ELSE IF d.outputSource = "fallback" THEN 0 ELSE d.output,
                  efforts |-> supportedEfforts(d)]

Registered == {Advertised(d) : d \in {x \in models : Allowed(x.id)}}

(* routeModel looks at the suffix alone: it does not see the body.          *)
routeModel(n) == /\ Match(n) # None /\ Allowed(Match(n))
                 /\ reasoningEffort(Match(n), n.suffix, None).ok

Refused == [ok |-> FALSE]

prepareTurnUnfiltered(n, effort, budget) ==
    IF Match(n) = None \/ ~reasoningEffort(Match(n), n.suffix, effort).ok THEN Refused
    ELSE [ok |-> TRUE, model |-> Match(n),
          effort |-> reasoningEffort(Match(n), n.suffix, effort).effort,
          maxTokens |-> maxTokens(Match(n), budget)]

(* prepareTurn and buildEnvelopeForSession, for a payload that translates.  *)
prepareTurn(n, effort, budget) ==
    IF \/ Match(n) = None
       \/ ~Allowed(Match(n))
       \/ ~reasoningEffort(Match(n), n.suffix, effort).ok
    THEN Refused
    ELSE [ok |-> TRUE, model |-> Match(n),
          effort |-> reasoningEffort(Match(n), n.suffix, effort).effort,
          maxTokens |-> maxTokens(Match(n), budget)]

--------------------------------------------------------------------------------
(* How the list and the filters change                                      *)

(* parseModelsFile refuses an empty list and two IDs, or two short names,   *)
(* that differ in capitals at most.                                         *)
Parses(file) == /\ file # {}
                /\ \A d, e \in file : d # e => d.id.short # e.id.short

Publish(file) == /\ Parses(file)
                 /\ models' = file
                 /\ UNCHANGED <<allow, deny>>

PublishRefused(file) == ~Parses(file) /\ UNCHANGED vars

Configure(a, d) == /\ allow' = a /\ deny' = d
                   /\ UNCHANGED models

(* The compiled-in list is not parsed, but its IDs are distinct.            *)
Compiled(list) == /\ list # {}
                  /\ \A d, e \in list : d # e => Key(d.id) # Key(e.id)

Init == /\ models \in {r \in Rosters : Compiled(r)}
        /\ allow = {} /\ deny = {}

Next == \/ \E r \in Rosters : Publish(r) \/ PublishRefused(r)
        \/ \E a, d \in SUBSET Filters : Configure(a, d)

Spec == Init /\ [][Next]_vars

--------------------------------------------------------------------------------
(* Properties                                                               *)

(* Types; and no two models of a list differ in capitals only, so that the  *)
(* index by ID loses none of them.                                          *)
TypeOK == /\ models \in Rosters
          /\ allow \subseteq Filters /\ deny \subseteq Filters
          /\ \A d, e \in models : Key(d.id) = Key(e.id) => d = e

(* The name spells the ID in full, or leaves the vendor out.                *)
Spells(n, id)      == n.short = id.short /\ n.vendor = id.vendor
SpellsShort(n, id) == n.short = id.short /\ n.vendor = NoVendor

Executes(n, id) == LET t == prepareTurn(n, None, None) IN t.ok /\ t.model = id

(* A model that deny spells out, in capitals or not, with namespace and     *)
(* effort or not, is not offered, and is not routed or executed under any   *)
(* name; and if allow lists anything, a model that no entry spells, even    *)
(* in short, is not either.  "Adding a suffix cannot bypass them"           *)
(* (ARCHITECTURE.md:96).                                                    *)
FiltersHold ==
    \A d \in models :
        \/ \E x \in deny : Spells(x, d.id)
        \/ allow # {} /\ \A x \in allow : ~Spells(x, d.id) /\ ~SpellsShort(x, d.id)
        => /\ \A a \in Registered : a.name # NameOf(d.id)
           /\ \A n \in Names : ~Executes(n, d.id) /\ ~(routeModel(n) /\ Match(n) = d.id)

(* What is offered can be used as offered: the host routes the ID to us, it *)
(* executes as that very model, every effort offered is sent as it is, by   *)
(* suffix and by body, and so is every budget up to the limit offered.      *)
(* Nothing can be executed that is not offered, and the router takes        *)
(* exactly the names that the executor will take.                           *)
OfferedIsServed ==
    /\ \A a \in Registered :
          LET id == Match(a.name)
          IN  /\ id # None /\ a.name = NameOf(id) /\ routeModel(a.name)
              /\ \A e \in a.efforts :
                    /\ prepareTurn(a.name, e, None).effort = e
                    /\ prepareTurn([a.name EXCEPT !.suffix = e], None, None).effort = e
              /\ \A b \in Budgets : a.output > 0 /\ b \in 1 .. a.output =>
                    prepareTurn(a.name, None, b).maxTokens = b
    /\ \A n \in Names, d \in models :
          Executes(n, d.id) => \E a \in Registered : a.name = NameOf(d.id)
    /\ \A n \in Names : routeModel(n) <=> prepareTurn(n, None, None).ok

(* A name is never guessed at: what is executed is the model with that very *)
(* ID, or the only one with that short name.                                *)
NamesAreNotGuessed ==
    \A n \in Names, d \in models : Executes(n, d.id) =>
        \/ Spells(n, d.id)
        \/ SpellsShort(n, d.id) /\ \A e \in models : e.id.short = n.short => e = d

(* The effort sent is one the gateway knows and, of a model whose efforts   *)
(* are listed, one of those; and a suffix, good or bad, leaves the body no  *)
(* say.                                                                     *)
EffortIsAccepted ==
    \A n \in Names, e \in Levels \cup {None} :
        LET t == prepareTurn(n, e, None)
        IN  /\ t.ok /\ t.effort # None =>
                  /\ t.effort \in GatewayLevels
                  /\ \A d \in models : d.id = t.model /\ d.efforts # {} => t.effort \in d.efforts
            /\ n.suffix # None => t = prepareTurn(n, None, None)

(* The budget sent is positive and within the gateway's cap, where one is   *)
(* known; and the client's own budget is never reduced for another reason.  *)
BudgetIsRespected ==
    \A d \in models, b \in Budgets \cup {None} :
        LET t == prepareTurn(NameOf(d.id), None, b)
        IN  t.ok => /\ t.maxTokens > 0
                    /\ d.gatewayOutput > 0 => t.maxTokens <= d.gatewayOutput
                    /\ b # None /\ b > 0 /\ t.maxTokens # b => b > d.gatewayOutput /\ d.gatewayOutput > 0

(* "Unknown/unsupported levels, explicit none/off, minimal, and numeric     *)
(* budgets fail instead of changing the request's meaning"                  *)
(* (ARCHITECTURE.md:92-94): a turn that is accepted with an effort other    *)
(* than the automatic one is sent that effort.                              *)
UnsupportedEffortsFail ==
    \A d \in models, e \in Levels \ (AutoLevels \cup {""}) :
        LET t == prepareTurn(NameOf(d.id), e, None) IN t.ok => t.effort = e

(* "An omitted client budget uses min(64000, the available                  *)
(* reference/default budget)" (ARCHITECTURE.md:78): at most the default.    *)
OmittedBudgetIsDefault ==
    \A d \in models :
        LET t == prepareTurn(NameOf(d.id), None, None) IN t.ok => t.maxTokens <= DefaultMaxTokens
================================================================================
