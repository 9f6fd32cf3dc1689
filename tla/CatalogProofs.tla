------------------------------ MODULE CatalogProofs ------------------------------
(***************************************************************************)
(* Theorems about the two halves of the model catalog: Catalog, what a     *)
(* list of models decides, for any lists, filters, names and budgets; and  *)
(* CatalogOutputs, how the list is generated, for any number of files.     *)
(***************************************************************************)
EXTENDS Catalog, CatalogOutputs, FiniteSetTheorems, TLAPS

--------------------------------------------------------------------------------
(* Lists and filters                                                        *)

(* The models of a list, and the names of the filters, are of their kind.   *)
LEMMA ModelsTyped ==
    ASSUME TypeOK
    PROVE  /\ models \subseteq modelDef /\ IsFiniteSet(models)
           /\ allow \subseteq Names /\ deny \subseteq Names
  BY DefsAssumption, FiltersAssumption, RostersAssumption DEF TypeOK

(* A list that differs in its short names differs in its IDs.               *)
THEOREM TypeCorrect == Spec => []TypeOK
<1>1. Init => TypeOK  BY DEF Init, TypeOK, Compiled
<1>2. TypeOK /\ [Next]_vars => TypeOK'
  <2> SUFFICES ASSUME TypeOK, [Next]_vars PROVE TypeOK'
    OBVIOUS
  <2>1. ASSUME NEW r \in Rosters, Publish(r) PROVE TypeOK'
    BY <2>1 DEF Publish, Parses, Key, TypeOK
  <2>2. ASSUME NEW r \in Rosters, PublishRefused(r) PROVE TypeOK'
    BY <2>2 DEF PublishRefused, vars, Key, TypeOK
  <2>3. ASSUME NEW a, NEW d, a \subseteq Filters, d \subseteq Filters, Configure(a, d) PROVE TypeOK'
    BY <2>3 DEF Configure, Key, TypeOK
  <2>4. CASE UNCHANGED vars  BY <2>4 DEF vars, Key, TypeOK
  <2> QED  BY <2>1, <2>2, <2>3, <2>4 DEF Next
<1> QED  BY <1>1, <1>2, PTL DEF Spec

--------------------------------------------------------------------------------
(* Names                                                                    *)

(* The full ID finds its model.                                             *)
LEMMA SpelledMatches ==
    ASSUME TypeOK, NEW d \in models, NEW n \in Names, Spells(n, d.id)
    PROVE  Match(n) = d.id
<1> DEFINE byID == {e \in models : Key(e.id) = Key(n)}
<1>1. Key(n) = Key(d.id)  BY DEF Spells, Key
<1>2. byID = {d}  BY <1>1 DEF TypeOK
<1>3. (CHOOSE e \in byID : TRUE) = d  BY <1>2
<1> QED  BY <1>2, <1>3 DEF Match

(* What a name finds is spelled by it, in full or alone of its short name.  *)
LEMMA MatchSpells ==
    ASSUME TypeOK, NEW d \in models, NEW n \in Names, Match(n) = d.id
    PROVE  \/ Spells(n, d.id)
           \/ SpellsShort(n, d.id) /\ \A e \in models : e.id.short = n.short => e = d
<1> DEFINE byID    == {e \in models : Key(e.id) = Key(n)}
           byShort == {e \in models : e.id.short = n.short}
<1>1. d.id # None  BY ModelsTyped, NoneAssumption DEF modelDef
<1>2. CASE byID # {}
  <2>1. PICK e \in byID : e = CHOOSE x \in byID : TRUE  BY <1>2
  <2>2. Match(n) = e.id  BY <1>2, <2>1 DEF Match
  <2>3. Key(d.id) = Key(n)  BY <2>1, <2>2
  <2> QED  BY <2>3 DEF Key, Spells
<1>3. CASE byID = {}
  <2>1. /\ n.vendor = NoVendor /\ Cardinality(byShort) = 1
        /\ (CHOOSE x \in byShort : TRUE).id = d.id
    BY <1>1, <1>3 DEF Match
  <2>2. IsFiniteSet(byShort)  BY ModelsTyped, FS_Subset
  <2>3. PICK e : byShort = {e}  BY <2>1, <2>2, FS_Singleton
  <2>4. (CHOOSE x \in byShort : TRUE) = e  BY <2>3
  <2>5. d \in byShort  BY <2>1, <2>3, <2>4
  <2>6. byShort = {d}  BY <2>3, <2>5
  <2> QED  BY <2>1, <2>6 DEF SpellsShort
<1> QED  BY <1>2, <1>3

(* What a name finds is in the list.                                        *)
LEMMA MatchIsListed ==
    ASSUME TypeOK, NEW n \in Names, Match(n) # None
    PROVE  \E d \in models : Match(n) = d.id
<1> DEFINE byID    == {e \in models : Key(e.id) = Key(n)}
           byShort == {e \in models : e.id.short = n.short}
<1>1. CASE byID # {}
  <2>1. (CHOOSE e \in byID : TRUE) \in byID  BY <1>1
  <2>2. Match(n) = (CHOOSE e \in byID : TRUE).id  BY <1>1 DEF Match
  <2> QED  BY <2>1, <2>2
<1>2. CASE byID = {}
  <2>1. Cardinality(byShort) = 1 /\ Match(n) = (CHOOSE e \in byShort : TRUE).id
    BY <1>2 DEF Match
  <2>2. IsFiniteSet(byShort)  BY ModelsTyped, FS_Subset
  <2>3. byShort # {}  BY <2>1, <2>2, FS_EmptySet
  <2>4. (CHOOSE e \in byShort : TRUE) \in byShort  BY <2>3
  <2> QED  BY <2>1, <2>4
<1> QED  BY <1>1, <1>2

(* A definition is found again by its ID.                                   *)
LEMMA DefinitionOf ==
    ASSUME TypeOK, NEW d \in models
    PROVE  Definition(d.id) = d
<1>1. \A e \in models : Key(e.id) = Key(d.id) <=> e = d  BY DEF TypeOK
<1> QED  BY <1>1 DEF Definition

(* The ID that is registered spells the model.                              *)
LEMMA NameOfSpells ==
    ASSUME TypeOK, NEW d \in models
    PROVE  NameOf(d.id) \in Names /\ Spells(NameOf(d.id), d.id) /\ NameOf(d.id).suffix = None
  BY ModelsTyped DEF NameOf, Names, Spells, modelDef, Ids

--------------------------------------------------------------------------------
(* The three users                                                          *)

(* What is executed is found and allowed.                                   *)
LEMMA ExecutesAllowed ==
    ASSUME NEW n, NEW id, Executes(n, id)
    PROVE  Match(n) = id /\ id # None /\ Allowed(id) /\ reasoningEffort(id, n.suffix, None).ok
  BY DEF Executes, prepareTurn, Refused

(* A name is never guessed at.                                              *)
THEOREM NamesAreSpelled == Spec => []NamesAreNotGuessed
<1>1. TypeOK => NamesAreNotGuessed  BY MatchSpells, ExecutesAllowed DEF NamesAreNotGuessed
<1> QED  BY <1>1, TypeCorrect, PTL

(* What the filters exclude is not allowed.                                 *)
LEMMA ExcludedIsNotAllowed ==
    ASSUME TypeOK, NEW d \in models,
           \/ \E x \in deny : Spells(x, d.id)
           \/ allow # {} /\ \A x \in allow : ~Spells(x, d.id) /\ ~SpellsShort(x, d.id)
    PROVE  ~Allowed(d.id)
<1>1. CASE \E x \in deny : Spells(x, d.id)
  BY <1>1, ModelsTyped, SpelledMatches DEF Allowed
<1>2. CASE allow # {} /\ \A x \in allow : ~Spells(x, d.id) /\ ~SpellsShort(x, d.id)
  <2>1. \A x \in allow : Match(x) # d.id  BY <1>2, ModelsTyped, MatchSpells
  <2> QED  BY <1>2, <2>1 DEF Allowed
<1> QED  BY <1>1, <1>2

(* What the filters exclude is neither offered nor routed nor executed.     *)
THEOREM FiltersExclude == Spec => []FiltersHold
<1>1. TypeOK => FiltersHold
  <2> SUFFICES ASSUME TypeOK, NEW d \in models,
                      \/ \E x \in deny : Spells(x, d.id)
                      \/ allow # {} /\ \A x \in allow : ~Spells(x, d.id) /\ ~SpellsShort(x, d.id)
               PROVE  /\ \A a \in Registered : a.name # NameOf(d.id)
                      /\ \A n \in Names : ~Executes(n, d.id) /\ ~(routeModel(n) /\ Match(n) = d.id)
    BY DEF FiltersHold
  <2>1. ~Allowed(d.id)  BY ExcludedIsNotAllowed
  <2>2. ASSUME NEW e \in models, NameOf(e.id) = NameOf(d.id) PROVE e.id = d.id
    <3>1. Spells(NameOf(d.id), e.id) /\ Spells(NameOf(d.id), d.id)  BY <2>2, NameOfSpells
    <3>2. Key(e.id) = Key(d.id)  BY <3>1 DEF Spells, Key
    <3> QED  BY <3>2 DEF TypeOK
  <2>3. \A a \in Registered : \E e \in models : Allowed(e.id) /\ a.name = NameOf(e.id)
    BY DEF Registered, Advertised
  <2> QED  BY <2>1, <2>2, <2>3, ExecutesAllowed DEF routeModel
<1> QED  BY <1>1, TypeCorrect, PTL

--------------------------------------------------------------------------------
(* Efforts and budgets                                                      *)

Level(suffix, requested) == IF suffix # None THEN suffix ELSE requested

(* Levels for which no effort is sent.                                      *)
Silent(suffix, requested) ==
    \/ Level(suffix, requested) \in AutoLevels \cup OffLevels \cup {None}
    \/ Level(suffix, requested) = "" /\ suffix = None

(* The kinds of levels exclude one another.                                 *)
LEMMA LevelsDiffer ==
    /\ \A l \in GatewayLevels : l \notin AutoLevels \cup OffLevels \cup {None, ""}
    /\ \A l \in AutoLevels \cup {None, ""} : l \notin OffLevels
    /\ GatewayLevels \subseteq Levels
<1>1. None \notin GatewayLevels \cup OffLevels  BY NoneAssumption DEF Levels
<1> QED  BY <1>1 DEF GatewayLevels, AutoLevels, OffLevels, Levels

(* A silent level is accepted and nothing is sent,                          *)
LEMMA SilentEffort ==
    ASSUME NEW id, NEW suffix, NEW requested, Silent(suffix, requested)
    PROVE  reasoningEffort(id, suffix, requested) = Sent(None)
<1> DEFINE level == Level(suffix, requested)
<1>1. CASE level = None \/ level \in AutoLevels \/ (level = "" /\ suffix = None)
  <2>1. level \notin OffLevels /\ level \notin GatewayLevels  BY <1>1, LevelsDiffer
  <2> QED  BY <1>1, <2>1 DEF reasoningEffort, Level
<1>2. CASE level \in OffLevels
  <2>1. /\ ~(level = None \/ level \in AutoLevels \/ (level = "" /\ suffix = None))
        /\ level \in OffLevels /\ level \notin GatewayLevels
    BY <1>2, LevelsDiffer
  <2> QED  BY <2>1 DEF reasoningEffort, Level
<1> QED  BY <1>1, <1>2 DEF Silent

(* one of the gateway's is sent unless the model lists others,              *)
LEMMA GatewayEffort ==
    ASSUME NEW id, NEW suffix, NEW requested, Level(suffix, requested) \in GatewayLevels
    PROVE  LET level == Level(suffix, requested)
               d     == Definition(id)
           IN  reasoningEffort(id, suffix, requested) =
                 Sent(IF d.efforts = {} \/ level \in supportedEfforts(d) THEN level ELSE None)
<1> DEFINE level == Level(suffix, requested)
<1>1. /\ ~(level = None \/ level \in AutoLevels \/ (level = "" /\ suffix = None))
      /\ level \notin OffLevels /\ level \in GatewayLevels
  BY LevelsDiffer
<1> QED  BY <1>1 DEF reasoningEffort, Level

(* and any other level is refused.                                          *)
LEMMA InvalidEffort ==
    ASSUME NEW id, NEW suffix, NEW requested,
           ~Silent(suffix, requested), Level(suffix, requested) \notin GatewayLevels
    PROVE  reasoningEffort(id, suffix, requested) = Invalid
<1> DEFINE level == Level(suffix, requested)
<1>1. /\ ~(level = None \/ level \in AutoLevels \/ (level = "" /\ suffix = None))
      /\ level \notin OffLevels /\ level \notin GatewayLevels
  BY DEF Silent
<1> QED  BY <1>1 DEF reasoningEffort, Level

(* What is sent is known to the gateway and listed by the model.            *)
LEMMA SentIsSupported ==
    ASSUME TypeOK, NEW d \in models, NEW suffix, NEW requested,
           reasoningEffort(d.id, suffix, requested).ok,
           reasoningEffort(d.id, suffix, requested).effort # None
    PROVE  LET level == reasoningEffort(d.id, suffix, requested).effort
           IN  level \in GatewayLevels /\ (d.efforts # {} => level \in d.efforts)
<1>1. CASE Silent(suffix, requested)  BY <1>1, SilentEffort DEF Sent
<1>2. CASE Level(suffix, requested) \in GatewayLevels
  BY <1>2, GatewayEffort, DefinitionOf DEF Sent, supportedEfforts
<1>3. CASE ~Silent(suffix, requested) /\ Level(suffix, requested) \notin GatewayLevels
  BY <1>3, InvalidEffort DEF Invalid
<1> QED  BY <1>1, <1>2, <1>3

(* A suffix leaves the body no say.                                         *)
LEMMA SuffixDecides ==
    ASSUME NEW id, NEW suffix, NEW requested, suffix # None
    PROVE  reasoningEffort(id, suffix, requested) = reasoningEffort(id, suffix, None)
<1>1. Level(suffix, requested) = suffix /\ Level(suffix, None) = suffix  BY DEF Level
<1>2. Silent(suffix, requested) <=> Silent(suffix, None)  BY <1>1 DEF Silent
<1>3. CASE Silent(suffix, None)  BY <1>2, <1>3, SilentEffort
<1>4. CASE suffix \in GatewayLevels  BY <1>1, <1>4, GatewayEffort
<1>5. CASE ~Silent(suffix, None) /\ suffix \notin GatewayLevels  BY <1>1, <1>2, <1>5, InvalidEffort
<1> QED  BY <1>3, <1>4, <1>5

(* An accepted turn is one of these.                                        *)
LEMMA AcceptedTurn ==
    ASSUME NEW n, NEW e, NEW b, prepareTurn(n, e, b).ok
    PROVE  /\ Match(n) # None /\ Allowed(Match(n)) /\ reasoningEffort(Match(n), n.suffix, e).ok
           /\ prepareTurn(n, e, b).model = Match(n)
           /\ prepareTurn(n, e, b).effort = reasoningEffort(Match(n), n.suffix, e).effort
           /\ prepareTurn(n, e, b).maxTokens = maxTokens(Match(n), b)
  BY DEF prepareTurn, Refused

(* And what meets these conditions is accepted.                             *)
LEMMA TurnAccepted ==
    ASSUME NEW n, NEW e, NEW b,
           Match(n) # None, Allowed(Match(n)), reasoningEffort(Match(n), n.suffix, e).ok
    PROVE  prepareTurn(n, e, b).ok
  BY DEF prepareTurn

(* The effort sent is one the gateway and the model know.                   *)
THEOREM EffortsAreAccepted == Spec => []EffortIsAccepted
<1>1. TypeOK => EffortIsAccepted
  <2> SUFFICES ASSUME TypeOK, NEW n \in Names, NEW e \in Levels \cup {None}
               PROVE  LET t == prepareTurn(n, e, None)
                      IN  /\ t.ok /\ t.effort # None =>
                                /\ t.effort \in GatewayLevels
                                /\ \A d \in models : d.id = t.model /\ d.efforts # {} => t.effort \in d.efforts
                          /\ n.suffix # None => t = prepareTurn(n, None, None)
    BY DEF EffortIsAccepted
  <2> DEFINE t == prepareTurn(n, e, None)
  <2>1. ASSUME t.ok, t.effort # None
        PROVE  /\ t.effort \in GatewayLevels
               /\ \A d \in models : d.id = t.model /\ d.efforts # {} => t.effort \in d.efforts
    <3>1. /\ Match(n) # None /\ reasoningEffort(Match(n), n.suffix, e).ok
          /\ t.model = Match(n) /\ t.effort = reasoningEffort(Match(n), n.suffix, e).effort
      BY <2>1, AcceptedTurn
    <3>2. PICK d \in models : Match(n) = d.id  BY <3>1, MatchIsListed
    <3>3. \A x \in models : x.id = d.id => x = d  BY DEF TypeOK
    <3> HIDE DEF t
    <3>4. t.effort \in GatewayLevels /\ (d.efforts # {} => t.effort \in d.efforts)
      BY <2>1, <3>1, <3>2, SentIsSupported
    <3> QED  BY <3>1, <3>2, <3>3, <3>4
  <2>2. n.suffix # None => t = prepareTurn(n, None, None)
    BY SuffixDecides DEF prepareTurn
  <2> QED  BY <2>1, <2>2
<1> QED  BY <1>1, TypeCorrect, PTL

(* The budget of a model, and how the client's own is treated.              *)
LEMMA BudgetOf ==
    ASSUME TypeOK, NEW d \in models, NEW b \in Budgets \cup {None}
    PROVE  LET n == maxTokens(d.id, b)
           IN  /\ n \in Nat /\ n > 0
               /\ d.gatewayOutput > 0 => n <= d.gatewayOutput
               /\ b # None /\ b > 0 => n = IF d.gatewayOutput > 0 THEN Least(b, d.gatewayOutput) ELSE b
<1> DEFINE own == IF d.outputSource = "fallback" THEN d.output ELSE Least(DefaultMaxTokens, d.output)
           n   == IF b # None /\ b > 0 THEN b ELSE IF d.output > 0 THEN own ELSE DefaultMaxTokens
<1>1. d.output \in Nat /\ d.gatewayOutput \in Nat  BY ModelsTyped DEF modelDef
<1>2. n \in Nat /\ n > 0
  <2>1. b # None => b \in Int  BY BudgetsAssumption
  <2> QED  BY <1>1, <2>1, BudgetsAssumption DEF Least
<1>3. maxTokens(d.id, b) = Capped(d, n)  BY DefinitionOf DEF maxTokens
<1>4. b # None /\ b > 0 => n = b  OBVIOUS
<1> HIDE DEF n
<1> QED  BY <1>1, <1>2, <1>3, <1>4 DEF Capped, Least

(* The budget sent is positive, within the cap, and the client's own up to  *)
(* it.                                                                      *)
THEOREM BudgetsAreRespected == Spec => []BudgetIsRespected
<1>1. TypeOK => BudgetIsRespected
  <2> SUFFICES ASSUME TypeOK, NEW d \in models, NEW b \in Budgets \cup {None},
                      prepareTurn(NameOf(d.id), None, b).ok
               PROVE  LET n == prepareTurn(NameOf(d.id), None, b).maxTokens
                      IN  /\ n > 0
                          /\ d.gatewayOutput > 0 => n <= d.gatewayOutput
                          /\ b # None /\ b > 0 /\ n # b => b > d.gatewayOutput /\ d.gatewayOutput > 0
    BY DEF BudgetIsRespected
  <2>1. Match(NameOf(d.id)) = d.id  BY NameOfSpells, SpelledMatches
  <2>2. prepareTurn(NameOf(d.id), None, b).maxTokens = maxTokens(d.id, b)  BY <2>1, AcceptedTurn
  <2>3. b # None => b \in Int  BY BudgetsAssumption
  <2>4. d.gatewayOutput \in Nat  BY ModelsTyped DEF modelDef
  <2> QED  BY <2>2, <2>3, <2>4, BudgetOf DEF Least
<1> QED  BY <1>1, TypeCorrect, PTL

--------------------------------------------------------------------------------
(* Offers                                                                   *)

(* What is offered is found, routed and executed under the offered name,    *)
LEMMA OfferIsUsable ==
    ASSUME TypeOK, NEW d \in models, Allowed(d.id)
    PROVE  /\ Match(NameOf(d.id)) = d.id /\ d.id # None
           /\ routeModel(NameOf(d.id))
<1>1. Match(NameOf(d.id)) = d.id  BY NameOfSpells, SpelledMatches
<1>2. d.id # None  BY ModelsTyped, NoneAssumption DEF modelDef
<1>3. reasoningEffort(d.id, None, None) = Sent(None)  BY SilentEffort DEF Silent, Level
<1>4. NameOf(d.id).suffix = None  BY NameOfSpells
<1> QED  BY <1>1, <1>2, <1>3, <1>4 DEF routeModel, Sent

(* with every effort that is offered, by body and by suffix,                *)
LEMMA OfferedEffortIsSent ==
    ASSUME TypeOK, NEW d \in models, Allowed(d.id), NEW e \in supportedEfforts(d)
    PROVE  /\ prepareTurn(NameOf(d.id), e, None).effort = e
           /\ prepareTurn([NameOf(d.id) EXCEPT !.suffix = e], None, None).effort = e
<1> DEFINE named == [NameOf(d.id) EXCEPT !.suffix = e]
<1>1. e \in GatewayLevels  BY DEF supportedEfforts
<1>2. e # None /\ e \in Levels  BY <1>1, LevelsDiffer
<1>3. Match(NameOf(d.id)) = d.id /\ d.id # None  BY OfferIsUsable
<1>4. NameOf(d.id).suffix = None  BY NameOfSpells
<1>5. named \in Names /\ Spells(named, d.id) /\ named.suffix = e
  BY <1>2, ModelsTyped DEF NameOf, Names, Spells, modelDef, Ids
<1>6. Match(named) = d.id  BY <1>5, SpelledMatches
<1>7. reasoningEffort(d.id, None, e) = Sent(e)
  BY <1>1, GatewayEffort, DefinitionOf DEF Level
<1>8. reasoningEffort(d.id, e, None) = Sent(e)
  BY <1>1, <1>2, GatewayEffort, DefinitionOf DEF Level
<1>9. prepareTurn(NameOf(d.id), e, None).effort = e
  BY <1>3, <1>4, <1>7, TurnAccepted, AcceptedTurn DEF Sent
<1> HIDE DEF named
<1>10. prepareTurn(named, None, None).effort = e
  BY <1>3, <1>5, <1>6, <1>8, TurnAccepted, AcceptedTurn DEF Sent
<1> QED  BY <1>9, <1>10 DEF named

(* and with every budget up to the limit that is offered.                   *)
LEMMA OfferedBudgetIsSent ==
    ASSUME TypeOK, NEW d \in models, Allowed(d.id), NEW b \in Budgets,
           b \in 1 .. Advertised(d).output
    PROVE  prepareTurn(NameOf(d.id), None, b).maxTokens = b
<1>1. d.output \in Nat /\ d.gatewayOutput \in Nat  BY ModelsTyped DEF modelDef
<1>2. b \in Int /\ b > 0 /\ b # None  BY <1>1, BudgetsAssumption, NoneAssumption DEF Advertised
<1>3. d.gatewayOutput > 0 => b <= d.gatewayOutput  BY <1>1 DEF Advertised
<1>4. maxTokens(d.id, b) = b  BY <1>1, <1>2, <1>3, BudgetOf DEF Least
<1>5. Match(NameOf(d.id)) = d.id /\ d.id # None  BY OfferIsUsable
<1>6. reasoningEffort(d.id, None, None) = Sent(None)  BY SilentEffort DEF Silent, Level
<1>7. NameOf(d.id).suffix = None  BY NameOfSpells
<1> QED  BY <1>4, <1>5, <1>6, <1>7, TurnAccepted, AcceptedTurn DEF Sent

(* What is offered can be used as offered, and nothing else.                *)
THEOREM OffersAreServed == Spec => []OfferedIsServed
<1>1. TypeOK => OfferedIsServed
  <2> SUFFICES ASSUME TypeOK PROVE OfferedIsServed
    OBVIOUS
  <2>1. \A a \in Registered : \E d \in models : Allowed(d.id) /\ a = Advertised(d)
    BY DEF Registered
  <2>2. \A d \in models : Advertised(d).name = NameOf(d.id) /\ Advertised(d).efforts = supportedEfforts(d)
    BY DEF Advertised
  <2>3. ASSUME NEW a \in Registered
        PROVE  LET id == Match(a.name)
               IN  /\ id # None /\ a.name = NameOf(id) /\ routeModel(a.name)
                   /\ \A e \in a.efforts :
                         /\ prepareTurn(a.name, e, None).effort = e
                         /\ prepareTurn([a.name EXCEPT !.suffix = e], None, None).effort = e
                   /\ \A b \in Budgets : a.output > 0 /\ b \in 1 .. a.output =>
                         prepareTurn(a.name, None, b).maxTokens = b
    <3>1. PICK d \in models : Allowed(d.id) /\ a = Advertised(d)  BY <2>1
    <3>2. a.name = NameOf(d.id) /\ a.efforts = supportedEfforts(d)  BY <2>2, <3>1
    <3>3. Match(a.name) = d.id /\ d.id # None /\ routeModel(a.name)  BY <3>1, <3>2, OfferIsUsable
    <3>4. \A e \in a.efforts :
             /\ prepareTurn(a.name, e, None).effort = e
             /\ prepareTurn([a.name EXCEPT !.suffix = e], None, None).effort = e
      BY <3>1, <3>2, OfferedEffortIsSent
    <3>5. \A b \in Budgets : b \in 1 .. a.output => prepareTurn(a.name, None, b).maxTokens = b
      BY <3>1, <3>2, OfferedBudgetIsSent
    <3> QED  BY <3>2, <3>3, <3>4, <3>5
  <2>4. \A n \in Names, d \in models : Executes(n, d.id) => \E a \in Registered : a.name = NameOf(d.id)
    <3>1. \A d \in models : Allowed(d.id) => Advertised(d) \in Registered  BY DEF Registered
    <3> QED  BY <2>2, <3>1, ExecutesAllowed
  <2>5. \A n \in Names : routeModel(n) <=> prepareTurn(n, None, None).ok
    BY TurnAccepted, AcceptedTurn DEF routeModel
  <2> QED  BY <2>3, <2>4, <2>5 DEF OfferedIsServed
<1> QED  BY <1>1, TypeCorrect, PTL

--------------------------------------------------------------------------------
(* The generated files                                                      *)

(* Nothing has gone wrong yet.                                              *)
Quiet == outcome = "running" /\ errors = 0 /\ ~abrupt /\ ~litter

(* Before the first rename, all backups so far are the files.               *)
Staging == at = "stage" =>
    /\ Quiet /\ file = before /\ written = {}
    /\ \A n \in Files : n \in staged <=> n < next
    /\ \A n \in Files : n < next => backups[n] = before[n]

(* Between renames, the files before the loop are new, the others as before.*)
Renaming == at \in {"replace", "record"} =>
    /\ Quiet
    /\ \A n \in Files :
          /\ backups[n] = before[n]
          /\ n \in written <=> n < next
          /\ n \in staged <=> n > next \/ (n = next /\ at = "replace")
          /\ file[n] = IF n < next \/ (n = next /\ at = "record") THEN new ELSE before[n]

(* In a rollback, what is not to be restored is as before.                  *)
RollingBack == at \in {"rollback", "recover"} /\ ~abrupt =>
    /\ outcome = "failed" /\ errors >= 1 /\ ~litter
    /\ \A n \in Files : IF n \in written THEN backups[n] = before[n] ELSE file[n] = before[n]

(* In the end it is all or nothing, if only one call has failed.            *)
Ending == at = "cleanup" /\ ~abrupt =>
    \/ Quiet /\ staged = {} /\ \A n \in Files : file[n] = new
    \/ outcome = "failed" /\ errors >= 1 /\ (errors < 2 => file = before /\ ~litter)

Ended == at \in {"idle", "checked"} /\ ~abrupt =>
    /\ outcome = "succeeded" => (\A n \in Files : file[n] = new) /\ staged = {} /\ ~litter
    /\ outcome = "failed" /\ errors < 2 => file = before /\ staged = {} /\ ~litter
    /\ outcome # "running"

Checked == at = "checked" => Fits(file)

OutputsParts == Staging /\ Renaming /\ RollingBack /\ Ending /\ Ended /\ Checked /\ CommitFits

OutputsInv == OutputsTypeOK /\ OutputsParts

(* There is a first file.                                                   *)
LEMMA OneIsFile == 1 \in Files
  BY LastAssumption DEF Files

(* At first the files are those of the repository, and fit or are missing.  *)
LEMMA InitOutputsInv == OutputsInit => OutputsInv
<1> SUFFICES ASSUME OutputsInit PROVE OutputsInv
  OBVIOUS
<1> USE LastAssumption, ErrorsAssumption DEF OutputsInit, Files
<1>1. OutputsTypeOK
  <2>1. commit \in [Files -> Generations \cup {Missing}]  OBVIOUS
  <2>2. backups \in [Files -> Generations \cup {Missing}]  OBVIOUS
  <2>3. errors \in 0 .. MaxErrors  OBVIOUS
  <2> QED  BY OneIsFile, <2>1, <2>2, <2>3 DEF OutputsTypeOK, Labels
<1>2. Staging /\ Renaming /\ RollingBack /\ Ending /\ Ended /\ Checked
  BY DEF Staging, Renaming, RollingBack, Ending, Ended, Checked
<1>3. CommitFits
  <2>1. PICK g \in Generations \cup {Missing} : commit = [n \in Files |-> g]  OBVIOUS
  <2>2. CASE g = Missing  BY <2>1, <2>2 DEF CommitFits
  <2>3. CASE g \in Generations  BY <2>1, <2>3 DEF CommitFits, Fits
  <2> QED  BY <2>1, <2>2, <2>3
<1> QED  BY <1>1, <1>2, <1>3 DEF OutputsInv, OutputsParts

(* Types are kept.                                                          *)
LEMMA NextOutputsTypeOK == OutputsTypeOK /\ [OutputsNext]_outputsVars => OutputsTypeOK'
<1> SUFFICES ASSUME OutputsTypeOK, [OutputsNext]_outputsVars PROVE OutputsTypeOK'
  OBVIOUS
<1> USE LastAssumption, ErrorsAssumption DEF OutputsTypeOK, Labels, Files, script
<1>1. CASE \E g \in Generations : Start(g)
  <2>1. backups' \in [Files -> Generations \cup {Missing}]  BY <1>1 DEF Start
  <2>2. errors' \in 0 .. MaxErrors  BY <1>1 DEF Start
  <2>3. before' \in [Files -> Generations \cup {Missing}]  BY <1>1 DEF Start
  <2>4. next' \in Files  BY <1>1, OneIsFile DEF Start
  <2> QED  BY <1>1, <2>1, <2>2, <2>3, <2>4 DEF Start
<1>2. CASE Stage  BY <1>2 DEF Stage
<1>3. CASE Replace  BY <1>3 DEF Replace
<1>4. CASE Record  BY <1>4 DEF Record
<1>5. CASE Fails  BY <1>5 DEF Fails, Error
<1>6. CASE Rollback  BY <1>6 DEF Rollback, LastWritten, Restore
<1>7. CASE Recover  BY <1>7 DEF Recover, LastWritten, Restore
<1>8. CASE RollbackFails  BY <1>8 DEF RollbackFails, Error
<1>9. CASE RolledBack  BY <1>9 DEF RolledBack
<1>10. CASE Cleanup  BY <1>10 DEF Cleanup
<1>11. CASE CleanupFails  BY <1>11 DEF CleanupFails, Error
<1>12. CASE Interrupt  BY <1>12 DEF Interrupt
<1>13. CASE Crash  BY <1>13 DEF Crash
<1>14. CASE Check  BY <1>14 DEF Check
<1>15. CASE Commit  BY <1>15 DEF Commit
<1>16. CASE Checkout  BY <1>16 DEF Checkout
<1>17. CASE UNCHANGED outputsVars  BY <1>17 DEF outputsVars
<1> QED
  BY <1>1, <1>2, <1>3, <1>4, <1>5, <1>6, <1>7, <1>8, <1>9, <1>10, <1>11, <1>12, <1>13, <1>14,
     <1>15, <1>16, <1>17 DEF OutputsNext, ReplaceOutputs

(* And so are the other parts.                                              *)
LEMMA NextOutputsParts == OutputsInv /\ [OutputsNext]_outputsVars => OutputsParts'
<1> SUFFICES ASSUME OutputsInv, [OutputsNext]_outputsVars PROVE OutputsParts'
  OBVIOUS
<1> USE LastAssumption
    DEF OutputsInv, OutputsParts, OutputsTypeOK, Labels, Files, script, Quiet, Staging, Renaming, RollingBack, Ending, Ended,
        Checked, CommitFits, Fits
<1>1. CASE \E g \in Generations : Start(g)  BY <1>1 DEF Start
<1>2. CASE Stage  BY <1>2 DEF Stage
<1>3. CASE Replace  BY <1>3 DEF Replace
<1>4. CASE Record  BY <1>4 DEF Record
<1>5. CASE Fails  BY <1>5 DEF Fails, Error
<1>6. CASE Rollback  BY <1>6 DEF Rollback, LastWritten, Restore
<1>7. CASE Recover  BY <1>7 DEF Recover, LastWritten, Restore
<1>8. CASE RollbackFails  BY <1>8 DEF RollbackFails, Error
<1>9. CASE RolledBack  BY <1>9 DEF RolledBack
<1>10. CASE Cleanup  BY <1>10 DEF Cleanup
<1>11. CASE CleanupFails
  <2>1. ~abrupt => outcome = "failed" /\ errors >= 1  BY <1>11 DEF CleanupFails
  <2>2. ~abrupt => ~(errors' < 2)  BY <1>11, <2>1 DEF CleanupFails, Error
  <2>3. abrupt' = abrupt /\ at' = "idle" /\ outcome' = "failed" /\ UNCHANGED commit
    BY <1>11 DEF CleanupFails
  <2> QED  BY <2>2, <2>3
<1>12. CASE Interrupt  BY <1>12 DEF Interrupt
<1>13. CASE Crash  BY <1>13 DEF Crash
<1>14. CASE Check  BY <1>14 DEF Check
<1>15. CASE Commit  BY <1>15 DEF Commit
<1>16. CASE Checkout  BY <1>16 DEF Checkout
<1>17. CASE UNCHANGED outputsVars  BY <1>17 DEF outputsVars
<1> QED
  BY <1>1, <1>2, <1>3, <1>4, <1>5, <1>6, <1>7, <1>8, <1>9, <1>10, <1>11, <1>12, <1>13, <1>14,
     <1>15, <1>16, <1>17 DEF OutputsNext, ReplaceOutputs

(* The invariant holds throughout.                                          *)
THEOREM OutputsInvariance == OutputsSpec => []OutputsInv
<1>1. OutputsInit => OutputsInv  BY InitOutputsInv
<1>2. OutputsInv /\ [OutputsNext]_outputsVars => OutputsInv'  BY NextOutputsTypeOK, NextOutputsParts DEF OutputsInv
<1> QED  BY <1>1, <1>2, PTL DEF OutputsSpec

(* Types.                                                                   *)
THEOREM OutputsTypeCorrect == OutputsSpec => []OutputsTypeOK
<1>1. OutputsInv => OutputsTypeOK  BY DEF OutputsInv
<1> QED  BY <1>1, OutputsInvariance, PTL

(* A run of the script replaces all files or, if one call fails, none.      *)
THEOREM ReplacesAllOrNothing == OutputsSpec => []AllOrNothing
<1>1. OutputsInv => AllOrNothing  BY DEF OutputsInv, OutputsParts, Ended, AllOrNothing
<1> QED  BY <1>1, OutputsInvariance, PTL

(* The repository never holds files that do not fit together.               *)
THEOREM CommitsFit == OutputsSpec => []CommitFits
<1>1. OutputsInv => CommitFits  BY DEF OutputsInv, OutputsParts
<1> QED  BY <1>1, OutputsInvariance, PTL
================================================================================
