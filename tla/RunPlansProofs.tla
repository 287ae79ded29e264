--------------------------- MODULE RunPlansProofs ---------------------------
(***************************************************************************)
(* Proofs about run plans, for any finite catalog of components, any       *)
(* sessions and any tool configurations, with components mounted and       *)
(* deactivated at any time between an admission and its resumes.           *)
(***************************************************************************)
EXTENDS RunPlans, FiniteSetTheorems, TLAPS

\* Components that one registry has at a time: their ids differ and the
\* registrar accepted each.
Host(S) ==
    /\ S \subseteq Catalog
    /\ \A c, d \in S : c.id = d.id => c = d
    /\ \A c \in S : Installs(c)

\* Where two tools of mounted components both apply their names differ.
Apart ==
    \A c, d \in mounted : \A t \in c.tools, u \in d.tools :
      <<c, t>> # <<d, u>> => ~(t.name = u.name /\ toolScopesOverlap(t.scope, u.scope))

\* A component with a registration for the target.
applies(c, target) ==
    \E s \in payloadScopes(c) \cup {h.scope : h \in c.hooks} : ScopeApplies(s, target)

admission(s, config, snap) ==
    [kind |-> "fresh", session |-> s, config |-> config, snap |-> snap]

\* Nothing in the acquisition refuses the plan.
Accepted(k, failed) == toolSearchConfig(k) /\ NewRunPlan(k, failed)

\* What a durable run remembers is one accepted admission.
RunFine ==
    /\ run.session \in Sessions /\ Host(run.owners)
    /\ \A c \in run.owners : applies(c, run.session)
    /\ run.descriptor = descriptor(run.admitted)
    /\ \E config \in Configs :
         LET k == admission(run.session, config, run.owners)
         IN  run.admitted = compiled(k, run.failed) /\ Accepted(k, run.failed)

\* The instances the descriptor records, and that they are all that the plan
\* was made of.
recordedIds == {d.id : d \in run.descriptor.components}

Recorded == \A c \in run.owners : contributed(c) => c.id \in recordedIds

FreshFine ==
    \E s \in Sessions, config \in Configs :
      /\ call = admission(s, config, call.snap)
      /\ Host(call.snap) /\ \A c \in call.snap : applies(c, s)

\* A resume looks at the admitted components that are recorded, if all are
\* still mounted.
ResumeFine ==
    /\ RunFine /\ call.snap \subseteq Catalog
    /\ call.session = run.session /\ call.descriptor = run.descriptor
    /\ call.intact /\ Recorded => call.snap = {c \in run.owners : c.id \in recordedIds}

CallFine ==
    call # idle =>
      /\ plan = None /\ leases = call.snap
      /\ call.kind = "fresh" \/ call.kind = "resume"
      /\ call.kind = "fresh" => FreshFine
      /\ call.kind = "resume" => ResumeFine

PlanFine ==
    plan # None =>
      /\ RunFine /\ plan = run.admitted
      /\ {f.id : f \in plan.parts} \subseteq {c.id : c \in leases}

\* The inductive invariant.
PlansInv ==
    /\ Host(mounted) /\ Apart
    /\ run # None => RunFine
    /\ CallFine /\ PlanFine
    /\ call = idle /\ plan = None => leases = {}

-----------------------------------------------------------------------------
(* What a plan is made of.                                                 *)

\* The part of component c in the plan that call k compiles.
partOf(k, failed, c) ==
    [id |-> c.id, artifact |-> c.artifact,
     hooks |-> At(c.hooks, k.session),
     tools |-> {t \in At(c.tools, k.session) : selects(k, c, t)},
     prompts |-> {p \in c.prompts : promptWins(p, k.snap, k.session)},
     guards |-> At(c.guards, k.session),
     restrictions |-> At(c.restrictions, k.session),
     handlers |-> {[h EXCEPT !.tools = discoverHandlerTools(h, failed)] :
                       h \in At(c.handlers, k.session)}]

\* A plan has the parts of its components that do anything (compileRunPlan).
LEMMA PartsAre ==
  ASSUME NEW k, NEW failed, NEW f
  PROVE  f \in compiled(k, failed).parts
           <=> behaves(f) /\ \E c \in k.snap : f = partOf(k, failed, c)
BY Zenon DEF compiled, compileRunPlan, components, partOf

\* The part of a compiled plan is the part of a component of the snapshot.
LEMMA PartFrom ==
  ASSUME NEW k, NEW failed, NEW f \in compiled(k, failed).parts
  PROVE  behaves(f) /\ \E c \in k.snap : f = partOf(k, failed, c)
BY Zenon DEF compiled, compileRunPlan, components, partOf

\* A part is made of what its component registers.
LEMMA PartTyped ==
  ASSUME PlanData, NEW k, NEW failed, NEW c \in Catalog
  PROVE  partOf(k, failed, c) \in Part
<1> DEFINE f == partOf(k, failed, c)
<1>1. \A h \in c.handlers : h = [h EXCEPT !.tools = h.tools]
  BY DEF PlanData, wellFormed
<1>2. \A h \in c.handlers :
        [h EXCEPT !.tools = discoverHandlerTools(h, failed)] \in {h, [h EXCEPT !.tools = {}]}
  BY <1>1, Zenon DEF discoverHandlerTools
<1>3. {[h EXCEPT !.tools = discoverHandlerTools(h, failed)] : h \in At(c.handlers, k.session)}
        \subseteq UNION {UNION {{h, [h EXCEPT !.tools = {}]} : h \in d.handlers} : d \in Catalog}
  <2>1. ASSUME NEW h \in At(c.handlers, k.session)
        PROVE  [h EXCEPT !.tools = discoverHandlerTools(h, failed)]
                 \in UNION {{g, [g EXCEPT !.tools = {}]} : g \in c.handlers}
    <3>1. h \in c.handlers
      BY Zenon DEF At
    <3>2. QED
      BY <3>1, <1>2, Zenon
  <2>2. QED
    BY <2>1, Zenon
<1>4. /\ At(c.hooks, k.session) \subseteq UNION {d.hooks : d \in Catalog}
      /\ {t \in At(c.tools, k.session) : selects(k, c, t)} \subseteq UNION {d.tools : d \in Catalog}
      /\ {p \in c.prompts : promptWins(p, k.snap, k.session)}
           \subseteq UNION {d.prompts : d \in Catalog}
      /\ At(c.guards, k.session) \subseteq UNION {d.guards : d \in Catalog}
      /\ At(c.restrictions, k.session) \subseteq UNION {d.restrictions : d \in Catalog}
  BY Zenon DEF At
<1>5. c.id \in {d.id : d \in Catalog} /\ c.artifact \in {d.artifact : d \in Catalog}
  BY Zenon
<1>6. QED
  BY <1>3, <1>4, <1>5, Zenon DEF partOf, Part

\* The result of a compilation is a plan, and so not None.
LEMMA CompiledIsPlan ==
  ASSUME PlanData, NEW k, NEW failed, k.snap \subseteq Catalog
  PROVE  compiled(k, failed) \in Plan /\ compiled(k, failed) # None
<1>1. compiled(k, failed).parts \subseteq Part
  <2>1. ASSUME NEW f \in compiled(k, failed).parts
        PROVE  f \in Part
    <3>1. PICK c \in k.snap : f = partOf(k, failed, c)
      BY PartFrom, Zenon
    <3>2. c \in Catalog
      BY <3>1, Zenon
    <3>3. QED
      BY <3>1, <3>2, PartTyped, Zenon
  <2>2. QED
    BY <2>1, Zenon
<1>2. compiled(k, failed).search
        \in {None} \cup {r.name : r \in UNION {c.search : c \in Catalog}}
  <2>1. searches(k) \subseteq UNION {c.search : c \in Catalog}
    BY Zenon DEF searches, At
  <2>2. CASE searches(k) = {}
    BY <2>2, Zenon DEF compiled
  <2>3. CASE searches(k) # {}
    <3>1. (CHOOSE r \in searches(k) : TRUE) \in searches(k)
      BY <2>3, Zenon
    <3>2. QED
      BY <2>1, <2>3, <3>1, Zenon DEF compiled
  <2>4. QED
    BY <2>2, <2>3, Zenon
<1>3. compiled(k, failed) \in Plan
  BY <1>1, <1>2, Zenon DEF compiled, Plan
<1>4. QED
  BY <1>3, Zenon DEF PlanData

-----------------------------------------------------------------------------
(* The sealed identity tells plans apart.                                  *)

\* The registrations a part has are records of their fields.
LEMMA PartShape ==
  ASSUME PlanData, NEW f \in Part
  PROVE  /\ \A t \in f.tools : t = [id |-> t.id, name |-> t.name, scope |-> t.scope,
                                    aliases |-> t.aliases, schema |-> t.schema]
         /\ \A t \in f.tools : None \notin {t.name} \cup t.aliases
         /\ \A r \in f.restrictions : r = [id |-> r.id, scope |-> r.scope,
                                           allowed |-> r.allowed, denied |-> r.denied]
         /\ \A h \in f.handlers : h = [id |-> h.id, scope |-> h.scope, kind |-> h.kind,
                                       config |-> h.config, tools |-> h.tools]
<1>1. /\ f.tools \subseteq UNION {c.tools : c \in Catalog}
      /\ f.restrictions \subseteq UNION {c.restrictions : c \in Catalog}
      /\ f.handlers \subseteq
           UNION {UNION {{h, [h EXCEPT !.tools = {}]} : h \in c.handlers} : c \in Catalog}
  BY Zenon DEF Part
<1>2. ASSUME NEW t \in f.tools
      PROVE  /\ t = [id |-> t.id, name |-> t.name, scope |-> t.scope,
                     aliases |-> t.aliases, schema |-> t.schema]
             /\ None \notin {t.name} \cup t.aliases
  <2>1. PICK c \in Catalog : t \in c.tools
    BY <1>1, <1>2, Zenon
  <2>2. QED
    BY <2>1, Zenon DEF PlanData, wellFormed
<1>3. ASSUME NEW r \in f.restrictions
      PROVE  r = [id |-> r.id, scope |-> r.scope, allowed |-> r.allowed, denied |-> r.denied]
  <2>1. PICK c \in Catalog : r \in c.restrictions
    BY <1>1, <1>3, Zenon
  <2>2. QED
    BY <2>1, Zenon DEF PlanData, wellFormed
<1>4. ASSUME NEW h \in f.handlers
      PROVE  h = [id |-> h.id, scope |-> h.scope, kind |-> h.kind,
                  config |-> h.config, tools |-> h.tools]
  <2>1. PICK c \in Catalog : h \in UNION {{g, [g EXCEPT !.tools = {}]} : g \in c.handlers}
    BY <1>1, <1>4, ZenonT(60)
  <2>2. PICK g \in c.handlers : h = g \/ h = [g EXCEPT !.tools = {}]
    BY <2>1, Zenon
  <2>3. g = [id |-> g.id, scope |-> g.scope, kind |-> g.kind,
             config |-> g.config, tools |-> g.tools]
    BY <2>2, Zenon DEF PlanData, wellFormed
  <2>4. CASE h = g
    BY <2>3, <2>4, Zenon
  <2>5. CASE h = [g EXCEPT !.tools = {}]
    BY <2>3, <2>5
  <2>6. QED
    BY <2>2, <2>4, <2>5, Zenon
<1>5. QED
  BY <1>2, <1>3, <1>4, Zenon

\* What componentPlan leaves as it is, and what it makes of the rest.
LEMMA ComponentPlanIs ==
  ASSUME NEW f \in Part
  PROVE  LET d == componentPlan(f)
         IN  /\ d.id = f.id /\ d.artifact = f.artifact /\ d.hooks = f.hooks
             /\ d.prompts = f.prompts /\ d.guards = f.guards
             /\ d.tools = {toolPlanIdentity(t, f.artifact) : t \in f.tools}
             /\ d.restrictions = {restrictionIdentity(r) : r \in f.restrictions}
             /\ d.handlers = {agentHandlerIdentity(h) : h \in f.handlers}
BY DEF componentPlan, Part

\* Two parts with one identity are the same part (toolSchemaHash and the other
\* hashes cover every field).
LEMMA PartInjective ==
  ASSUME PlanData, NEW f \in Part, NEW g \in Part, componentPlan(f) = componentPlan(g)
  PROVE  f = g
<1>1. /\ f.id = g.id /\ f.artifact = g.artifact /\ f.hooks = g.hooks
      /\ f.prompts = g.prompts /\ f.guards = g.guards
      /\ {toolPlanIdentity(t, f.artifact) : t \in f.tools}
           = {toolPlanIdentity(t, g.artifact) : t \in g.tools}
      /\ {restrictionIdentity(r) : r \in f.restrictions}
           = {restrictionIdentity(r) : r \in g.restrictions}
      /\ {agentHandlerIdentity(h) : h \in f.handlers}
           = {agentHandlerIdentity(h) : h \in g.handlers}
  BY ComponentPlanIs, ZenonT(60)
<1>2. ASSUME NEW t \in f.tools, NEW u \in g.tools, NEW a, NEW b,
             toolPlanIdentity(t, a) = toolPlanIdentity(u, b)
      PROVE  t = u
  <2>1. t.id = u.id /\ t.name = u.name /\ t.scope = u.scope /\ toolSchemaHash(t) = toolSchemaHash(u)
    BY <1>2 DEF toolPlanIdentity
  <2>2. t.aliases = u.aliases /\ t.schema = u.schema
    BY <2>1 DEF toolSchemaHash
  <2>3. QED
    BY <2>1, <2>2, PartShape, Zenon
<1>3. ASSUME NEW r \in f.restrictions, NEW q \in g.restrictions,
             restrictionIdentity(r) = restrictionIdentity(q)
      PROVE  r = q
  <2>1. r.id = q.id /\ r.scope = q.scope /\ r.allowed = q.allowed /\ r.denied = q.denied
    BY <1>3 DEF restrictionIdentity
  <2>2. QED
    BY <2>1, PartShape, Zenon
<1>4. ASSUME NEW h \in f.handlers, NEW q \in g.handlers,
             agentHandlerIdentity(h) = agentHandlerIdentity(q)
      PROVE  h = q
  <2>1. /\ h.id = q.id /\ h.scope = q.scope /\ h.kind = q.kind /\ h.config = q.config
        /\ h.tools = q.tools
    BY <1>4 DEF agentHandlerIdentity
  <2>2. QED
    BY <2>1, PartShape, Zenon
<1>5. f.tools = g.tools
  <2>1. ASSUME NEW x \in f.tools
        PROVE  x \in g.tools
    <3>1. PICK y \in g.tools : toolPlanIdentity(x, f.artifact) = toolPlanIdentity(y, g.artifact)
      BY <1>1, Zenon
    <3>2. QED
      BY <3>1, <1>2, Zenon
  <2>2. ASSUME NEW y \in g.tools
        PROVE  y \in f.tools
    <3>1. PICK x \in f.tools : toolPlanIdentity(x, f.artifact) = toolPlanIdentity(y, g.artifact)
      BY <1>1, Zenon
    <3>2. QED
      BY <3>1, <1>2, Zenon
  <2>3. QED
    BY <2>1, <2>2, Zenon
<1>6. f.restrictions = g.restrictions
  <2>1. ASSUME NEW x \in f.restrictions
        PROVE  x \in g.restrictions
    <3>1. restrictionIdentity(x) \in {restrictionIdentity(e) : e \in f.restrictions}
      BY Zenon
    <3>2. restrictionIdentity(x) \in {restrictionIdentity(e) : e \in g.restrictions}
      BY <1>1, <3>1, Zenon
    <3>3. PICK y \in g.restrictions : restrictionIdentity(x) = restrictionIdentity(y)
      BY <3>2, Zenon
    <3>4. QED
      BY <3>3, <1>3, Zenon
  <2>2. ASSUME NEW y \in g.restrictions
        PROVE  y \in f.restrictions
    <3>1. restrictionIdentity(y) \in {restrictionIdentity(e) : e \in g.restrictions}
      BY Zenon
    <3>2. restrictionIdentity(y) \in {restrictionIdentity(e) : e \in f.restrictions}
      BY <1>1, <3>1, Zenon
    <3>3. PICK x \in f.restrictions : restrictionIdentity(x) = restrictionIdentity(y)
      BY <3>2, Zenon
    <3>4. QED
      BY <3>3, <1>3, Zenon
  <2>3. QED
    BY <2>1, <2>2, Zenon
<1>7. f.handlers = g.handlers
  <2>1. ASSUME NEW x \in f.handlers
        PROVE  x \in g.handlers
    <3>1. agentHandlerIdentity(x) \in {agentHandlerIdentity(e) : e \in f.handlers}
      BY Zenon
    <3>2. agentHandlerIdentity(x) \in {agentHandlerIdentity(e) : e \in g.handlers}
      BY <1>1, <3>1, Zenon
    <3>3. PICK y \in g.handlers : agentHandlerIdentity(x) = agentHandlerIdentity(y)
      BY <3>2, Zenon
    <3>4. QED
      BY <3>3, <1>4, Zenon
  <2>2. ASSUME NEW y \in g.handlers
        PROVE  y \in f.handlers
    <3>1. agentHandlerIdentity(y) \in {agentHandlerIdentity(e) : e \in g.handlers}
      BY Zenon
    <3>2. agentHandlerIdentity(y) \in {agentHandlerIdentity(e) : e \in f.handlers}
      BY <1>1, <3>1, Zenon
    <3>3. PICK x \in f.handlers : agentHandlerIdentity(x) = agentHandlerIdentity(y)
      BY <3>2, Zenon
    <3>4. QED
      BY <3>3, <1>4, Zenon
  <2>3. QED
    BY <2>1, <2>2, Zenon
<1>8. QED
  BY <1>1, <1>5, <1>6, <1>7 DEF Part

\* A descriptor belongs to one plan.
LEMMA SamePlan ==
  ASSUME PlanData, NEW p \in Plan, NEW q \in Plan, descriptor(p) = descriptor(q)
  PROVE  p = q
<1>1. /\ {componentPlan(f) : f \in p.parts} = {componentPlan(f) : f \in q.parts}
      /\ p.search = q.search
  BY DEF descriptor
<1>2. p.parts \subseteq Part /\ q.parts \subseteq Part
  BY Zenon DEF Plan
<1>3. p.parts = q.parts
  <2>1. ASSUME NEW f \in p.parts
        PROVE  f \in q.parts
    <3>1. componentPlan(f) \in {componentPlan(e) : e \in p.parts}
      BY Zenon
    <3>2. componentPlan(f) \in {componentPlan(e) : e \in q.parts}
      BY <1>1, <3>1, Zenon
    <3>3. PICK g \in q.parts : componentPlan(f) = componentPlan(g)
      BY <3>2, Zenon
    <3>4. QED
      BY <3>3, <1>2, PartInjective, Zenon
  <2>2. ASSUME NEW g \in q.parts
        PROVE  g \in p.parts
    <3>1. componentPlan(g) \in {componentPlan(e) : e \in q.parts}
      BY Zenon
    <3>2. componentPlan(g) \in {componentPlan(e) : e \in p.parts}
      BY <1>1, <3>1, Zenon
    <3>3. PICK f \in p.parts : componentPlan(f) = componentPlan(g)
      BY <3>2, Zenon
    <3>4. QED
      BY <3>3, <1>2, PartInjective, Zenon
  <2>3. QED
    BY <2>1, <2>2, Zenon
<1>4. QED
  BY <1>1, <1>3 DEF Plan

-----------------------------------------------------------------------------
(* The names of a plan.                                                    *)

\* What is known of the result of a map over a finite set.
LEMMA ImageFinite ==
  ASSUME NEW S, IsFiniteSet(S), NEW g, g = [x \in S |-> g[x]]
  PROVE  IsFiniteSet({g[x] : x \in S})
<1>1. g \in Surjection(S, {g[x] : x \in S})
  BY DEF Surjection
<1>2. QED
  BY <1>1, FS_Surjection, Zenon

\* A catalog has finitely many tools, and so has a plan.
LEMMA OwnedFinite ==
  ASSUME PlanData, NEW parts \in SUBSET Part
  PROVE  IsFiniteSet(ownedTools(parts))
<1> DEFINE Ids == {c.id : c \in Catalog}
           Lists == {c.tools : c \in Catalog}
           Owned == {[owner |-> x[1], value |-> x[2]] : x \in Ids \X UNION Lists}
<1>1. IsFiniteSet(Catalog) /\ \A c \in Catalog : IsFiniteSet(c.tools)
  BY Zenon DEF PlanData, wellFormed
<1>2. IsFiniteSet(Ids)
  <2> DEFINE g == [c \in Catalog |-> c.id]
  <2>1. g = [x \in Catalog |-> g[x]] /\ {g[x] : x \in Catalog} = Ids
    OBVIOUS
  <2> HIDE DEF g
  <2>2. IsFiniteSet({g[x] : x \in Catalog})
    <3>1. IsFiniteSet(Catalog) /\ g = [x \in Catalog |-> g[x]]
      BY <1>1, <2>1, Zenon
    <3>2. QED
      BY <3>1, ImageFinite, Zenon
  <2>3. QED
    BY <2>1, <2>2, Zenon
<1>3. IsFiniteSet(UNION Lists)
  <2> DEFINE g == [c \in Catalog |-> c.tools]
  <2>1. g = [x \in Catalog |-> g[x]] /\ {g[x] : x \in Catalog} = Lists
    OBVIOUS
  <2> HIDE DEF g
  <2>2. IsFiniteSet({g[x] : x \in Catalog})
    <3>1. IsFiniteSet(Catalog) /\ g = [x \in Catalog |-> g[x]]
      BY <1>1, <2>1, Zenon
    <3>2. QED
      BY <3>1, ImageFinite, Zenon
  <2>3. IsFiniteSet(Lists)
    BY <2>1, <2>2, Zenon
  <2>4. \A T \in Lists : IsFiniteSet(T)
    BY <1>1, Zenon
  <2> HIDE DEF Lists
  <2>5. QED
    BY <2>3, <2>4, FS_UNION, Zenon
<1>4. IsFiniteSet(Owned)
  <2> DEFINE P == Ids \X UNION Lists
             g == [x \in P |-> [owner |-> x[1], value |-> x[2]]]
  <2>1. IsFiniteSet(P)
    <3> HIDE DEF Ids, Lists
    <3>1. QED
      BY <1>2, <1>3, FS_Product, Zenon
  <2>2. g = [x \in P |-> g[x]] /\ {g[x] : x \in P} = Owned
    BY Zenon
  <2> HIDE DEF g, P, Owned
  <2>3. IsFiniteSet({g[x] : x \in P})
    BY <2>1, <2>2, ImageFinite, Zenon
  <2>4. QED
    BY <2>2, <2>3, Zenon
<1>5. ownedTools(parts) \subseteq Owned
  <2>1. ASSUME NEW o \in ownedTools(parts)
        PROVE  o \in Owned
    <3>1. PICK f \in parts : o \in {[owner |-> f.id, value |-> t] : t \in f.tools}
      BY <2>1, Zenon DEF ownedTools
    <3>2. PICK t \in f.tools : o = [owner |-> f.id, value |-> t]
      BY <3>1, Zenon
    <3>3. f \in Part
      BY <3>1, Zenon
    <3>4. f.id \in Ids /\ f.tools \subseteq UNION Lists
      BY <3>3, Zenon DEF Part
    <3>5. <<f.id, t>> \in Ids \X UNION Lists
      BY <3>2, <3>4, Zenon
    <3>6. o = [owner |-> <<f.id, t>>[1], value |-> <<f.id, t>>[2]]
      BY <3>2
    <3> HIDE DEF Ids, Lists
    <3>7. QED
      BY <3>5, <3>6, Zenon
  <2>2. QED
    BY <2>1, Zenon
<1>6. QED
  <2> HIDE DEF Owned
  <2>1. QED
    BY <1>4, <1>5, FS_Subset, Zenon

\* An owned tool is a tool of a part, and None is neither its name nor its alias.
LEMMA OwnedNamed ==
  ASSUME PlanData, NEW parts \in SUBSET Part, NEW o \in ownedTools(parts)
  PROVE  o.value.name # None /\ None \notin o.value.aliases
<1>1. PICK f \in parts : o \in {[owner |-> f.id, value |-> t] : t \in f.tools}
  BY Zenon DEF ownedTools
<1>2. PICK t \in f.tools : o = [owner |-> f.id, value |-> t]
  BY <1>1, Zenon
<1>3. o.value = t
  BY <1>2
<1>4. f \in Part
  BY <1>1, Zenon
<1>5. None \notin {t.name} \cup t.aliases
  BY <1>2, <1>4, PartShape, Zenon
<1>6. QED
  BY <1>3, <1>5, Zenon

\* What the checks of NewRunPlan say of the names, free of the operator Unique.
TellsApart(parts, search) ==
    /\ \A o, q \in ownedTools(parts) : o.value.name = q.value.name => o = q
    /\ \A o, q \in ownedHandlers(parts) : o.value.id = q.value.id => o = q
    /\ buildToolAliasIndex(parts)
    /\ validateHandlerToolNameCollisions(parts, search)
    /\ search # None => validateToolSearchNameCollision(parts, search)

\* A plan that NewRunPlan makes passed those checks.
LEMMA AcceptedTellsApart ==
  ASSUME NEW k, NEW failed, Accepted(k, failed)
  PROVE  TellsApart(compiled(k, failed).parts, compiled(k, failed).search)
BY Zenon DEF Accepted, NewRunPlan, TellsApart, uniqueCapabilityNames, uniqueAgentHandlerIDs, Unique

\* Every name of an accepted plan means one thing (uniqueCapabilityNames,
\* buildToolAliasIndex, validateHandlerToolNameCollisions).
LEMMA NamesAreApart ==
  ASSUME PlanData, NEW parts \in SUBSET Part, NEW search, TellsApart(parts, search)
  PROVE  namesApart(parts, search)
<1> DEFINE O == ownedTools(parts)
           N == ToolNames(parts)
           A == Aliases(parts)
<1>1. Cardinality(O) = Cardinality(N)
  <2> DEFINE g == [o \in O |-> o.value.name]
  <2>1. \A o, q \in O : o.value.name = q.value.name => o = q
    BY Zenon DEF TellsApart
  <2>2. N = {o.value.name : o \in O}
    BY Zenon DEF ToolNames
  <2>3. IsFiniteSet(O)
    BY OwnedFinite, Zenon
  <2> HIDE DEF O, N
  <2>4. g \in [O -> N] /\ \A n \in N : \E o \in O : g[o] = n
    BY <2>2
  <2>5. \A o, q \in O : g[o] = g[q] => o = q
    BY <2>1
  <2>6. g \in Bijection(O, N)
    <3>1. DOMAIN g = O
      OBVIOUS
    <3> HIDE DEF g
    <3>2. QED
      BY <2>4, <2>5, <3>1, Zenon DEF Bijection, Injection, Surjection, IsInjective
  <2> HIDE DEF g
  <2>7. ExistsBijection(O, N)
    BY <2>6, Zenon DEF ExistsBijection
  <2>8. QED
    BY <2>3, <2>7, FS_Bijection, Zenon
<1>2. ASSUME NEW n \in A
      PROVE  Cardinality({o \in O : n \in o.value.aliases}) = 1
  <2>1. PICK o \in O : n \in o.value.aliases
    BY <1>2, Zenon DEF Aliases
  <2>2. \A q \in O : n \in q.value.aliases => q = o
    BY <2>1, Zenon DEF TellsApart, buildToolAliasIndex
  <2> HIDE DEF O
  <2>3. {q \in O : n \in q.value.aliases} = {o}
    BY <2>1, <2>2, Zenon
  <2>4. QED
    BY <2>3, FS_Singleton, Zenon
<1>3. ASSUME NEW o \in ownedHandlers(parts), NEW n \in o.value.tools
      PROVE  /\ n \notin N \cup A \cup {search}
             /\ \A q \in ownedHandlers(parts) : n \in q.value.tools => q = o
  BY <1>3, Zenon DEF TellsApart, validateHandlerToolNameCollisions
<1>4. N \cap A = {}
  BY Zenon DEF TellsApart, buildToolAliasIndex
<1>5. search \notin N \cup A
  <2>1. CASE search = None
    <3>1. \A o \in O : o.value.name # None /\ None \notin o.value.aliases
      BY OwnedNamed, Zenon
    <3>2. QED
      BY <2>1, <3>1, Zenon DEF ToolNames, Aliases
  <2>2. CASE search # None
    BY <2>2, Zenon DEF TellsApart, validateToolSearchNameCollision
  <2>3. QED
    BY <2>1, <2>2, Zenon
<1>6. QED
  BY <1>1, <1>2, <1>3, <1>4, <1>5, Zenon DEF namesApart

\* Canonical names: a tool's name and its aliases lead to its name, and no
\* other name does (ToolRegistry.canonicalize).
LEMMA Canonical ==
  ASSUME NEW parts, NEW search, TellsApart(parts, search), NEW o \in ownedTools(parts), NEW n
  PROVE  canonicalize(parts, n) = o.value.name <=> n \in {o.value.name} \cup o.value.aliases
<1> DEFINE c == CHOOSE q \in ownedTools(parts) : n \in q.value.aliases
<1>1. n \in Aliases(parts) <=> \E q \in ownedTools(parts) : n \in q.value.aliases
  BY Zenon DEF Aliases
<1>2. n \in Aliases(parts) => c \in ownedTools(parts) /\ n \in c.value.aliases
  BY <1>1, Zenon
<1>3. canonicalize(parts, n) = IF n \in Aliases(parts) THEN c.value.name ELSE n
  BY Zenon DEF canonicalize
<1>4. o.value.name \in ToolNames(parts)
  BY Zenon DEF ToolNames
<1>5. /\ Aliases(parts) \cap ToolNames(parts) = {}
      /\ \A p, q \in ownedTools(parts) : p # q => p.value.aliases \cap q.value.aliases = {}
      /\ \A p, q \in ownedTools(parts) : p.value.name = q.value.name => p = q
  BY Zenon DEF TellsApart, buildToolAliasIndex
<1> HIDE DEF c
<1>6. CASE n \in Aliases(parts)
  <2>1. c \in ownedTools(parts) /\ n \in c.value.aliases /\ canonicalize(parts, n) = c.value.name
    BY <1>2, <1>3, <1>6, Zenon
  <2>2. n # o.value.name
    BY <1>4, <1>5, <1>6, Zenon
  <2>3. c.value.name = o.value.name <=> c = o
    BY <2>1, <1>5, Zenon
  <2>4. c = o <=> n \in o.value.aliases
    BY <2>1, <1>5, Zenon
  <2>5. QED
    BY <2>1, <2>2, <2>3, <2>4, Zenon
<1>7. CASE n \notin Aliases(parts)
  <2>1. canonicalize(parts, n) = n /\ n \notin o.value.aliases
    BY <1>1, <1>3, <1>7, Zenon
  <2>2. QED
    BY <2>1, Zenon
<1>8. QED
  BY <1>6, <1>7, Zenon

\* No name leads to a tool that a restriction of the plan denies or leaves out
\* (planToolAllowed compares canonical names).
LEMMA RestrictedApart ==
  ASSUME NEW search, TellsApart(plan.parts, search)
  PROVE  deniedUnreachable
<1> SUFFICES ASSUME NEW o \in ResolveTools(plan), NEW r \in restrictions(plan.parts)
             PROVE  /\ ({o.value.name} \cup o.value.aliases) \cap r.denied = {}
                    /\ r.allowed # {} => ({o.value.name} \cup o.value.aliases) \cap r.allowed # {}
  BY Zenon DEF deniedUnreachable
<1>1. o \in ownedTools(plan.parts) /\ planToolAllowed(o.value.name, plan.parts)
  BY Zenon DEF ResolveTools
<1>2. /\ o.value.name \notin {canonicalize(plan.parts, n) : n \in r.denied}
      /\ r.allowed # {} => o.value.name \in {canonicalize(plan.parts, n) : n \in r.allowed}
  BY <1>1, Zenon DEF planToolAllowed
<1>3. \A n : canonicalize(plan.parts, n) = o.value.name <=> n \in {o.value.name} \cup o.value.aliases
  BY <1>1, Canonical, Zenon
<1>4. \A n \in r.denied : n \notin {o.value.name} \cup o.value.aliases
  <2>1. \A n \in r.denied : canonicalize(plan.parts, n) # o.value.name
    BY <1>2, Zenon
  <2>2. QED
    BY <2>1, <1>3, Zenon
<1>5. r.allowed # {} => \E n \in r.allowed : n \in {o.value.name} \cup o.value.aliases
  <2>1. r.allowed # {} => \E n \in r.allowed : canonicalize(plan.parts, n) = o.value.name
    BY <1>2, Zenon
  <2>2. QED
    BY <2>1, <1>3, Zenon
<1>6. QED
  BY <1>4, <1>5, Zenon

-----------------------------------------------------------------------------
(* A resume compiles the admitted plan again.                              *)

\* The instances a descriptor records are those of the parts of its plan.
LEMMA RecordedParts ==
  ASSUME NEW p \in Plan, NEW i
  PROVE  i \in {d.id : d \in descriptor(p).components} <=> \E f \in p.parts : f.id = i
<1>1. p.parts \subseteq Part
  BY Zenon DEF Plan
<1>2. descriptor(p).components = {componentPlan(f) : f \in p.parts}
  BY DEF descriptor
<1>3. \A f \in p.parts : componentPlan(f).id = f.id
  BY <1>1, ComponentPlanIs, Zenon
<1>4. QED
  BY <1>2, <1>3, ZenonT(60)

\* The fields of an admission.
LEMMA AdmissionIs ==
  ASSUME NEW s, NEW config, NEW S
  PROVE  LET a == admission(s, config, S)
         IN  a.kind = "fresh" /\ a.session = s /\ a.config = config /\ a.snap = S
BY DEF admission

\* The fields of a part.
LEMMA PartOfIs ==
  ASSUME NEW k, NEW failed, NEW c
  PROVE  LET f == partOf(k, failed, c)
         IN  /\ f.id = c.id /\ f.artifact = c.artifact
             /\ f.tools = {t \in At(c.tools, k.session) : selects(k, c, t)}
             /\ f.prompts = {p \in c.prompts : promptWins(p, k.snap, k.session)}
BY DEF partOf

\* A component is recorded when it does anything in the plan.
LEMMA RecordedBehaves ==
  ASSUME PlanData, NEW k, NEW failed, Host(k.snap), NEW c \in k.snap
  PROVE  c.id \in {d.id : d \in descriptor(compiled(k, failed)).components}
           <=> behaves(partOf(k, failed, c))
<1>1. compiled(k, failed) \in Plan
  BY CompiledIsPlan, Zenon DEF Host
<1>2. c.id \in {d.id : d \in descriptor(compiled(k, failed)).components}
        <=> \E f \in compiled(k, failed).parts : f.id = c.id
  BY <1>1, RecordedParts, Zenon
<1>3. ASSUME NEW f \in compiled(k, failed).parts, f.id = c.id
      PROVE  behaves(partOf(k, failed, c))
  <2>1. PICK e \in k.snap : f = partOf(k, failed, e) /\ behaves(f)
    BY <1>3, PartFrom, Zenon
  <2>2. e.id = c.id
    BY <1>3, <2>1, PartOfIs
  <2>3. e = c
    BY <2>2, Zenon DEF Host
  <2>4. QED
    BY <2>1, <2>3, Zenon
<1>4. ASSUME behaves(partOf(k, failed, c))
      PROVE  \E f \in compiled(k, failed).parts : f.id = c.id
  <2>1. partOf(k, failed, c) \in compiled(k, failed).parts
    BY <1>4, PartsAre, Zenon
  <2>2. partOf(k, failed, c).id = c.id
    BY PartOfIs
  <2>3. QED
    BY <2>1, <2>2, Zenon
<1>5. QED
  BY <1>2, <1>3, <1>4, Zenon

\* The persisted selector chooses the tools that the admission chose: a
\* component has one tool of a name in a scope (registrar.Tool).
LEMMA SameTools ==
  ASSUME PlanData, NEW a, NEW failed, Host(a.snap), NEW c \in a.snap, NEW t \in c.tools,
         ScopeApplies(t.scope, a.session),
         c.id \in {d.id : d \in descriptor(compiled(a, failed)).components}
  PROVE  persistedToolSelector(descriptor(compiled(a, failed)), c, t) <=> selects(a, c, t)
<1> DEFINE f == partOf(a, failed, c)
           D == descriptor(compiled(a, failed))
           id(u) == toolPlanIdentity(u, f.artifact)
<1>1. f \in Part /\ compiled(a, failed) \in Plan
  BY PartTyped, CompiledIsPlan, Zenon DEF Host
<1>2. f \in compiled(a, failed).parts
  BY RecordedBehaves, PartsAre, Zenon
<1>3. D.components = {componentPlan(g) : g \in compiled(a, failed).parts}
  BY DEF descriptor
<1>4. componentPlan(f).id = c.id /\ componentPlan(f).tools = {id(u) : u \in f.tools}
  <2>1. f.id = c.id
    BY PartOfIs
  <2>2. componentPlan(f).id = f.id /\ componentPlan(f).tools = {toolPlanIdentity(u, f.artifact) : u \in f.tools}
    <3> HIDE DEF f
    <3>1. QED
      BY <1>1, ComponentPlanIs, Zenon
  <2>3. QED
    BY <2>1, <2>2, Zenon
<1>5. \A u : u \in f.tools <=> u \in c.tools /\ ScopeApplies(u.scope, a.session) /\ selects(a, c, u)
  <2>1. f.tools = {u \in At(c.tools, a.session) : selects(a, c, u)}
    BY PartOfIs
  <2>2. QED
    BY <2>1, Zenon DEF At
<1>6. \A u : id(u).id = u.id /\ id(u).name = u.name /\ id(u).scope = u.scope
  BY DEF toolPlanIdentity
<1>7. ASSUME NEW d \in D.components, d.id = c.id
      PROVE  d = componentPlan(f)
  <2>1. PICK g \in compiled(a, failed).parts : d = componentPlan(g)
    BY <1>3, <1>7, Zenon
  <2>2. PICK e \in a.snap : g = partOf(a, failed, e)
    BY <2>1, PartFrom, Zenon
  <2>3. e \in Catalog
    BY <2>2, Zenon DEF Host
  <2>4. g \in Part
    BY <2>2, <2>3, PartTyped, Zenon
  <2>5. d.id = e.id
    <3>1. g.id = e.id
      BY <2>2, PartOfIs
    <3>2. componentPlan(g).id = g.id
      BY <2>4, ComponentPlanIs, Zenon
    <3>3. QED
      BY <2>1, <3>1, <3>2, Zenon
  <2>6. e = c
    BY <2>5, <1>7, Zenon DEF Host
  <2>7. QED
    BY <2>1, <2>2, <2>6, Zenon
<1> HIDE DEF f, D, id
<1>8. ASSUME persistedToolSelector(D, c, t)
      PROVE  selects(a, c, t)
  <2>1. PICK d \in D.components : d.id = c.id /\
           \E v \in d.tools : <<v.id, v.name, v.scope>> = <<t.id, t.name, t.scope>>
    BY <1>8, Zenon DEF persistedToolSelector
  <2>2. d.tools = {id(u) : u \in f.tools}
    BY <2>1, <1>4, <1>7, Zenon
  <2>3. PICK v \in d.tools : <<v.id, v.name, v.scope>> = <<t.id, t.name, t.scope>>
    BY <2>1, Zenon
  <2>4. PICK u \in f.tools : v = id(u)
    BY <2>2, <2>3, Zenon
  <2>5. u.name = t.name /\ u.scope = t.scope
    BY <2>3, <2>4, <1>6
  <2>6. u \in c.tools
    BY <2>4, <1>5, Zenon
  <2>7. \A x, y \in c.tools : <<x.name, x.scope>> = <<y.name, y.scope>> => x = y
    BY Zenon DEF Host, Installs, Tool, Unique
  <2>8. <<u.name, u.scope>> = <<t.name, t.scope>>
    BY <2>5, Zenon
  <2>9. u = t
    BY <2>6, <2>7, <2>8, Zenon
  <2>10. QED
    BY <2>4, <2>9, <1>5, Zenon
<1>9. ASSUME selects(a, c, t)
      PROVE  persistedToolSelector(D, c, t)
  <2>1. t \in f.tools
    BY <1>5, <1>9, Zenon
  <2>2. componentPlan(f) \in D.components
    BY <1>2, <1>3, Zenon
  <2>3. id(t) \in componentPlan(f).tools
    BY <2>1, <1>4, Zenon
  <2>4. <<id(t).id, id(t).name, id(t).scope>> = <<t.id, t.name, t.scope>>
    BY <1>6, Zenon
  <2>5. QED
    BY <2>2, <2>3, <2>4, <1>4, Zenon DEF persistedToolSelector
<1>10. QED
  BY <1>8, <1>9, Zenon DEF D

\* What a resume looks at: the recorded components of the admission, among
\* them every one that brings a search.
Again(k, a, failed) ==
    LET D == descriptor(compiled(a, failed))
        ids == {d.id : d \in D.components}
    IN  /\ k.kind = "resume" /\ k.session = a.session /\ k.descriptor = D
        /\ k.snap = {c \in a.snap : c.id \in ids}
        /\ \A c \in a.snap : At(c.search, a.session) # {} => c.id \in ids

\* A prompt of the session is in the plan, so what shadows a prompt is recorded.
LEMMA SamePrompts ==
  ASSUME PlanData, NEW a, NEW failed, Host(a.snap), a.session \in Sessions,
         NEW k, Again(k, a, failed), NEW p
  PROVE  promptWins(p, k.snap, k.session) <=> promptWins(p, a.snap, a.session)
<1>1. k.session = a.session /\ k.snap \subseteq a.snap
  BY Zenon DEF Again
<1>2. ASSUME NEW c \in a.snap, NEW q \in c.prompts, q.scope = a.session
      PROVE  c \in k.snap
  <2>1. promptWins(q, a.snap, a.session)
    BY <1>2, Zenon DEF promptWins, ScopeApplies, PlanData
  <2>2. q \in partOf(a, failed, c).prompts
    <3>1. partOf(a, failed, c).prompts = {x \in c.prompts : promptWins(x, a.snap, a.session)}
      BY PartOfIs
    <3>2. QED
      BY <2>1, <3>1, Zenon
  <2>3. behaves(partOf(a, failed, c))
    BY <2>2, Zenon DEF behaves
  <2>4. c.id \in {d.id : d \in descriptor(compiled(a, failed)).components}
    BY <2>3, RecordedBehaves, Zenon
  <2>5. QED
    BY <2>4, Zenon DEF Again
<1>3. QED
  BY <1>1, <1>2, Zenon DEF promptWins

\* The part of a recorded component is the same again.
LEMMA SamePart ==
  ASSUME PlanData, NEW a, a.kind = "fresh", NEW failed, Host(a.snap), a.session \in Sessions,
         NEW k, Again(k, a, failed), NEW c \in k.snap
  PROVE  partOf(k, failed, c) = partOf(a, failed, c)
<1> DEFINE toolsOf(x) == {t \in At(c.tools, x.session) : selects(x, c, t)}
           promptsOf(x) == {p \in c.prompts : promptWins(p, x.snap, x.session)}
<1>1. /\ k.session = a.session /\ c \in a.snap /\ k.kind = "resume"
      /\ k.descriptor = descriptor(compiled(a, failed))
      /\ c.id \in {d.id : d \in descriptor(compiled(a, failed)).components}
  BY Zenon DEF Again
<1>2. \A t : selects(k, c, t) <=> persistedToolSelector(descriptor(compiled(a, failed)), c, t)
  BY <1>1 DEF selects
<1>3. \A t \in At(c.tools, a.session) : selects(k, c, t) <=> selects(a, c, t)
  <2>1. ASSUME NEW t \in At(c.tools, a.session)
        PROVE  selects(k, c, t) <=> selects(a, c, t)
    <3>1. t \in c.tools /\ ScopeApplies(t.scope, a.session)
      BY <2>1, Zenon DEF At
    <3>2. persistedToolSelector(descriptor(compiled(a, failed)), c, t) <=> selects(a, c, t)
      BY <1>1, <3>1, SameTools, Zenon
    <3>3. QED
      BY <1>2, <3>2, Zenon
  <2>2. QED
    BY <2>1, Zenon
<1>4. toolsOf(k) = toolsOf(a)
  BY <1>1, <1>3, Zenon
<1>5. promptsOf(k) = promptsOf(a)
  BY SamePrompts, Zenon
<1> HIDE DEF toolsOf, promptsOf
<1>6. \A x : partOf(x, failed, c) =
         [id |-> c.id, artifact |-> c.artifact, hooks |-> At(c.hooks, x.session),
          tools |-> toolsOf(x), prompts |-> promptsOf(x), guards |-> At(c.guards, x.session),
          restrictions |-> At(c.restrictions, x.session),
          handlers |-> {[h EXCEPT !.tools = discoverHandlerTools(h, failed)] :
                            h \in At(c.handlers, x.session)}]
  BY Zenon DEF partOf, toolsOf, promptsOf
<1>7. QED
  BY <1>1, <1>4, <1>5, <1>6, Zenon

\* The plan of a resume with the recorded components is the admitted plan, and
\* what accepted that plan accepts this one.
LEMMA ResumedSame ==
  ASSUME PlanData, NEW a, a.kind = "fresh", NEW failed, Host(a.snap), a.session \in Sessions,
         NEW k, Again(k, a, failed), Accepted(a, failed)
  PROVE  compiled(k, failed) = compiled(a, failed) /\ Accepted(k, failed)
<1>1. k.session = a.session /\ k.snap \subseteq a.snap
  BY Zenon DEF Again
<1>2. searches(k) = searches(a)
  <2>1. ASSUME NEW c \in a.snap, NEW r \in At(c.search, a.session)
        PROVE  c \in k.snap
    BY <2>1, Zenon DEF Again
  <2>2. QED
    BY <1>1, <2>1, Zenon DEF searches
<1>3. compiled(k, failed).parts = compiled(a, failed).parts
  <2>1. ASSUME NEW f \in compiled(k, failed).parts
        PROVE  f \in compiled(a, failed).parts
    <3>1. PICK c \in k.snap : f = partOf(k, failed, c) /\ behaves(f)
      BY <2>1, PartFrom, Zenon
    <3>2. f = partOf(a, failed, c) /\ c \in a.snap
      BY <1>1, <3>1, SamePart, ZenonT(60)
    <3>3. QED
      BY <3>1, <3>2, PartsAre, Zenon
  <2>2. ASSUME NEW f \in compiled(a, failed).parts
        PROVE  f \in compiled(k, failed).parts
    <3>1. PICK c \in a.snap : f = partOf(a, failed, c) /\ behaves(f)
      BY <2>2, PartFrom, Zenon
    <3>2. c.id \in {d.id : d \in descriptor(compiled(a, failed)).components}
      BY <3>1, RecordedBehaves, Zenon
    <3>3. c \in k.snap
      BY <3>2, Zenon DEF Again
    <3>4. f = partOf(k, failed, c)
      BY <3>1, <3>3, SamePart, ZenonT(60)
    <3>5. QED
      BY <3>1, <3>3, <3>4, PartsAre, Zenon
  <2>3. QED
    BY <2>1, <2>2, Zenon
<1>4. compiled(k, failed) = compiled(a, failed)
  <2>1. compiled(k, failed).parts = compileRunPlan(k, failed)
        /\ compiled(a, failed).parts = compileRunPlan(a, failed)
    BY DEF compiled
  <2>2. compileRunPlan(k, failed) = compileRunPlan(a, failed)
    BY <1>3, <2>1, Zenon
  <2>3. QED
    BY <1>2, <2>2, Zenon DEF compiled
<1>5. \A h \in handlersOf(k) : h \in handlersOf(a)
  BY <1>1, Zenon DEF handlersOf
<1>6. toolSearchConfig(k)
  BY <1>2, Zenon DEF Accepted, toolSearchConfig
<1>7. NewRunPlan(k, failed)
  BY <1>1, <1>4, <1>5, Zenon DEF Accepted, NewRunPlan
<1>8. QED
  BY <1>4, <1>6, <1>7, Zenon DEF Accepted

-----------------------------------------------------------------------------
(* The invariant is kept.                                                  *)

\* What a durable run is worth depends on nothing but the run.
LEMMA RunKept ==
  ASSUME run' = run
  PROVE  (RunFine' <=> RunFine) /\ (Recorded' <=> Recorded) /\ recordedIds' = recordedIds
<1>1. recordedIds' = recordedIds
  BY Zenon DEF recordedIds
<1>2. Recorded' <=> Recorded
  BY <1>1, Zenon DEF Recorded, contributed
<1>3. RunFine' <=> RunFine
  BY Zenon DEF RunFine
<1>4. QED
  BY <1>1, <1>2, <1>3, Zenon

\* Nor does anything else depend on what is mounted.
LEMMA OthersKept ==
  ASSUME PlansInv, UNCHANGED <<leases, call, plan, run>>, Host(mounted)', Apart'
  PROVE  PlansInv'
<1>1. leases' = leases /\ call' = call /\ plan' = plan /\ run' = run
  OBVIOUS
<1>2. /\ RunFine' <=> RunFine
      /\ Recorded' <=> Recorded
      /\ recordedIds' = recordedIds
  BY <1>1, RunKept, Zenon
<1>3. FreshFine' <=> FreshFine
  BY <1>1, Zenon DEF FreshFine
<1>4. ResumeFine' <=> ResumeFine
  BY <1>1, <1>2, Zenon DEF ResumeFine
<1>5. CallFine' <=> CallFine
  BY <1>1, <1>3, <1>4, Zenon DEF CallFine
<1>6. PlanFine' <=> PlanFine
  BY <1>1, <1>2, Zenon DEF PlanFine
<1>7. QED
  BY <1>1, <1>2, <1>5, <1>6, Zenon DEF PlansInv

\* A mount is let in only beside components it can live with (CommitMount,
\* validateComponentPayload).
LEMMA MountKeeps ==
  ASSUME PlanData, PlansInv, NEW c \in Catalog, Mount(c)
  PROVE  PlansInv'
<1>1. /\ Installs(c) /\ \A d \in mounted : d.id # c.id
      /\ mounted' = mounted \cup {c}
      /\ UNCHANGED <<leases, call, plan, run>>
  BY Zenon DEF Mount
<1>2. Host(mounted)'
  BY <1>1, Zenon DEF Host, PlansInv
<1>3. /\ \A t, u \in c.tools : t # u => ~(t.name = u.name /\ toolScopesOverlap(t.scope, u.scope))
      /\ \A d \in mounted : \A t \in c.tools, u \in d.tools :
           ~(t.name = u.name /\ toolScopesOverlap(t.scope, u.scope))
  BY Zenon DEF Mount, validateComponentPayload
<1>4. \A x, y : toolScopesOverlap(x, y) <=> toolScopesOverlap(y, x)
  BY Zenon DEF toolScopesOverlap
<1>5. ASSUME NEW d \in mounted', NEW e \in mounted', NEW t \in d.tools, NEW u \in e.tools,
             <<d, t>> # <<e, u>>
      PROVE  ~(t.name = u.name /\ toolScopesOverlap(t.scope, u.scope))
  <2>1. CASE d \in mounted /\ e \in mounted
    BY <1>5, <2>1, Zenon DEF PlansInv, Apart
  <2>2. CASE d = c /\ e \in mounted
    BY <1>3, <1>5, <2>2, Zenon
  <2>3. CASE d \in mounted /\ e = c
    <3>1. ~(u.name = t.name /\ toolScopesOverlap(u.scope, t.scope))
      BY <1>3, <1>5, <2>3, Zenon
    <3>2. QED
      BY <3>1, <1>4, Zenon
  <2>4. CASE d = c /\ e = c
    <3>1. t # u
      BY <1>5, <2>4, Zenon
    <3>2. QED
      BY <1>3, <1>5, <2>4, <3>1, Zenon
  <2>5. QED
    BY <1>1, <2>1, <2>2, <2>3, <2>4, Zenon
<1>6. Apart'
  BY <1>5, Zenon DEF Apart
<1>7. QED
  BY <1>1, <1>2, <1>6, OthersKept, Zenon

\* Components that go leave the others as they were (Mount.Deactivate).
LEMMA DeactivateKeeps ==
  ASSUME PlanData, PlansInv, NEW c \in Catalog, Deactivate(c)
  PROVE  PlansInv'
<1>1. mounted' \subseteq mounted /\ UNCHANGED <<leases, call, plan, run>>
  BY Zenon DEF Deactivate
<1>2. Host(mounted)'
  BY <1>1, Zenon DEF Host, PlansInv
<1>3. Apart'
  BY <1>1, Zenon DEF Apart, PlansInv
<1>4. QED
  BY <1>1, <1>2, <1>3, OthersKept, Zenon

\* What is mounted stays fine where it is not touched.
LEMMA MountsKept ==
  ASSUME PlansInv, mounted' = mounted
  PROVE  Host(mounted)' /\ Apart'
<1>1. Host(mounted)'
  BY Zenon DEF PlansInv, Host
<1>2. Apart'
  BY Zenon DEF PlansInv, Apart
<1>3. QED
  BY <1>1, <1>2, Zenon

\* A snapshot is of mounted components that apply (registry.snapshot).
LEMMA SnapshotIs ==
  ASSUME PlansInv, NEW target, NEW ids
  PROVE  /\ Host(snapshot(target, ids))
         /\ \A c : c \in snapshot(target, ids)
                     <=> c \in mounted /\ c.id \in ids /\ applies(c, target)
<1>1. \A c : c \in snapshot(target, ids)
                <=> c \in mounted /\ c.id \in ids /\ applies(c, target)
  BY Zenon DEF snapshot, applies
<1>2. Host(mounted)
  BY Zenon DEF PlansInv
<1>3. QED
  BY <1>1, <1>2, Zenon DEF Host

\* An admission begins (AcquireRunPlan).
LEMMA AcquireKeeps ==
  ASSUME PlanData, PlansInv, NEW s \in Sessions, NEW config \in Configs, AcquireRunPlan(s, config)
  PROVE  PlansInv'
<1> DEFINE taken == snapshot(s, {c.id : c \in Catalog})
<1>1. /\ plan = None /\ run = None /\ leases' = taken /\ call' = admission(s, config, taken)
      /\ mounted' = mounted /\ plan' = plan /\ run' = run
  BY Zenon DEF AcquireRunPlan, admission
<1>2. Host(taken) /\ \A c \in taken : applies(c, s)
  BY SnapshotIs, Zenon
<1> HIDE DEF taken
<1>3. call'.snap = taken /\ call'.kind = "fresh"
  BY <1>1, AdmissionIs
<1>4. call' # idle /\ call'.kind # "resume"
  BY <1>3 DEF idle
<1>5. FreshFine'
  BY <1>1, <1>2, <1>3, Zenon DEF FreshFine
<1>6. CallFine'
  BY <1>1, <1>3, <1>4, <1>5, Zenon DEF CallFine
<1>7. PlanFine'
  BY <1>1, Zenon DEF PlanFine
<1>8. Host(mounted)' /\ Apart'
  BY <1>1, MountsKept, Zenon
<1>9. QED
  BY <1>1, <1>4, <1>6, <1>7, <1>8, Zenon DEF PlansInv

\* The parts of an admitted plan are of the components of its admission.
LEMMA RecordedAreOwners ==
  ASSUME PlanData, RunFine, NEW i \in recordedIds
  PROVE  \E c \in run.owners : c.id = i
<1>1. PICK config \in Configs :
        run.admitted = compiled(admission(run.session, config, run.owners), run.failed)
  BY Zenon DEF RunFine
<1> DEFINE a == admission(run.session, config, run.owners)
<1>2. a.snap = run.owners
  BY AdmissionIs
<1> HIDE DEF a
<1>3. run.admitted \in Plan
  <2>1. a.snap \subseteq Catalog
    BY <1>2, Zenon DEF RunFine, Host
  <2>2. QED
    BY <1>1, <2>1, CompiledIsPlan, Zenon DEF a
<1>4. \E f \in run.admitted.parts : f.id = i
  BY <1>3, RecordedParts, Zenon DEF RunFine, recordedIds
<1>5. PICK f \in run.admitted.parts : f.id = i
  BY <1>4, Zenon
<1>6. f \in compiled(a, run.failed).parts
  BY <1>1, <1>5, Zenon DEF a
<1>7. PICK c \in a.snap : f = partOf(a, run.failed, c)
  BY <1>6, PartFrom, Zenon
<1>8. f.id = c.id
  BY <1>7, PartOfIs
<1>9. QED
  BY <1>2, <1>5, <1>7, <1>8, Zenon

\* A resume begins: of the persisted instances it finds the components of the
\* admission, if they are all there (AcquireResumePlan).
LEMMA ResumeKeeps ==
  ASSUME PlanData, PlansInv, AcquireResumePlan
  PROVE  PlansInv'
<1> DEFINE taken == snapshot(run.session, recordedIds)
           owed == {c \in run.owners : contributed(c)}
<1>1. /\ plan = None /\ run # None /\ leases' = taken
      /\ call' = [kind |-> "resume", session |-> run.session, descriptor |-> run.descriptor,
                  snap |-> taken, intact |-> owed \subseteq mounted]
      /\ mounted' = mounted /\ plan' = plan /\ run' = run
  BY Zenon DEF AcquireResumePlan, recordedIds
<1>2. RunFine /\ Host(mounted)
  BY <1>1, Zenon DEF PlansInv
<1>3. /\ Host(taken)
      /\ \A c : c \in taken <=> c \in mounted /\ c.id \in recordedIds /\ applies(c, run.session)
  BY SnapshotIs, Zenon
<1>4. owed \subseteq mounted /\ Recorded => taken = {c \in run.owners : c.id \in recordedIds}
  <2> SUFFICES ASSUME owed \subseteq mounted, Recorded
               PROVE  taken = {c \in run.owners : c.id \in recordedIds}
    BY Zenon
  <2>1. ASSUME NEW c \in run.owners, c.id \in recordedIds
        PROVE  c \in mounted
    BY <2>1, Zenon DEF contributed, recordedIds
  <2>2. ASSUME NEW c \in run.owners, c.id \in recordedIds
        PROVE  c \in taken
    BY <1>2, <1>3, <2>1, <2>2, Zenon DEF RunFine
  <2>3. ASSUME NEW c \in taken
        PROVE  c \in run.owners /\ c.id \in recordedIds
    <3>1. c \in mounted /\ c.id \in recordedIds
      BY <1>3, <2>3, Zenon
    <3>2. PICK e \in run.owners : e.id = c.id
      BY <1>2, <3>1, RecordedAreOwners, Zenon
    <3>3. e \in mounted
      BY <2>1, <3>1, <3>2, Zenon
    <3>4. e = c
      BY <1>2, <3>1, <3>2, <3>3, Zenon DEF Host
    <3>5. QED
      BY <3>1, <3>2, <3>4, Zenon
  <2>4. QED
    BY <2>2, <2>3, Zenon
<1>5. taken \subseteq Catalog
  BY <1>3, Zenon DEF Host
<1> HIDE DEF taken, owed
<1>6. /\ call'.kind = "resume" /\ call'.session = run.session /\ call'.descriptor = run.descriptor
      /\ call'.snap = taken /\ (call'.intact <=> owed \subseteq mounted)
  BY <1>1
<1>7. call' # idle /\ call'.kind # "fresh"
  BY <1>6 DEF idle
<1>8. RunFine' /\ (Recorded' <=> Recorded) /\ recordedIds' = recordedIds
  BY <1>1, <1>2, RunKept, Zenon
<1>9. ResumeFine'
  BY <1>1, <1>4, <1>5, <1>6, <1>8, Zenon DEF ResumeFine
<1>10. CallFine'
  BY <1>1, <1>6, <1>7, <1>9, Zenon DEF CallFine
<1>11. PlanFine'
  BY <1>1, Zenon DEF PlanFine
<1>12. Host(mounted)' /\ Apart'
  BY <1>1, MountsKept, Zenon
<1>13. QED
  BY <1>1, <1>7, <1>8, <1>10, <1>11, <1>12, Zenon DEF PlansInv

\* Every way to refuse a plan gives its leases back (RunPlan.Release).
LEMMA RefuseKeeps ==
  ASSUME PlanData, PlansInv, NEW failed, RefusePlan(failed)
  PROVE  PlansInv'
<1>1. /\ call # idle /\ leases' = {} /\ call' = idle
      /\ mounted' = mounted /\ plan' = plan /\ run' = run
  BY Zenon DEF RefusePlan, release
<1>2. plan = None
  BY <1>1, Zenon DEF PlansInv, CallFine
<1>3. run' # None => RunFine'
  BY <1>1, RunKept, Zenon DEF PlansInv
<1>4. CallFine' /\ PlanFine'
  BY <1>1, <1>2, Zenon DEF CallFine, PlanFine
<1>5. Host(mounted)' /\ Apart'
  BY <1>1, MountsKept, Zenon
<1>6. QED
  BY <1>1, <1>3, <1>4, <1>5, Zenon DEF PlansInv

\* A plan that is let through is the plan of the run (NewRunPlan, and the
\* fingerprint a resume compares).
LEMMA AcquiredKeeps ==
  ASSUME PlanData, PlansInv, NEW failed, PlanAcquired(failed)
  PROVE  PlansInv'
<1> DEFINE p == compiled(call, failed)
<1>1. /\ call # idle /\ Accepted(call, failed) /\ matches(call, p) /\ plan' = p
      /\ run' = IF call.kind = "resume" THEN run
                ELSE [session |-> call.session, descriptor |-> descriptor(p),
                      admitted |-> p, owners |-> call.snap, failed |-> failed]
      /\ call' = idle /\ mounted' = mounted /\ leases' = leases
  BY Zenon DEF PlanAcquired, Accepted
<1>2. /\ leases = call.snap
      /\ call.kind = "fresh" \/ call.kind = "resume"
      /\ call.kind = "fresh" => FreshFine
      /\ call.kind = "resume" => ResumeFine
  BY <1>1, Zenon DEF PlansInv, CallFine
<1>3. call.snap \subseteq Catalog
  BY <1>2, Zenon DEF FreshFine, ResumeFine, Host
<1>4. p \in Plan /\ p # None
  BY <1>3, CompiledIsPlan, Zenon
<1>5. {f.id : f \in p.parts} \subseteq {c.id : c \in leases'}
  <2>1. ASSUME NEW f \in p.parts
        PROVE  f.id \in {c.id : c \in leases'}
    <3>1. PICK c \in call.snap : f = partOf(call, failed, c)
      BY <2>1, PartFrom, Zenon
    <3>2. f.id = c.id
      BY <3>1, PartOfIs
    <3>3. QED
      BY <1>1, <1>2, <3>1, <3>2, Zenon
  <2>2. QED
    BY <2>1, Zenon
<1> HIDE DEF p
<1>6. ASSUME call.kind = "fresh"
      PROVE  RunFine' /\ plan' = run'.admitted
  <2>1. PICK s \in Sessions, config \in Configs :
          /\ call = admission(s, config, call.snap)
          /\ Host(call.snap) /\ \A c \in call.snap : applies(c, s)
    BY <1>2, <1>6, Zenon DEF FreshFine
  <2>2. call.session = s
    BY <2>1, AdmissionIs
  <2>3. call.kind # "resume"
    BY <1>6
  <2>4. run' = [session |-> s, descriptor |-> descriptor(p), admitted |-> p,
                owners |-> call.snap, failed |-> failed]
    BY <1>1, <2>2, <2>3, Zenon
  <2>5. /\ run'.session = s /\ run'.descriptor = descriptor(p) /\ run'.admitted = p
        /\ run'.owners = call.snap /\ run'.failed = failed
    BY <2>4
  <2>6. p = compiled(admission(s, config, call.snap), failed)
        /\ Accepted(admission(s, config, call.snap), failed)
    BY <1>1, <2>1, Zenon DEF p
  <2>7. RunFine'
    BY <2>1, <2>5, <2>6, Zenon DEF RunFine
  <2>8. QED
    BY <1>1, <2>5, <2>7, Zenon
<1>7. ASSUME call.kind = "resume"
      PROVE  RunFine' /\ plan' = run'.admitted
  <2>1. ResumeFine /\ run' = run
    BY <1>1, <1>2, <1>7, Zenon
  <2>2. RunFine' /\ RunFine
    BY <2>1, RunKept, Zenon DEF ResumeFine
  <2>3. descriptor(p) = run.descriptor
    BY <1>1, <1>7, <2>1, Zenon DEF matches, ResumeFine
  <2>4. PICK config \in Configs :
          run.admitted = compiled(admission(run.session, config, run.owners), run.failed)
    BY <2>2, Zenon DEF RunFine
  <2>5. admission(run.session, config, run.owners).snap \subseteq Catalog
    <3>1. admission(run.session, config, run.owners).snap = run.owners
      BY AdmissionIs
    <3>2. QED
      BY <2>2, <3>1, Zenon DEF RunFine, Host
  <2>6. run.admitted \in Plan
    BY <2>4, <2>5, CompiledIsPlan, Zenon
  <2>7. descriptor(p) = descriptor(run.admitted)
    BY <2>2, <2>3, Zenon DEF RunFine
  <2>8. p = run.admitted
    BY <1>4, <2>6, <2>7, SamePlan, Zenon
  <2>9. QED
    BY <1>1, <2>1, <2>2, <2>8, Zenon
<1>8. RunFine' /\ plan' = run'.admitted
  BY <1>2, <1>6, <1>7, Zenon
<1>9. PlanFine'
  BY <1>1, <1>5, <1>8, Zenon DEF PlanFine
<1>10. CallFine'
  BY <1>1, Zenon DEF CallFine
<1>11. Host(mounted)' /\ Apart'
  BY <1>1, MountsKept, Zenon
<1>12. QED
  BY <1>1, <1>4, <1>8, <1>9, <1>10, <1>11, Zenon DEF PlansInv

\* A run that pauses or ends gives its leases back.
LEMMA ReleaseKeeps ==
  ASSUME PlanData, PlansInv, Pause \/ Settle
  PROVE  PlansInv'
<1>1. /\ plan # None /\ plan' = None /\ leases' = {} /\ (run' = run \/ run' = None)
      /\ mounted' = mounted /\ call' = call
  BY Zenon DEF Pause, Settle, release
<1>2. call = idle
  BY <1>1, Zenon DEF PlansInv, CallFine
<1>3. run' # None => RunFine'
  BY <1>1, RunKept, Zenon DEF PlansInv
<1>4. CallFine' /\ PlanFine'
  BY <1>1, <1>2, Zenon DEF CallFine, PlanFine
<1>5. Host(mounted)' /\ Apart'
  BY <1>1, MountsKept, Zenon
<1>6. QED
  BY <1>1, <1>3, <1>4, <1>5, Zenon DEF PlansInv

-----------------------------------------------------------------------------
(* The results.                                                            *)

\* The plans, the calls and the durable run stay as admissions made them,
\* whatever is mounted and deactivated meanwhile.
THEOREM PlansInvariant == PlanData => (PlansSpec => []PlansInv)
<1>. SUFFICES ASSUME PlanData PROVE PlansSpec => []PlansInv
  BY Zenon
<1>1. PlansInit => PlansInv
  <2> SUFFICES ASSUME PlansInit PROVE PlansInv
    BY Zenon
  <2>1. mounted = {} /\ leases = {} /\ call = idle /\ plan = None /\ run = None
    BY Zenon DEF PlansInit
  <2>2. Host(mounted) /\ Apart
    BY <2>1, Zenon DEF Host, Apart
  <2>3. CallFine /\ PlanFine
    BY <2>1, Zenon DEF CallFine, PlanFine
  <2>4. QED
    BY <2>1, <2>2, <2>3, Zenon DEF PlansInv
<1>2. PlansInv /\ [PlansNext]_vars => PlansInv'
  <2> SUFFICES ASSUME PlansInv, [PlansNext]_vars PROVE PlansInv'
    BY Zenon
  <2>1. CASE UNCHANGED vars
    <3>1. UNCHANGED <<leases, call, plan, run>> /\ mounted' = mounted
      BY <2>1, Zenon DEF vars
    <3>2. QED
      BY <3>1, MountsKept, OthersKept, Zenon
  <2>2. ASSUME NEW c \in Catalog, Mount(c) \/ Deactivate(c)
        PROVE  PlansInv'
    BY <2>2, MountKeeps, DeactivateKeeps, Zenon
  <2>3. ASSUME NEW s \in Sessions, NEW config \in Configs, AcquireRunPlan(s, config)
        PROVE  PlansInv'
    BY <2>3, AcquireKeeps, Zenon
  <2>4. CASE AcquireResumePlan
    BY <2>4, ResumeKeeps, Zenon
  <2>5. ASSUME NEW failed, RefusePlan(failed) \/ PlanAcquired(failed)
        PROVE  PlansInv'
    BY <2>5, RefuseKeeps, AcquiredKeeps, Zenon
  <2>6. CASE Pause \/ Settle
    BY <2>6, ReleaseKeeps, Zenon
  <2>7. QED
    BY <2>1, <2>2, <2>3, <2>4, <2>5, <2>6, Zenon DEF PlansNext
<1>. QED  BY <1>1, <1>2, PTL DEF PlansSpec

\* Strict resume: a live plan is the plan of the admission, and it holds the
\* leases of its components, and nobody else holds any (AcquireResumePlan).
THEOREM ResumesAsAdmitted == PlanData => (PlansSpec => []ResumedAsAdmitted)
<1>1. PlansInv => ResumedAsAdmitted
  BY Zenon DEF PlansInv, CallFine, PlanFine, ResumedAsAdmitted, leasesHeld
<1>. QED  BY <1>1, PlansInvariant, PTL

\* Names resolve: mounted tools that both apply have different names, every
\* name of a plan means one thing, and none leads to a tool that the plan
\* restricts (CommitMount, NewRunPlan, ResolveTools).
THEOREM NamesAlwaysResolve == PlanData => (PlansSpec => []NamesResolve)
<1>. SUFFICES ASSUME PlanData PROVE PlansSpec => []NamesResolve
  BY Zenon
<1>1. PlansInv => NamesResolve
  <2> SUFFICES ASSUME PlansInv PROVE NamesResolve
    BY Zenon
  <2>1. mountedApart
    <3>1. \A x, y, target : ScopeApplies(x, target) /\ ScopeApplies(y, target)
                               => toolScopesOverlap(x, y)
      BY Zenon DEF ScopeApplies, toolScopesOverlap
    <3>2. QED
      BY <3>1, Zenon DEF PlansInv, Apart, mountedApart
  <2>2. ASSUME plan # None
        PROVE  namesApart(plan.parts, plan.search) /\ deniedUnreachable
    <3>1. RunFine /\ plan = run.admitted
      BY <2>2, Zenon DEF PlansInv, PlanFine
    <3>2. PICK config \in Configs :
            LET a == admission(run.session, config, run.owners)
            IN  plan = compiled(a, run.failed) /\ Accepted(a, run.failed)
      BY <3>1, Zenon DEF RunFine
    <3> DEFINE a == admission(run.session, config, run.owners)
    <3>3. a.snap \subseteq Catalog
      <4>1. a.snap = run.owners
        BY AdmissionIs
      <4> HIDE DEF a
      <4>2. QED
        BY <3>1, <4>1, Zenon DEF RunFine, Host
    <3>4. plan = compiled(a, run.failed) /\ Accepted(a, run.failed)
      BY <3>2, Zenon
    <3> HIDE DEF a
    <3>5. plan \in Plan
      BY <3>3, <3>4, CompiledIsPlan, Zenon
    <3>6. plan.parts \in SUBSET Part
      BY <3>5, Zenon DEF Plan
    <3>7. TellsApart(plan.parts, plan.search)
      BY <3>4, AcceptedTellsApart, Zenon
    <3>8. QED
      BY <3>6, <3>7, NamesAreApart, RestrictedApart, Zenon
  <2>3. QED
    BY <2>1, <2>2, Zenon DEF NamesResolve
<1>. QED  BY <1>1, PlansInvariant, PTL

\* A resume whose components are mounted as they were is accepted, whatever
\* else is mounted or gone (AcquireResumePlan looks at the recorded instances).
THEOREM OthersNeverBlockResume == PlanData => (PlansSpec => []OthersDoNotBlockResume)
<1>. SUFFICES ASSUME PlanData PROVE PlansSpec => []OthersDoNotBlockResume
  BY Zenon
<1>1. PlansInv => OthersDoNotBlockResume
  <2> SUFFICES ASSUME PlansInv, call.kind = "resume", call.intact,
                      \A c \in run.owners : contributed(c) => c.id \in recordedIds
               PROVE  wouldResume
    BY Zenon DEF OthersDoNotBlockResume, recordedIds
  <2>1. call # idle
    BY DEF idle
  <2>2. ResumeFine /\ RunFine /\ Recorded
    BY <2>1, Zenon DEF PlansInv, CallFine, ResumeFine, Recorded
  <2>3. PICK config \in Configs :
          LET a == admission(run.session, config, run.owners)
          IN  run.admitted = compiled(a, run.failed) /\ Accepted(a, run.failed)
    BY <2>2, Zenon DEF RunFine
  <2> DEFINE a == admission(run.session, config, run.owners)
  <2>4. a.kind = "fresh" /\ a.session = run.session /\ a.snap = run.owners
    BY AdmissionIs
  <2>5. run.admitted = compiled(a, run.failed) /\ Accepted(a, run.failed)
    BY <2>3, Zenon
  <2> HIDE DEF a
  <2>6. /\ call.session = run.session /\ call.descriptor = run.descriptor
        /\ call.snap = {c \in run.owners : c.id \in recordedIds}
    BY <2>2, Zenon DEF ResumeFine
  <2>7. run.descriptor = descriptor(compiled(a, run.failed))
    BY <2>2, <2>5, Zenon DEF RunFine
  <2>8. \A c \in a.snap : At(c.search, a.session) # {} => c.id \in recordedIds
    BY <2>2, <2>4, Zenon DEF Recorded, contributed
  <2>9. Again(call, a, run.failed)
    BY <2>4, <2>6, <2>7, <2>8, Zenon DEF Again, recordedIds
  <2>10. Host(a.snap) /\ a.session \in Sessions
    BY <2>2, <2>4, Zenon DEF RunFine
  <2>11. compiled(call, run.failed) = compiled(a, run.failed) /\ Accepted(call, run.failed)
    BY <2>4, <2>5, <2>9, <2>10, ResumedSame, Zenon
  <2>12. matches(call, compiled(call, run.failed))
    BY <2>6, <2>7, <2>11, Zenon DEF matches
  <2>13. QED
    BY <2>11, <2>12, Zenon DEF wouldResume, Accepted
<1>. QED  BY <1>1, PlansInvariant, PTL
=============================================================================
