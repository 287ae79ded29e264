------------------------------ MODULE RunPlans ------------------------------
(***************************************************************************)
(* The run plan of package composition and runtime.NewRunPlan: components  *)
(* are mounted and deactivated while runs are admitted and resumed; an     *)
(* admission freezes the applicable components into a plan and seals its   *)
(* identity; a resume compiles a plan again from what is mounted by then   *)
(* and is let through only when the identity is the same.                  *)
(*                                                                         *)
(* Lists are sets: canonicalExtensionPlan and compiledRunPlan.finalize     *)
(* sort every list by its members' identities.  A hash is the value hashed *)
(* and the fingerprint is the descriptor.                                  *)
(***************************************************************************)
EXTENDS Naturals, FiniteSets

CONSTANTS
    Catalog,    \* the components a host may mount, each with what it registers
    Sessions,   \* session ids
    Configs,    \* config.ToolConfig values: [enabled, disabled]
    Global,     \* the global scope; the other scopes are sessions
    EveryTool,  \* Enabled = nil
    MaxMounted, \* bound: components mounted at once
    None

VARIABLES
    mounted,    \* active mounts of the registry
    leases,     \* mounts whose lease was taken and not given back
    call,       \* the acquisition under way, or idle: its snapshot
    plan,       \* the plan the run executes with
    run         \* the durable run: its session and descriptor; the rest is history

vars == <<mounted, leases, call, plan, run>>

idle == [kind |-> "idle"]

ScopeApplies(scope, target) == scope = Global \/ scope = target

At(registrations, target) == {r \in registrations : ScopeApplies(r.scope, target)}

(* No two registrations of one registrar share the key. *)
Unique(rs, Key(_)) == \A r, q \in rs : Key(r) = Key(q) => r = q

(* The registrar's own checks, while the installer runs. *)
Tool(c) ==
    /\ Unique(c.tools, LAMBDA t : <<t.name, t.scope>>)
    /\ \A t \in c.tools : t.name \notin t.aliases

Prompt(c) == Unique(c.prompts, LAMBDA p : <<p.name, p.scope>>)

Guard(c) == Unique(c.guards, LAMBDA g : <<g.id, g.scope>>)

CanonicalizeRestrictionRules(r) ==
    /\ r.allowed \cup r.denied # {}
    /\ r.allowed \cap r.denied = {}

RestrictTools(c) ==
    /\ \A r \in c.restrictions : CanonicalizeRestrictionRules(r)
    /\ Unique(c.restrictions, LAMBDA r : <<r.id, r.scope>>)

ToolSearch(c) == Unique(c.search, LAMBDA s : <<s.id, s.scope>>)

Handler(c) == Unique(c.handlers, LAMBDA h : <<h.id, h.scope>>)

Installs(c) ==
    /\ Tool(c) /\ Prompt(c) /\ Guard(c) /\ RestrictTools(c) /\ ToolSearch(c) /\ Handler(c)

toolScopesOverlap(a, b) == a = Global \/ b = Global \/ a = b

(* Checked under the registry lock when a mount is committed. *)
validateComponentPayload(c) ==
    /\ \A t, u \in c.tools :
         t # u => ~(t.name = u.name /\ toolScopesOverlap(t.scope, u.scope))
    /\ \A d \in mounted :
         /\ \A t \in c.tools, u \in d.tools :
              ~(t.name = u.name /\ toolScopesOverlap(t.scope, u.scope))
         /\ \A p \in c.prompts, q \in d.prompts : <<p.name, p.scope>> # <<q.name, q.scope>>

Mount(c) ==
    /\ Cardinality(mounted) < MaxMounted
    /\ Installs(c)
    /\ \A d \in mounted : d.id # c.id
    /\ validateComponentPayload(c)
    /\ mounted' = mounted \cup {c}
    /\ UNCHANGED <<leases, call, plan, run>>

Deactivate(c) ==
    /\ c \in mounted
    /\ mounted' = mounted \ {c}
    /\ UNCHANGED <<leases, call, plan, run>>

-----------------------------------------------------------------------------
(* What of a mounted component takes part in a plan. *)

payloadScopes(c) ==
    {r.scope : r \in c.tools} \cup {r.scope : r \in c.prompts} \cup {r.scope : r \in c.guards}
      \cup {r.scope : r \in c.restrictions} \cup {r.scope : r \in c.search}
      \cup {r.scope : r \in c.handlers}

(* Every active mount with a registration for the target, each leased once. *)
snapshot(target, instances) ==
    {c \in mounted :
        /\ c.id \in instances
        /\ \E s \in payloadScopes(c) \cup {h.scope : h \in c.hooks} : ScopeApplies(s, target)}

(* A prompt of the session replaces the global one of its name. *)
promptWins(p, snap, target) ==
    /\ ScopeApplies(p.scope, target)
    /\ p.scope = Global =>
         ~\E c \in snap : \E q \in c.prompts : q.name = p.name /\ q.scope = target

requestedToolSelector(config, c, t) ==
    /\ t.name \notin config.disabled
    /\ config.enabled = EveryTool \/ t.name \in config.enabled

persistedToolSelector(descriptor, c, t) ==
    \E d \in descriptor.components :
        /\ d.id = c.id
        /\ \E u \in d.tools : <<u.id, u.name, u.scope>> = <<t.id, t.name, t.scope>>

selects(k, c, t) ==
    IF k.kind = "fresh" THEN requestedToolSelector(k.config, c, t)
                        ELSE persistedToolSelector(k.descriptor, c, t)

(* The probe of a handler whose kind always brings tools must succeed; any *)
(* other handler whose probe fails or times out brings no tools.            *)
discoverHandlerTools(h, failed) == IF h.id \in failed THEN {} ELSE h.tools

components(k, failed) ==
    {[id |-> c.id, artifact |-> c.artifact,
      hooks |-> At(c.hooks, k.session),
      tools |-> {t \in At(c.tools, k.session) : selects(k, c, t)},
      prompts |-> {p \in c.prompts : promptWins(p, k.snap, k.session)},
      guards |-> At(c.guards, k.session),
      restrictions |-> At(c.restrictions, k.session),
      handlers |-> {[h EXCEPT !.tools = discoverHandlerTools(h, failed)] :
                        h \in At(c.handlers, k.session)}] : c \in k.snap}

behaves(f) ==
    f.hooks # {} \/ f.tools # {} \/ f.prompts # {} \/ f.guards # {}
      \/ f.restrictions # {} \/ f.handlers # {}

(* A capability fragment and the hooks of the same component are one part  *)
(* of the plan; a component with neither is no part of it.                 *)
compileRunPlan(k, failed) == {f \in components(k, failed) : behaves(f)}

searches(k) == UNION {At(c.search, k.session) : c \in k.snap}

-----------------------------------------------------------------------------
(* The compiled plan's names. *)

ownedTools(parts) == UNION {{[owner |-> f.id, value |-> t] : t \in f.tools} : f \in parts}
ownedPrompts(parts) == UNION {{[owner |-> f.id, value |-> p] : p \in f.prompts} : f \in parts}
ownedHandlers(parts) == UNION {{[owner |-> f.id, value |-> h] : h \in f.handlers} : f \in parts}
restrictions(parts) == UNION {f.restrictions : f \in parts}
ToolNames(parts) == {o.value.name : o \in ownedTools(parts)}
Aliases(parts) == UNION {o.value.aliases : o \in ownedTools(parts)}

uniqueCapabilityNames(parts) ==
    /\ Unique(ownedTools(parts), LAMBDA o : o.value.name)
    /\ Unique(ownedPrompts(parts), LAMBDA o : o.value.name)

uniqueAgentHandlerIDs(parts) == Unique(ownedHandlers(parts), LAMBDA o : o.value.id)

aliasesAmongThemselves(parts) ==
    \A o, q \in ownedTools(parts) : o # q => o.value.aliases \cap q.value.aliases = {}

buildToolAliasIndex(parts) ==
    /\ Aliases(parts) \cap ToolNames(parts) = {}
    /\ \A o, q \in ownedTools(parts) : o # q => o.value.aliases \cap q.value.aliases = {}

canonicalize(parts, name) ==
    IF name \in Aliases(parts)
    THEN (CHOOSE o \in ownedTools(parts) : name \in o.value.aliases).value.name
    ELSE name

validateHandlerToolNameCollisions(parts, search) ==
    \A o \in ownedHandlers(parts) : \A n \in o.value.tools :
        /\ n # search
        /\ n \notin Aliases(parts) \cup ToolNames(parts)
        /\ \A q \in ownedHandlers(parts) : n \in q.value.tools => q.value.id = o.value.id

validateToolSearchNameCollision(parts, search) ==
    search \notin Aliases(parts) \cup ToolNames(parts)

planToolAllowed(name, parts) ==
    \A r \in restrictions(parts) :
        /\ name \notin {canonicalize(parts, n) : n \in r.denied}
        /\ r.allowed # {} => name \in {canonicalize(parts, n) : n \in r.allowed}

(* The tools a live plan offers. *)
ResolveTools(p) == {o \in ownedTools(p.parts) : planToolAllowed(o.value.name, p.parts)}

-----------------------------------------------------------------------------
(* The sealed identity. *)

toolSchemaHash(t) == [name |-> t.name, aliases |-> t.aliases, schema |-> t.schema]

(* The executor's identity is the artifact of the component it came with. *)
composedToolExecutorHash(artifact) == artifact

toolPlanIdentity(t, artifact) ==
    [id |-> t.id, name |-> t.name, scope |-> t.scope,
     schemaHash |-> toolSchemaHash(t), executorHash |-> composedToolExecutorHash(artifact)]

restrictionByName(r) == [id |-> r.id, scope |-> r.scope]

restrictionIdentity(r) ==
    [id |-> r.id, scope |-> r.scope, rulesHash |-> <<r.allowed, r.denied>>]

agentHandlerIdentity(h) ==
    [id |-> h.id, scope |-> h.scope, kind |-> h.kind, configHash |-> h.config, tools |-> h.tools]

componentPlan(f) ==
    [f EXCEPT !.tools = {toolPlanIdentity(t, f.artifact) : t \in @},
              !.restrictions = {restrictionIdentity(r) : r \in @},
              !.handlers = {agentHandlerIdentity(h) : h \in @}]

(* In canonical form: the sorted lists of the code are the sets here. *)
descriptor(p) == [components |-> {componentPlan(f) : f \in p.parts}, toolSearch |-> p.search]

validatePlanScope(session, rs) == \A r \in rs : r.scope \in {Global, session}

validateComponentPlan(session, d) ==
    /\ behaves(d)
    /\ validatePlanScope(session, d.hooks) /\ Unique(d.hooks, LAMBDA v : <<v.id, v.scope>>)
    /\ validatePlanScope(session, d.tools) /\ Unique(d.tools, LAMBDA v : <<v.id, v.name, v.scope>>)
    /\ validatePlanScope(session, d.prompts) /\ Unique(d.prompts, LAMBDA v : <<v.id, v.name, v.scope>>)
    /\ validatePlanScope(session, d.guards) /\ Unique(d.guards, LAMBDA v : <<v.id, v.scope>>)
    /\ validatePlanScope(session, d.restrictions) /\ Unique(d.restrictions, LAMBDA v : <<v.id, v.scope>>)
    /\ validatePlanScope(session, d.handlers) /\ Unique(d.handlers, LAMBDA v : <<v.id, v.scope>>)

canonicalExtensionPlan(session, d) ==
    /\ Unique(d.components, LAMBDA v : v.id)
    /\ \A c \in d.components : validateComponentPlan(session, c)

-----------------------------------------------------------------------------
(* Acquisition. *)

AcquireRunPlan(s, config) ==
    /\ call = idle /\ plan = None /\ run = None
    /\ LET taken == snapshot(s, {c.id : c \in Catalog})
       IN  /\ leases' = taken
           /\ call' = [kind |-> "fresh", session |-> s, config |-> config, snap |-> taken]
    /\ UNCHANGED <<mounted, plan, run>>

(* The components whose registrations the admitted plan was made of. *)
contributed(c) ==
    \/ c.id \in {d.id : d \in run.descriptor.components}
    \/ At(c.search, run.session) # {}

ResumeFromEverything ==
    /\ call = idle /\ plan = None /\ run # None
    /\ canonicalExtensionPlan(run.session, run.descriptor)
    /\ LET taken == snapshot(run.session, {c.id : c \in Catalog})
       IN  /\ leases' = taken
           /\ call' = [kind |-> "resume", session |-> run.session,
                       descriptor |-> run.descriptor, snap |-> taken,
                       intact |-> {c \in run.owners : contributed(c)} \subseteq mounted]
    /\ UNCHANGED <<mounted, plan, run>>

(* Only the persisted instances are looked at. *)
AcquireResumePlan ==
    /\ call = idle /\ plan = None /\ run # None
    /\ canonicalExtensionPlan(run.session, run.descriptor)
    /\ LET taken == snapshot(run.session, {c.id : c \in run.descriptor.components})
       IN  /\ leases' = taken
           /\ call' = [kind |-> "resume", session |-> run.session,
                       descriptor |-> run.descriptor, snap |-> taken,
                       intact |-> {c \in run.owners : contributed(c)} \subseteq mounted]
    /\ UNCHANGED <<mounted, plan, run>>

(* Two active search registrations are refused before NewRunPlan. *)
toolSearchConfig(k) == Cardinality(searches(k)) <= 1

handlersOf(k) == UNION {At(c.handlers, k.session) : c \in k.snap}

compiled(k, failed) ==
    [parts |-> compileRunPlan(k, failed),
     search |-> IF searches(k) = {} THEN None ELSE (CHOOSE r \in searches(k) : TRUE).name]

NewRunPlan(k, failed) ==
    LET p == compiled(k, failed)
    IN  /\ \A h \in handlersOf(k) : h.kind = "toolBearing" => h.id \notin failed
        /\ uniqueCapabilityNames(p.parts)
        /\ uniqueAgentHandlerIDs(p.parts)
        /\ buildToolAliasIndex(p.parts)
        /\ validateHandlerToolNameCollisions(p.parts, p.search)
        /\ p.search # None => validateToolSearchNameCollision(p.parts, p.search)
        /\ canonicalExtensionPlan(k.session, descriptor(p))

(* A resumed plan is let through when its fingerprint is the persisted one. *)
matches(k, p) == k.kind = "resume" => descriptor(p) = k.descriptor

(* Giving the plan up releases its leases. *)
release == leases' = {}

RefusePlan(failed) ==
    /\ call # idle
    /\ ~(toolSearchConfig(call) /\ NewRunPlan(call, failed) /\ matches(call, compiled(call, failed)))
    /\ release
    /\ call' = idle
    /\ UNCHANGED <<mounted, plan, run>>

PlanAcquired(failed) ==
    /\ call # idle
    /\ toolSearchConfig(call) /\ NewRunPlan(call, failed)
    /\ LET p == compiled(call, failed)
       IN  /\ matches(call, p)
           /\ plan' = p
           /\ run' = IF call.kind = "resume" THEN run
                     ELSE [session |-> call.session, descriptor |-> descriptor(p),
                           admitted |-> p, owners |-> call.snap, failed |-> failed]
    /\ call' = idle
    /\ UNCHANGED <<mounted, leases>>

(* The run pauses: its plan is released and the durable descriptor stays.  *)
Pause ==
    /\ plan # None
    /\ plan' = None
    /\ release
    /\ UNCHANGED <<mounted, call, run>>

(* The run ends. *)
Settle ==
    /\ plan # None
    /\ plan' = None /\ run' = None
    /\ release
    /\ UNCHANGED <<mounted, call>>

PlansInit ==
    /\ mounted = {} /\ leases = {}
    /\ call = idle /\ plan = None /\ run = None

PlansNext ==
    \/ \E c \in Catalog : Mount(c) \/ Deactivate(c)
    \/ \E s \in Sessions, config \in Configs : AcquireRunPlan(s, config)
    \/ AcquireResumePlan
    \/ /\ call # idle
       /\ \E failed \in SUBSET {h.id : h \in handlersOf(call)} :
            RefusePlan(failed) \/ PlanAcquired(failed)
    \/ Pause
    \/ Settle

PlansSpec == PlansInit /\ [][PlansNext]_vars

-----------------------------------------------------------------------------
(* What is known of a catalog: it is finite, registrations are records of  *)
(* the fields named here, and None is not a name and not a plan.           *)

wellFormed(c) ==
    /\ IsFiniteSet(c.tools)
    /\ \A t \in c.tools :
         /\ t = [id |-> t.id, name |-> t.name, scope |-> t.scope,
                 aliases |-> t.aliases, schema |-> t.schema]
         /\ None \notin {t.name} \cup t.aliases
    /\ \A r \in c.restrictions :
         r = [id |-> r.id, scope |-> r.scope, allowed |-> r.allowed, denied |-> r.denied]
    /\ \A h \in c.handlers :
         h = [id |-> h.id, scope |-> h.scope, kind |-> h.kind, config |-> h.config,
              tools |-> h.tools]

(* The parts a plan may have. *)
Part ==
    [id : {c.id : c \in Catalog}, artifact : {c.artifact : c \in Catalog},
     hooks : SUBSET UNION {c.hooks : c \in Catalog},
     tools : SUBSET UNION {c.tools : c \in Catalog},
     prompts : SUBSET UNION {c.prompts : c \in Catalog},
     guards : SUBSET UNION {c.guards : c \in Catalog},
     restrictions : SUBSET UNION {c.restrictions : c \in Catalog},
     handlers : SUBSET UNION {UNION {{h, [h EXCEPT !.tools = {}]} : h \in c.handlers} :
                                c \in Catalog}]

Plan == [parts : SUBSET Part,
         search : {None} \cup {r.name : r \in UNION {c.search : c \in Catalog}}]

PlanData ==
    /\ IsFiniteSet(Catalog) /\ \A c \in Catalog : wellFormed(c)
    /\ None \notin Plan /\ Global \notin Sessions

-----------------------------------------------------------------------------
(* Properties                                                              *)

(* A live plan keeps every component it calls leased, whatever is          *)
(* deactivated meanwhile; and a lease is held by the acquisition under way *)
(* or by the live plan and by nothing else: every refusal on the way (two  *)
(* searches, a failed compile, another fingerprint) gives its leases back, *)
(* so Mount.Close never waits for a plan nobody holds.                     *)
leasesHeld ==
    /\ call # idle => leases = call.snap
    /\ plan # None => {f.id : f \in plan.parts} \subseteq {c.id : c \in leases}
    /\ call = idle /\ plan = None => leases = {}

(* Strict resume: whatever was mounted, replaced or deactivated since, the *)
(* plan a resumed run executes with is the plan it was admitted with: the  *)
(* same tools with the same schema and executor, the same prompts, guards, *)
(* rules, handlers and handler tools, the same search; and it holds the    *)
(* leases of its components, and nobody else holds any.                    *)
ResumedAsAdmitted == (plan # None => plan = run.admitted) /\ leasesHeld

(* No two tools that are mounted share a name where both apply.            *)
(* (CommitMount with validateComponentPayload).                            *)
mountedApart ==
    \A c, d \in mounted : \A t \in c.tools, u \in d.tools :
      t.name = u.name /\ <<c, t>> # <<d, u>> =>
          ~\E target \in Sessions : ScopeApplies(t.scope, target) /\ ScopeApplies(u.scope, target)

(* Every name the model can call means one thing: the names of tools, their *)
(* aliases, the tools of handlers and the search name are all different.    *)
namesApart(p, search) ==
    /\ Cardinality(ownedTools(p)) = Cardinality(ToolNames(p))
    /\ \A n \in Aliases(p) : Cardinality({o \in ownedTools(p) : n \in o.value.aliases}) = 1
    /\ \A o \in ownedHandlers(p) : \A n \in o.value.tools :
         /\ n \notin ToolNames(p) \cup Aliases(p) \cup {search}
         /\ \A q \in ownedHandlers(p) : n \in q.value.tools => q = o
    /\ ToolNames(p) \cap Aliases(p) = {}
    /\ search \notin ToolNames(p) \cup Aliases(p)

(* No name leads to a tool that a restriction of the plan denies under its *)
(* name or under an alias, nor to one that an Allowed list leaves out.     *)
deniedUnreachable ==
    \A o \in ResolveTools(plan) : \A r \in restrictions(plan.parts) :
        LET called == {o.value.name} \cup o.value.aliases
        IN  called \cap r.denied = {} /\ (r.allowed # {} => called \cap r.allowed # {})

(* Names resolve: where two mounted tools both apply they have different   *)
(* names, every name of a plan means one thing, and none leads to a tool   *)
(* that the plan restricts (CommitMount, buildToolAliasIndex,              *)
(* canonicalize, ResolveTools).                                            *)
NamesResolve ==
    mountedApart /\ (plan # None => namesApart(plan.parts, plan.search) /\ deniedUnreachable)

wouldResume ==
    /\ toolSearchConfig(call)
    /\ NewRunPlan(call, run.failed)
    /\ matches(call, compiled(call, run.failed))

(* When every component the admitted plan was made of is still mounted as  *)
(* it was, and the handler probes end as they did, the resume is accepted, *)
(* whatever else is mounted or gone: a tool that collides with an alias, a *)
(* second search, a shadowed prompt.  This is asked of plans whose search  *)
(* belongs to a component that the descriptor records.                     *)
OthersDoNotBlockResume ==
    call.kind = "resume" =>
        \/ ~call.intact
        \/ \E c \in run.owners : contributed(c) /\ c.id \notin {d.id : d \in run.descriptor.components}
        \/ wouldResume
=============================================================================
