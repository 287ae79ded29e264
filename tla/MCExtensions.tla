---------------------------- MODULE MCExtensions ----------------------------
(***************************************************************************)
(* What a host registers, in two models: the life of mounts, leases and    *)
(* notifications (ExtensionRegistry), and what a plan is made of when it   *)
(* is acquired and acquired again (RunPlans).  A behaviour moves one.      *)
(*                                                                         *)
(* Registry: two mounts of one instance id, one after the other.           *)
(* Plans: components that meet in every way the rules tell apart, an       *)
(* aliased tool in two builds, a deny rule and an allow rule of one        *)
(* instance, a search on its own and a search beside a hook, a prompt that *)
(* shadows another, a tool named like an alias, handlers with tools.       *)
(***************************************************************************)
EXTENDS ExtensionRegistry

CONSTANTS Catalog, Configs, Sessions, Global, EveryTool, MaxMounted, s1, s2

VARIABLES mounted, leases, acquisition, runPlan, run,
          moves   \* the model that this behaviour is about

nothing == [artifact |-> 1, hooks |-> {}, tools |-> {}, prompts |-> {}, guards |-> {},
            restrictions |-> {}, search |-> {}, handlers |-> {}]
component(i, c) == [id |-> i, artifact |-> c.artifact, hooks |-> c.hooks, tools |-> c.tools,
                    prompts |-> c.prompts, guards |-> c.guards,
                    restrictions |-> c.restrictions, search |-> c.search,
                    handlers |-> c.handlers]
tool(n, s, a, v) == [id |-> n, name |-> n, scope |-> s, aliases |-> a, schema |-> v]
named(n, s) == [id |-> n, name |-> n, scope |-> s]

Echo(v) == component("echo", [nothing EXCEPT !.tools = {tool("echo", Global, {"say"}, v)},
                                             !.prompts = {named("intro", Global)}])
Rules(allow, deny) ==
    component("rules", [nothing EXCEPT
        !.restrictions = {[id |-> "r", scope |-> Global, allowed |-> allow, denied |-> deny]}])
Find == component("find", [nothing EXCEPT !.search = {named("tool_search", Global)}])
Seek == component("seek", [nothing EXCEPT !.search = {named("seek", Global)},
                                          !.hooks = {named("h", Global)}])
Local == component("local", [nothing EXCEPT !.tools = {tool("grep", s1, {}, 1)},
                                            !.prompts = {named("intro", s1)}])
Say == component("say", [nothing EXCEPT !.tools = {tool("say", Global, {}, 1),
                                                   tool("grep", Global, {}, 1)},
                                        !.guards = {named("g", s2)}])
Files == component("files", [nothing EXCEPT !.handlers =
    {[id |-> "fs", scope |-> Global, kind |-> "toolBearing", config |-> 1, tools |-> {"read"}],
     [id |-> "other", scope |-> s1, kind |-> "other", config |-> 1, tools |-> {"grep"}]}])

MCInstanceID == [m \in Mounts |-> "a"]
MCScope == [m \in Mounts |-> "global"]
MCTarget == [p \in Plans |-> "session"]

MCCatalog == {Echo(1), Echo(2), Rules({}, {"say", "seek"}), Rules({"echo"}, {}),
              Find, Seek, Local, Say, Files}
MCConfigs == {[enabled |-> EveryTool, disabled |-> {}], [enabled |-> {"grep"}, disabled |-> {}],
              [enabled |-> EveryTool, disabled |-> {"echo"}]}

Acquire == INSTANCE RunPlans WITH call <- acquisition, plan <- runPlan

ASSUME PlansData == Acquire!PlanData

planVars == <<mounted, leases, acquisition, runPlan, run>>

ExtensionsInit == Init /\ Acquire!PlansInit /\ moves \in {"registry", "plans"}

ExtensionsNext ==
    /\ \/ moves = "registry" /\ Next /\ UNCHANGED planVars
       \/ moves = "plans" /\ Acquire!PlansNext /\ UNCHANGED vars
    /\ UNCHANGED moves

\* Runs end and release their plan, observers return, the worker and Close are
\* scheduled; nobody has to mount, notify, flush or cancel, and nothing has to
\* happen to a plan.
ExtensionsSpec ==
    /\ ExtensionsInit /\ [][ExtensionsNext]_<<vars, planVars, moves>>
    /\ WF_vars(moves = "registry" /\ \E p \in Plans : Served(p))
    /\ \A c \in Closers : WF_vars(moves = "registry" /\ Closing(c))

-----------------------------------------------------------------------------
(* The properties of RunPlans.                                             *)

\* Strict resume: the plan a resumed run executes with is the one it was
\* admitted with, and it holds the leases of its components, and nothing else
\* holds any (AcquireRunPlan, AcquireResumePlan, RunPlan.Release).
ResumedAsAdmitted == Acquire!ResumedAsAdmitted

\* Every name the model can call means one thing (buildToolAliasIndex), and
\* none leads to a tool that a restriction of the plan denies or leaves out
\* (canonicalize, ResolveTools).
NamesResolve == Acquire!NamesResolve

\* A resume whose components are mounted as they were is accepted, whatever
\* else is mounted (AcquireResumePlan).
OthersDoNotBlockResume == Acquire!OthersDoNotBlockResume
=============================================================================
