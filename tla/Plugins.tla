------------------------------- MODULE Plugins -------------------------------
(***************************************************************************)
(* The plugin core: packages/core, plugin.service.ts and                   *)
(* lifecycle.service.ts.  A plugin declares what it depends on; registering *)
(* it loads it at once together with the dependencies nobody registered,   *)
(* and takes the new plugins through the lifecycle stages reached so far.  *)
(* Every call is synchronous: a registration, which takes several steps    *)
(* here, ends before another call begins.  PluginType has one usable value, *)
(* UNKNOWN, so the lazy loading by type never happens and is left out: a   *)
(* registered plugin is a loaded one.                                      *)
(***************************************************************************)
EXTENDS Naturals, Sequences

CONSTANTS Plugin  \* plugin classes

VARIABLES
  deps,     \* EXTERNAL: what each class names in @DependentOn
  seen,     \* _seenPlugins
  visiting, \* the calls of dfs under way, the innermost last, with the dependencies to come
  final,    \* finalPlugins
  loaded,   \* the plugin store: instances in the order they were created
  config,   \* plugins that were created with the configuration of the caller
  fresh,    \* instances that are being taken through the stages reached before them
  turn,     \* the stage they come to next
  stage,    \* LifecycleService: Starting, Ready, Rendered, Steady
  reached,  \* history: stages the lifecycle has been set to, some may be skipped
  hooks,    \* history: the lifecycle hooks in the order they were called
  disposed  \* Core.dispose has run

vars == <<deps, seen, visiting, final, loaded, config, fresh, turn, stage, reached, hooks, disposed>>

Starting == 0
Ready == 1
Rendered == 2
Steady == 3

\* A class can only name classes that are defined before it.
Acyclic(d) == \A S \in (SUBSET Plugin) \ {{}} : \E p \in S : d[p] \cap S = {}

Init ==
  /\ deps \in {d \in [Plugin -> SUBSET Plugin] : Acyclic(d)}
  /\ seen = {} /\ visiting = <<>> /\ final = <<>> /\ loaded = <<>> /\ config = {}
  /\ fresh = <<>> /\ turn = Starting
  /\ stage = Starting /\ reached = {Starting} /\ hooks = <<>> /\ disposed = FALSE

Idle == visiting = <<>> /\ final = <<>> /\ fresh = <<>>

Visit(p) == [plugin |-> p, todo |-> deps[p]]

\* registerPlugin; a second registration of a name throws, also when a plugin
\* that depends on it has brought it in.
Register(p) ==
  /\ ~disposed /\ Idle /\ p \notin seen
  /\ seen' = seen \cup {p} /\ config' = config \cup {p}
  /\ visiting' = <<Visit(p)>>
  /\ UNCHANGED <<deps, final, loaded, fresh, turn, stage, reached, hooks, disposed>>

\* A turn of dfs's loop over the dependencies, whatever order they are named in:
\* one that was seen is there or will be, any other is registered and visited.
Descend(d) ==
  LET n == Len(visiting)
      rest == [visiting EXCEPT ![n].todo = @ \ {d}] IN
  /\ visiting # <<>> /\ d \in visiting[n].todo
  /\ IF d \in seen THEN visiting' = rest /\ UNCHANGED seen
     ELSE visiting' = Append(rest, Visit(d)) /\ seen' = seen \cup {d}
  /\ UNCHANGED <<deps, final, loaded, config, fresh, turn, stage, reached, hooks, disposed>>

\* Fault variant: a plugin is put before what was visited for it.
LeaveFirst ==
  /\ visiting # <<>> /\ visiting[Len(visiting)].todo = {}
  /\ final' = <<visiting[Len(visiting)].plugin>> \o final
  /\ visiting' = SubSeq(visiting, 1, Len(visiting) - 1)
  /\ UNCHANGED <<deps, seen, loaded, config, fresh, turn, stage, reached, hooks, disposed>>

\* dfs ends: the plugin comes after what was visited for it.
Leave ==
  /\ visiting # <<>> /\ visiting[Len(visiting)].todo = {}
  /\ final' = Append(final, visiting[Len(visiting)].plugin)
  /\ visiting' = SubSeq(visiting, 1, Len(visiting) - 1)
  /\ UNCHANGED <<deps, seen, loaded, config, fresh, turn, stage, reached, hooks, disposed>>

\* _initPlugin, for all that were visited.
Create ==
  /\ visiting = <<>> /\ final # <<>>
  /\ loaded' = loaded \o final /\ final' = <<>>
  /\ fresh' = final /\ turn' = Starting
  /\ UNCHANGED <<deps, seen, visiting, config, stage, reached, hooks, disposed>>

\* _runStage.
RunStage(plugins, s) == [k \in DOMAIN plugins |-> <<plugins[k], s>>]

\* getLifecycleStagesAndBefore, for the plugins that were created just now.
Replay ==
  /\ fresh # <<>>
  /\ hooks' = hooks \o RunStage(fresh, turn)
  /\ IF turn < stage THEN turn' = turn + 1 /\ UNCHANGED fresh
     ELSE fresh' = <<>> /\ turn' = Starting
  /\ UNCHANGED <<deps, seen, visiting, final, loaded, config, stage, reached, disposed>>

\* setStage: the plugins subscribed as they were created.
SetStage(s) ==
  /\ ~disposed /\ Idle /\ stage < s
  /\ stage' = s /\ reached' = reached \cup {s}
  /\ hooks' = hooks \o RunStage(loaded, s)
  /\ UNCHANGED <<deps, seen, visiting, final, loaded, config, fresh, turn, disposed>>

\* Core.start and Core.ready; nothing sets Rendered by itself.
CoreStart == SetStage(Ready)
CoreReady == SetStage(Steady)

CoreDispose ==
  /\ ~disposed /\ Idle
  /\ disposed' = TRUE /\ loaded' = <<>>
  /\ UNCHANGED <<deps, seen, visiting, final, config, fresh, turn, stage, reached, hooks>>

Next ==
  \/ \E p \in Plugin : Register(p) \/ Descend(p)
  \/ Leave \/ Create \/ Replay
  \/ CoreStart \/ CoreReady \/ CoreDispose

Spec == Init /\ [][Next]_vars

-----------------------------------------------------------------------------
Stage == Starting..Steady

TypeOK ==
  /\ deps \in [Plugin -> SUBSET Plugin] /\ seen \subseteq Plugin
  /\ visiting \in Seq([plugin : Plugin, todo : SUBSET Plugin])
  /\ final \in Seq(Plugin) /\ loaded \in Seq(Plugin) /\ fresh \in Seq(Plugin)
  /\ config \subseteq seen /\ turn \in 0..stage /\ stage \in reached /\ reached \subseteq Stage
  /\ hooks \in Seq(Plugin \X Stage) /\ disposed \in BOOLEAN

CalledAt(p, s) == {k \in DOMAIN hooks : hooks[k] = <<p, s>>}

\* Whatever the order of registrations, however late they come: a plugin is
\* created once and after all it depends on; it goes through the stages in their
\* order and each once, at each stage after all it depends on; and when no
\* registration is under way it has been through every stage the lifecycle was
\* set to.
HooksInOrder ==
  /\ \A j, k \in DOMAIN hooks :
       j < k => \/ hooks[j][1] = hooks[k][1] /\ hooks[j][2] < hooks[k][2]
                \/ hooks[j][1] # hooks[k][1]
                     /\ (hooks[k][1] \in deps[hooks[j][1]] => hooks[j][2] # hooks[k][2])
  /\ \A k \in DOMAIN loaded :
       /\ \A j \in DOMAIN loaded : loaded[j] = loaded[k] => j = k
       /\ \A d \in deps[loaded[k]] : \E j \in DOMAIN loaded : j < k /\ loaded[j] = d
       /\ fresh = <<>> => \A s \in reached : CalledAt(loaded[k], s) # {}
=============================================================================
