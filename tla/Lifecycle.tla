----------------------------- MODULE Lifecycle ------------------------------
(***************************************************************************)
(* Assembly and shutdown: PluginManager (manifests, depth-first loading,   *)
(* validation, life cycle, reverse shutdown) and Context (the built-in     *)
(* modules).  Each call is a sequence of steps only where it can fail.     *)
(***************************************************************************)
EXTENDS Integers, Sequences, FiniteSets, SequencesExt

CONSTANTS Plugins, Modules,
          Manifests, \* plugin -> its version and dependencies [name, min, max],
                     \* versions as <<major, minor, patch>>
          MaxLoads   \* bound on the calls of Load

VARIABLES
  phase,   \* plugin -> absent, registered, initialized, running, stopped, destroyed
  handles, \* plugins whose library is open
  stack,   \* EnsureLoaded calls in progress: [plugin, todo]
  order,   \* load_order_
  loads, loadFailed, stopped, \* stopped: the plugins in the order of OnStop
  context, \* LifecycleState, and module -> its last hook
  modules

lifeVars == <<phase, handles, stack, order, loads, loadFailed, stopped, context, modules>>
pluginVars == <<phase, handles, stack, order, loads, loadFailed, stopped>>

LifeInit ==
  /\ phase = [p \in Plugins |-> "absent"] /\ handles = {} /\ stack = <<>>
  /\ order = <<>> /\ loads = 0 /\ loadFailed = FALSE /\ stopped = <<>>
  /\ context = "Created" /\ modules = <<>>

Registered == {p \in Plugins : phase[p] # "absent"}
(***************************************************************************)
(* PluginManager                                                           *)
(***************************************************************************)
(* CheckVersion: from min, below max, without the patch numbers. *)
Below(v, w) == v[1] < w[1] \/ (v[1] = w[1] /\ v[2] < w[2])
CheckVersion(dep, v) == ~Below(v, dep.min) /\ Below(v, dep.max)
Call(p) == [plugin |-> p, todo |-> Manifests[p].needs]
Visiting == {stack[i].plugin : i \in DOMAIN stack}
LoadError == stack' = <<>> /\ loadFailed' = TRUE
\* Variant of MayEnter: without the visiting set.
MayEnterAgain(p) == p \in DOMAIN Manifests
\* The manifest of a plugin was discovered, and it is not being resolved yet.
MayEnter(p) == p \in DOMAIN Manifests /\ p \notin Visiting

Load(p) ==
  /\ stack = <<>> /\ loads < MaxLoads /\ loads' = loads + 1
  /\ stopped = <<>> /\ context = "Created"
  /\ IF p \in Registered THEN UNCHANGED <<stack, loadFailed>>
     ELSE IF MayEnter(p) THEN stack' = <<Call(p)>> /\ UNCHANGED loadFailed
     ELSE LoadError
  /\ UNCHANGED <<phase, handles, order, stopped, context, modules>>

(* ResolveEach: the next dependency is loaded, then its version checked.   *)
ResolveNext ==
  /\ stack # <<>> /\ Last(stack).todo # <<>>
  /\ LET dep == Head(Last(stack).todo) IN
     CASE dep.name \in Registered /\ CheckVersion(dep, Manifests[dep.name].version) ->
            stack' = [stack EXCEPT ![Len(stack)].todo = Tail(@)] /\ UNCHANGED loadFailed
       [] dep.name \notin Registered /\ MayEnter(dep.name) ->
            stack' = Append(stack, Call(dep.name)) /\ UNCHANGED loadFailed
       [] OTHER -> LoadError
  /\ UNCHANGED <<phase, handles, order, loads, stopped, context, modules>>
(* LoadSingle: a failing validation or dlopen leaves nothing, a failing    *)
(* CreatePlugin leaves the library open, a failing hook the registration.  *)
LoadSingle ==
  /\ stack # <<>> /\ Last(stack).todo = <<>>
  /\ LET p == Last(stack).plugin IN
     \/ LoadError /\ UNCHANGED <<phase, handles, order>>
     \/ LoadError /\ handles' = handles \cup {p} /\ UNCHANGED <<phase, order>>
     \/ /\ handles' = handles \cup {p} /\ UNCHANGED order
        /\ \E reached \in {"registered", "initialized"} : phase' = [phase EXCEPT ![p] = reached]
        /\ LoadError
     \/ /\ handles' = handles \cup {p} /\ phase' = [phase EXCEPT ![p] = "running"]
        /\ order' = Append(order, p) /\ stack' = Front(stack) /\ UNCHANGED loadFailed
  /\ UNCHANGED <<loads, stopped, context, modules>>

\* The order of ShutdownFrom.
ShutdownOrder == Reverse(order)
(* ShutdownFrom: OnStop of every loaded plugin, whatever the others return. *)
Shutdown ==
  /\ stack = <<>> /\ order # <<>> /\ stopped = <<>> /\ context # "Stopped"
  /\ stopped' = ShutdownOrder
  /\ phase' = [p \in Plugins |-> IF p \in ToSet(order) THEN "stopped" ELSE phase[p]]
  /\ UNCHANGED <<handles, stack, order, loads, loadFailed, context, modules>>

(* ~PluginManager: every open library is closed, its instance destroyed first. *)
DestroyManager ==
  /\ stack = <<>> /\ handles # {} /\ handles' = {} /\ loads' = MaxLoads
  /\ phase' = [p \in Plugins |-> IF p \in Registered THEN "destroyed" ELSE phase[p]]
  /\ UNCHANGED <<stack, order, loadFailed, stopped, context, modules>>

(***************************************************************************)
(* Context                                                                 *)
(***************************************************************************)
RegisterModule(m) ==
  /\ context = "Created" /\ ~\E i \in DOMAIN modules : modules[i].name = m
  /\ modules' = Append(modules, [name |-> m, hook |-> "none"])
  /\ UNCHANGED <<context, pluginVars>>

(* Initialize and Start run the hooks in registration order, up to the     *)
(* first that fails; only then the state stays what it was.                *)
RunHooks(hook, next) ==
  \E n \in 0..Len(modules) :
    /\ modules' = [i \in DOMAIN modules |->
                     IF i <= n THEN [modules[i] EXCEPT !.hook = hook] ELSE modules[i]]
    /\ context' = IF n = Len(modules) THEN next ELSE context
Initialize == /\ context = "Created" /\ stack = <<>> /\ RunHooks("initialized", "Initialized")
              /\ UNCHANGED pluginVars
StartModules == /\ context = "Initialized" /\ RunHooks("started", "Running")
                /\ UNCHANGED pluginVars
(* Stop runs every module's OnStop, in reverse order, whatever they return. *)
StopModules ==
  /\ context # "Stopped" /\ modules # <<>> /\ context' = "Stopped"
  /\ modules' = [i \in DOMAIN modules |-> [modules[i] EXCEPT !.hook = "stopped"]]
  /\ UNCHANGED pluginVars

LifeNext == \/ \E p \in Plugins : Load(p)
            \/ ResolveNext \/ LoadSingle \/ Shutdown \/ DestroyManager
            \/ \E m \in Modules : RegisterModule(m)
            \/ Initialize \/ StartModules \/ StopModules
LifeSpec == LifeInit /\ [][LifeNext]_lifeVars

(***************************************************************************)
(* Properties                                                              *)
(***************************************************************************)
Needs(p) == ToSet(Manifests[p].needs)
Precedes(s, p, q) == \E i, j \in DOMAIN s : i < j /\ s[i] = p /\ s[j] = q

(* Loading resolves a graph with diamonds and cycles (plugin_manager.cpp:  *)
(* 178): it never enters a plugin twice, so it ends; what a started plugin *)
(* needs is registered, in a version from min on whose minor is below max, *)
(* and was started before it as long as no load has failed; and plugins    *)
(* stop before what they need (line 161).                                  *)
LifeInv ==
  /\ Cardinality(Visiting) = Len(stack) /\ Visiting \cap Registered = {}
  /\ IsInjective(order) /\ ToSet(order) \subseteq Registered
  /\ \A p \in ToSet(order) : \A dep \in Needs(p) :
       LET v == Manifests[dep.name].version IN
       /\ dep.name \in Registered
       /\ v[1] > dep.min[1] \/ (v[1] = dep.min[1] /\ v[2] >= dep.min[2])
       /\ v[1] < dep.max[1] \/ (v[1] = dep.max[1] /\ v[2] < dep.max[2])
       /\ ~loadFailed => Precedes(order, dep.name, p)
  /\ \A p, q \in ToSet(stopped) : (\E dep \in Needs(p) : dep.name = q) => Precedes(stopped, p, q)
  /\ context = "Running" => \A i \in DOMAIN modules : modules[i].hook = "started"
  /\ context = "Stopped" => \A i \in DOMAIN modules : modules[i].hook = "stopped"

\* Documented (core plugin system design, line 39): the version of a dependency
\* lies in the range that is declared, patch number included.
VersionInRange == \A p \in ToSet(order) : \A dep \in Needs(p) :
  LET v == Manifests[dep.name].version IN v[1] = dep.min[1] /\ v[2] = dep.min[2] => v[3] >= dep.min[3]
=============================================================================
