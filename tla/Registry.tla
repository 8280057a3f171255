------------------------------ MODULE Registry ------------------------------
(***************************************************************************)
(* The algorithm registry (algorithms/registry.py): names mapped to class  *)
(* factories, filled by the built-ins, by callers and, once, by the        *)
(* plugins that installed packages declare as entry points.  Every use     *)
(* takes one re-entrant lock; discovery holds it while it imports the      *)
(* plugins, and importing a module takes that module's import lock, so     *)
(* the two locks can be taken in either order.                             *)
(*                                                                         *)
(* A factory stands for the class it returns; running it happens outside   *)
(* the lock and changes nothing here.  Unreadable entry-point metadata is  *)
(* the case of no entry points.                                            *)
(***************************************************************************)
EXTENDS Naturals, Sequences, FiniteSets

CONSTANTS
  Threads,
  Builtins,      \* names that open_detect.algorithms registers when imported
  EntryPoints,   \* a sequence of records [name, kind, registers]
  Callable,      \* names threads look up
  Registrable,   \* names threads register
  Imported,      \* positions of the plugins that threads also import themselves
  MaxCalls,      \* calls a thread makes
  None

Plugins == DOMAIN EntryPoints

(* What ep.load() ends with: an algorithm class, something else, or an     *)
(* exception; "registers" are the names the module registers by itself.    *)
ASSUME EntryPointsAssumption ==
  /\ EntryPoints \in Seq({EntryPoints[i] : i \in Plugins})
  /\ \A i \in Plugins : /\ EntryPoints[i].kind \in {"algorithm", "other", "broken"}
                       /\ IsFiniteSet(EntryPoints[i].registers)

ASSUME ImportedAssumption == Imported \subseteq Plugins

ASSUME NoneAssumption ==
  /\ None \notin Threads
  /\ \A t \in Threads : None # <<"thread", t>>
  /\ \A i \in Plugins : None # <<"plugin", i>> /\ None # <<"body", i>>
  /\ \A n \in Builtins : None # <<"builtin", n>>

Names == Builtins \union Callable \union Registrable
           \union {EntryPoints[i].name : i \in Plugins}
           \union UNION {EntryPoints[i].registers : i \in Plugins}

VARIABLES
  registry,      \* name -> the class that is registered, or None
  loaded,        \* _entry_points_loaded
  owner,         \* the thread that holds _lock, or None
  module,        \* plugin -> "absent", "imported", or the thread importing it
  call,          \* thread -> what it does, a record [op, name]
  todo,          \* thread -> the plugins it still has to import, the first now
  pending,       \* thread -> the names the module it imports will register
  pc,
  result,        \* thread -> what its last lookup returned
  calls          \* thread -> calls left

vars == <<registry, loaded, owner, module, call, todo, pending, pc, result, calls>>

Registered == {n \in Names : registry[n] # None}

Go(t, to) == pc' = [pc EXCEPT ![t] = to]

(* with _lock: free, or entered again by its owner.                        *)
CanLock_Always(t) == TRUE

CanLock(t) == owner \in {None, t}

Calls == {[op |-> "get", name |-> n] : n \in Callable}
           \union {[op |-> "list", name |-> None]}
           \union {[op |-> "register", name |-> n] : n \in Registrable}
           \union {[op |-> "import", name |-> i] : i \in Imported}

Begin(t) ==
  /\ pc[t] = "idle" /\ calls[t] > 0
  /\ calls' = [calls EXCEPT ![t] = @ - 1]
  /\ \E c \in Calls :
       /\ call' = [call EXCEPT ![t] = c]
       /\ IF c.op = "import"
          THEN Go(t, "import") /\ todo' = [todo EXCEPT ![t] = <<c.name>>]
          ELSE Go(t, IF c.op = "register" THEN "claim" ELSE "enter") /\ UNCHANGED todo
  /\ result' = [result EXCEPT ![t] = None]
  /\ UNCHANGED <<registry, loaded, owner, module, pending>>

(* register_lazy, called directly                                          *)
Claim(t) ==
  /\ pc[t] = "claim" /\ CanLock(t)
  /\ registry' = [registry EXCEPT ![call[t].name] = <<"thread", t>>]
  /\ Go(t, "idle")
  /\ UNCHANGED <<loaded, owner, module, call, todo, pending, result, calls>>

(***************************************************************************)
(* Lookups.  get_algorithm_class discovers only if the name is missing and *)
(* keeps the lock until it answers; list_algorithms always asks for        *)
(* discovery and takes the lock again for its answer.                      *)
(***************************************************************************)
NeedsDiscovery_Always(t) == ~loaded

NeedsDiscovery(t) ==
  /\ ~loaded
  /\ call[t].op = "list" \/ call[t].name \notin Registered

KeepForAnswer(t) == owner' = IF call[t].op = "get" THEN t ELSE None

Enter(t) ==
  /\ pc[t] = "enter" /\ CanLock(t) /\ ~NeedsDiscovery(t)
  /\ KeepForAnswer(t)
  /\ Go(t, "answer")
  /\ UNCHANGED <<registry, loaded, module, call, todo, pending, result, calls>>

(* Mutant: the lock guards the flag only, not the imports.                 *)
EnterDiscovery_Unlocks(t) ==
  /\ pc[t] = "enter" /\ CanLock(t) /\ NeedsDiscovery(t)
  /\ loaded' = TRUE
  /\ todo' = [todo EXCEPT ![t] = [i \in Plugins |-> i]]
  /\ Go(t, "discover")
  /\ UNCHANGED <<registry, owner, module, call, pending, result, calls>>

(* _load_entry_points: the flag is set before the first plugin is loaded.  *)
EnterDiscovery(t) ==
  /\ pc[t] = "enter" /\ CanLock(t) /\ NeedsDiscovery(t)
  /\ owner' = t
  /\ loaded' = TRUE
  /\ todo' = [todo EXCEPT ![t] = [i \in Plugins |-> i]]
  /\ Go(t, "discover")
  /\ UNCHANGED <<registry, module, call, pending, result, calls>>

(* A built-in, a caller or an earlier plugin has claimed the name.         *)
Claimed(t) == EntryPoints[Head(todo[t])].name \in Registered

SkipPlugin(t) ==
  /\ pc[t] = "discover" /\ todo[t] # << >> /\ Claimed(t)
  /\ todo' = [todo EXCEPT ![t] = Tail(@)]
  /\ UNCHANGED <<registry, loaded, owner, module, call, pending, pc, result, calls>>

LoadPlugin(t) ==
  /\ pc[t] = "discover" /\ todo[t] # << >> /\ ~Claimed(t)
  /\ Go(t, "import")
  /\ UNCHANGED <<registry, loaded, owner, module, call, todo, pending, result, calls>>

EndDiscovery(t) ==
  /\ pc[t] = "discover" /\ todo[t] = << >>
  /\ KeepForAnswer(t)
  /\ Go(t, "answer")
  /\ UNCHANGED <<registry, loaded, module, call, todo, pending, result, calls>>

Answer_KeepsLock(t) ==
  /\ pc[t] = "answer" /\ CanLock(t)
  /\ result' = [result EXCEPT ![t] = IF call[t].op = "list"
                                     THEN Registered
                                     ELSE Registered \intersect {call[t].name}]
  /\ owner' = IF call[t].op = "get" /\ call[t].name \notin Registered THEN t ELSE None
  /\ Go(t, "idle")
  /\ UNCHANGED <<registry, loaded, module, call, todo, pending, calls>>

(* The names; or the factory of the one name, or UnknownAlgorithmError (no  *)
(* name).                                                                  *)
Answer(t) ==
  /\ pc[t] = "answer" /\ CanLock(t)
  /\ result' = [result EXCEPT ![t] = IF call[t].op = "list"
                                     THEN Registered
                                     ELSE Registered \intersect {call[t].name}]
  /\ owner' = None
  /\ Go(t, "idle")
  /\ UNCHANGED <<registry, loaded, module, call, todo, pending, calls>>

(***************************************************************************)
(* Importing a plugin, for discovery or because a thread asked for it      *)
(***************************************************************************)
RunModule(t) ==
  LET i == Head(todo[t]) IN
  /\ pc[t] = "import" /\ module[i] = "absent"
  /\ module' = [module EXCEPT ![i] = t]
  /\ pending' = [pending EXCEPT ![t] = EntryPoints[i].registers]
  /\ Go(t, "body")
  /\ UNCHANGED <<registry, loaded, owner, call, todo, result, calls>>

(* register_algorithm or register_lazy in the module's body, of any class  *)
(* it likes.                                                               *)
RegisterItself(t) ==
  /\ pc[t] = "body" /\ CanLock(t)
  /\ \E n \in pending[t] :
       /\ registry' = [registry EXCEPT ![n] = <<"body", Head(todo[t])>>]
       /\ pending' = [pending EXCEPT ![t] = @ \ {n}]
  /\ UNCHANGED <<loaded, owner, module, call, todo, pc, result, calls>>

(* What ep.load() gave, if the module could be imported: discovery         *)
(* registers it if it is an algorithm, over whatever is there by now, and  *)
(* goes on.                                                                *)
AfterImport(t) ==
  LET i == Head(todo[t])
      found == call[t].op # "import" /\ EntryPoints[i].kind = "algorithm"
  IN  /\ registry' = IF found THEN [registry EXCEPT ![EntryPoints[i].name] = <<"plugin", i>>] ELSE registry
      /\ todo' = [todo EXCEPT ![t] = Tail(@)]
      /\ Go(t, IF call[t].op = "import" THEN "idle" ELSE "discover")
      /\ UNCHANGED <<loaded, owner, call, pending, result, calls>>

EndModule(t) ==
  LET i == Head(todo[t]) IN
  /\ pc[t] = "body" /\ pending[t] = {}
  /\ module' = [module EXCEPT ![i] = IF EntryPoints[i].kind = "broken" THEN "absent" ELSE "imported"]
  /\ AfterImport(t)

UseModule(t) ==
  /\ pc[t] = "import" /\ module[Head(todo[t])] = "imported"
  /\ UNCHANGED module
  /\ AfterImport(t)

-----------------------------------------------------------------------------
Init ==
  /\ registry = [n \in Names |-> IF n \in Builtins THEN <<"builtin", n>> ELSE None]
  /\ loaded = FALSE
  /\ owner = None
  /\ module = [i \in Plugins |-> "absent"]
  /\ call = [t \in Threads |-> [op |-> "none", name |-> None]]
  /\ todo = [t \in Threads |-> << >>]
  /\ pending = [t \in Threads |-> {}]
  /\ pc = [t \in Threads |-> "idle"]
  /\ result = [t \in Threads |-> None]
  /\ calls = [t \in Threads |-> MaxCalls]

Step(t) ==
  \/ Claim(t) \/ Enter(t) \/ EnterDiscovery(t) \/ SkipPlugin(t) \/ LoadPlugin(t)
  \/ EndDiscovery(t) \/ Answer(t) \/ RunModule(t) \/ RegisterItself(t) \/ EndModule(t) \/ UseModule(t)

Next == \E t \in Threads : Begin(t) \/ Step(t)

Spec == Init /\ [][Next]_vars

(* A thread that was called runs until it has to wait, and a lock that is  *)
(* free is given to one that waits for it.                                 *)
FairSpec == Spec /\ \A t \in Threads : WF_vars(Step(t))

-----------------------------------------------------------------------------
Algorithms == {EntryPoints[i].name : i \in {j \in Plugins : EntryPoints[j].kind = "algorithm"}}

RegistryTypeOK ==
  /\ owner \in Threads \union {None}
  /\ \A t \in Threads : pc[t] \in {"idle", "claim", "enter", "discover", "answer", "import", "body"}
  /\ \A t \in Threads : pc[t] \in {"discover", "import", "body"} /\ call[t].op # "import" => owner = t
  /\ \A t \in Threads : pc[t] = "idle" => owner # t

(* No lookup, however many race for the first discovery, misses the        *)
(* algorithm of an installed plugin: the flag that is set before the       *)
(* plugins are loaded is not seen by others until all are (registry.py:93).*)
NoPluginMissed ==
  \A t \in Threads :
    result[t] # None =>
      LET asked == IF call[t].op = "list" THEN Names ELSE {call[t].name}
      IN  asked \intersect (Algorithms \union Builtins) \subseteq result[t]

(* Discovery loads plugin i, and the name n of its entry point is taken by *)
(* what the body of i's own module registered a moment ago.                *)
OwnName(t, n) ==
  LET i == Head(todo[t])
  IN  /\ pc[t] \in {"import", "body"} /\ call[t].op # "import"
      /\ n = EntryPoints[i].name /\ registry[n] = <<"body", i>>

(* Discovery asks whether a name is claimed, imports the plugin and then   *)
(* writes the name without asking again (registry.py:98, 101, 119).  The   *)
(* only registration it can overwrite so is one of the plugin's own body,  *)
(* never one of a built-in, of another plugin or of another thread;        *)
(* otherwise a registered name changes only where somebody registers it.   *)
ClaimsKept ==
  [][\A n \in Registered : registry'[n] # registry[n] =>
       \E t \in Threads : \/ pc[t] = "claim" /\ call[t].name = n
                          \/ pc[t] = "body" /\ n \in pending[t]
                          \/ OwnName(t, n)]_vars

(* Looking up a name that is registered imports no third-party code        *)
(* (registry.py:21).                                                       *)
BuiltinsImportNothing ==
  \A t \in Threads : (call[t].op = "get" /\ call[t].name \in Builtins) =>
    pc[t] \notin {"discover", "import", "body"}

(* The one way to wait forever: discovery holds the registry's lock and    *)
(* waits for a module that another thread imports, whose body registers    *)
(* an algorithm and waits for the registry's lock.                         *)
Crossed ==
  \E t, u \in Threads :
    /\ owner = t /\ pc[t] = "import" /\ module[Head(todo[t])] = u
    /\ t # u /\ pc[u] = "body" /\ pending[u] # {}

(* Every call returns unless the two locks were crossed.                   *)
CallsReturn == \A t \in Threads : pc[t] # "idle" ~> (pc[t] = "idle" \/ Crossed)

=============================================================================
