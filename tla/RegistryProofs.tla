--------------------------- MODULE RegistryProofs ---------------------------
(***************************************************************************)
(* What holds of the registry for every set of threads, plugins and names. *)
(* The argument: whoever discovers holds the lock from before the flag is  *)
(* set until the last plugin is dealt with (LockInv), so a thread that     *)
(* gets the lock and finds the flag set finds every plugin registered      *)
(* (FoundInv), and names are never taken out again.                        *)
(***************************************************************************)
EXTENDS Registry, TLAPS

Discovering(t) == pc[t] \in {"discover", "import", "body"} /\ call[t].op # "import"

Holds(t) == Discovering(t) \/ (pc[t] = "answer" /\ call[t].op = "get")

Waits(t, i) == Discovering(t) /\ \E k \in 1..Len(todo[t]) : todo[t][k] = i

Asked(t) == IF call[t].op = "list" THEN Names ELSE {call[t].name}

Shape ==
  /\ DOMAIN registry = Names
  /\ DOMAIN call = Threads /\ DOMAIN todo = Threads /\ DOMAIN pc = Threads
  /\ DOMAIN result = Threads
  /\ \A t \in Threads : todo[t] \in Seq(Plugins)
  /\ \A t \in Threads : pc[t] \in {"idle", "claim", "enter", "discover", "answer", "import", "body"}
  /\ \A t \in Threads : pc[t] \in {"import", "body"} => todo[t] # << >>
  /\ \A t \in Threads : pc[t] \in {"enter", "discover", "answer"} => call[t].op # "import"

LockInv ==
  /\ owner \in Threads \union {None}
  /\ \A t \in Threads : Holds(t) <=> owner = t
  /\ \A t \in Threads : Discovering(t) => loaded

(* Built-ins stay registered; once the flag is set, an algorithm is        *)
(* registered or its plugin is still to be loaded by the one that holds    *)
(* the lock.                                                               *)
FoundInv ==
  /\ Builtins \subseteq Registered
  /\ loaded => \A i \in Plugins : EntryPoints[i].kind = "algorithm" =>
                 \/ EntryPoints[i].name \in Registered
                 \/ \E t \in Threads : Waits(t, i)

(* A thread that is about to answer, or has answered, knows all there is.  *)
AnswerInv ==
  \A t \in Threads :
    /\ pc[t] = "answer" => Asked(t) \intersect (Algorithms \union Builtins) \subseteq Registered
    /\ result[t] # None => Asked(t) \intersect (Algorithms \union Builtins) \subseteq result[t]

(* The name of the plugin that discovery imports is free, or taken by the  *)
(* plugin's own module.                                                    *)
FreeInv ==
  \A t \in Threads : (pc[t] \in {"import", "body"} /\ Discovering(t)) =>
    LET i == Head(todo[t])
    IN  EntryPoints[i].name \in Registered => registry[EntryPoints[i].name] = <<"body", i>>

Inv == Shape /\ LockInv /\ FoundInv /\ AnswerInv /\ FreeInv /\ BuiltinsImportNothing

-----------------------------------------------------------------------------
(* What is in a sequence is its head or in its tail.                       *)
LEMMA HeadTail ==
  ASSUME NEW S, NEW s \in Seq(S), s # << >>
  PROVE  /\ Head(s) \in S /\ Tail(s) \in Seq(S)
         /\ \A k \in 1..Len(s) : s[k] = Head(s) \/ \E j \in 1..Len(Tail(s)) : Tail(s)[j] = s[k]
<1>1. Head(s) \in S /\ Tail(s) \in Seq(S) /\ Head(s) = s[1]
  OBVIOUS
<1>2. Len(Tail(s)) = Len(s) - 1 /\ Len(s) \in Nat /\ \A j \in 1..Len(s) - 1 : Tail(s)[j] = s[j + 1]
  OBVIOUS
<1>3. ASSUME NEW k \in 1..Len(s)
      PROVE  s[k] = Head(s) \/ \E j \in 1..Len(Tail(s)) : Tail(s)[j] = s[k]
  <2>1. CASE k = 1
    BY <1>1, <2>1
  <2>2. CASE k # 1
    <3>1. k - 1 \in 1..Len(Tail(s)) /\ Tail(s)[k - 1] = s[k]
      BY <1>2, <2>2
    <3> QED
      BY <3>1
  <2> QED
    BY <2>1, <2>2
<1> QED
  BY <1>1, <1>3

LEMMA PluginsAreNumbered == \E n \in Nat : Plugins = 1..n
<1>1. Len(EntryPoints) \in Nat /\ DOMAIN EntryPoints = 1..Len(EntryPoints)
  BY EntryPointsAssumption
<1> QED
  BY <1>1 DEF Plugins

LEMMA InvInit == Init => Inv
<1> SUFFICES ASSUME Init PROVE Inv
  OBVIOUS
<1>1. Shape
  BY DEF Init, Shape
<1>2. LockInv
  BY NoneAssumption DEF Init, LockInv, Holds, Discovering
<1>3. FoundInv
  BY NoneAssumption DEF Init, FoundInv, Registered, Names
<1>4. AnswerInv /\ FreeInv /\ BuiltinsImportNothing
  BY DEF Init, AnswerInv, FreeInv, BuiltinsImportNothing, Discovering
<1> QED
  BY <1>1, <1>2, <1>3, <1>4 DEF Inv

(* A name that is registered stays registered, under whatever class.      *)
LEMMA RegisteredStays ==
  ASSUME NEW t \in Threads, Shape, Begin(t) \/ Step(t)
  PROVE  \A n \in Registered : n \in Registered'
<1>a. todo[t] # << >> => /\ Head(todo[t]) \in Plugins
                         /\ Tail(todo[t]) \in Seq(Plugins)
  BY HeadTail DEF Shape
<1>1. CASE Begin(t)
  BY <1>1, <1>a, NoneAssumption
  DEF Begin, Go, Calls, Registered, Shape
<1>2. CASE Claim(t)
  BY <1>2, <1>a, NoneAssumption
  DEF Claim, Go, CanLock, Registered, Shape
<1>3. CASE Enter(t)
  BY <1>3, <1>a, NoneAssumption
  DEF Enter, Go, CanLock, NeedsDiscovery, KeepForAnswer, Registered, Shape
<1>4. CASE EnterDiscovery(t)
  BY <1>4, <1>a, NoneAssumption
  DEF EnterDiscovery, Go, CanLock, NeedsDiscovery, Registered, Shape
<1>5. CASE SkipPlugin(t)
  BY <1>5, <1>a, NoneAssumption
  DEF SkipPlugin, Go, Claimed, Registered, Shape
<1>6. CASE LoadPlugin(t)
  BY <1>6, <1>a, NoneAssumption
  DEF LoadPlugin, Go, Claimed, Registered, Shape
<1>7. CASE EndDiscovery(t)
  BY <1>7, <1>a, NoneAssumption
  DEF EndDiscovery, Go, KeepForAnswer, Registered, Shape
<1>8. CASE Answer(t)
  BY <1>8, <1>a, NoneAssumption
  DEF Answer, Go, CanLock, Registered, Shape
<1>9. CASE RunModule(t)
  BY <1>9, <1>a, NoneAssumption
  DEF RunModule, Go, Registered, Shape
<1>10. CASE RegisterItself(t)
  BY <1>10, <1>a, NoneAssumption
  DEF RegisterItself, Go, CanLock, Registered, Shape
<1>11. CASE EndModule(t)
  BY <1>11, <1>a, NoneAssumption
  DEF EndModule, Go, AfterImport, Registered, Shape
<1>12. CASE UseModule(t)
  BY <1>12, <1>a, NoneAssumption
  DEF UseModule, Go, AfterImport, Registered, Shape
<1> QED
  BY <1>1, <1>2, <1>3, <1>4, <1>5, <1>6, <1>7, <1>8, <1>9, <1>10, <1>11, <1>12 DEF Step

LEMMA ShapeStep ==
  ASSUME NEW t \in Threads, Shape, Begin(t) \/ Step(t)
  PROVE  Shape'
<1>a. todo[t] # << >> => /\ Head(todo[t]) \in Plugins
                         /\ Tail(todo[t]) \in Seq(Plugins)
  BY HeadTail DEF Shape
<1>b. [i \in Plugins |-> i] \in Seq(Plugins)
  <2>1. PICK n \in Nat : Plugins = 1..n
    BY PluginsAreNumbered
  <2>2. [i \in 1..n |-> i] \in Seq(1..n)
    OBVIOUS
  <2> QED
    BY <2>1, <2>2
<1>c. \A i \in Imported : i \in Plugins
  BY ImportedAssumption
<1>1. CASE Begin(t)
  <2>1. PICK c \in Calls :
          /\ call' = [call EXCEPT ![t] = c]
          /\ IF c.op = "import"
             THEN Go(t, "import") /\ todo' = [todo EXCEPT ![t] = <<c.name>>]
             ELSE Go(t, IF c.op = "register" THEN "claim" ELSE "enter") /\ UNCHANGED todo
    BY <1>1 DEF Begin
  <2>2. c.op = "import" => c.name \in Plugins
    BY <1>c DEF Calls
  <2>3. UNCHANGED registry /\ DOMAIN result' = DOMAIN result
    BY <1>1 DEF Begin
  <2>4. CASE c.op = "import"
    <3>1. <<c.name>> \in Seq(Plugins) /\ <<c.name>> # << >>
      BY <2>2, <2>4
    <3> QED
      BY <2>1, <2>3, <2>4, <3>1 DEF Go, Shape
  <2>5. CASE c.op # "import"
    BY <2>1, <2>3, <2>5 DEF Go, Shape
  <2> QED
    BY <2>4, <2>5
<1>2. CASE Claim(t)
  BY <1>2, <1>a, <1>b, <1>c
  DEF Claim, Go, CanLock, Shape
<1>3. CASE Enter(t)
  BY <1>3, <1>a, <1>b, <1>c
  DEF Enter, Go, CanLock, NeedsDiscovery, KeepForAnswer, Shape
<1>4. CASE EnterDiscovery(t)
  BY <1>4, <1>a, <1>b, <1>c
  DEF EnterDiscovery, Go, CanLock, NeedsDiscovery, Shape
<1>5. CASE SkipPlugin(t)
  BY <1>5, <1>a, <1>b, <1>c
  DEF SkipPlugin, Go, Claimed, Shape
<1>6. CASE LoadPlugin(t)
  BY <1>6, <1>a, <1>b, <1>c
  DEF LoadPlugin, Go, Claimed, Shape
<1>7. CASE EndDiscovery(t)
  BY <1>7, <1>a, <1>b, <1>c
  DEF EndDiscovery, Go, KeepForAnswer, Shape
<1>8. CASE Answer(t)
  BY <1>8, <1>a, <1>b, <1>c
  DEF Answer, Go, CanLock, Shape
<1>9. CASE RunModule(t)
  BY <1>9, <1>a, <1>b, <1>c
  DEF RunModule, Go, Shape
<1>10. CASE RegisterItself(t)
  BY <1>10, <1>a, <1>b, <1>c
  DEF RegisterItself, Go, CanLock, Shape
<1>11. CASE EndModule(t)
  BY <1>11, <1>a, <1>b, <1>c
  DEF EndModule, Go, AfterImport, Shape
<1>12. CASE UseModule(t)
  BY <1>12, <1>a, <1>b, <1>c
  DEF UseModule, Go, AfterImport, Shape
<1> QED
  BY <1>1, <1>2, <1>3, <1>4, <1>5, <1>6, <1>7, <1>8, <1>9, <1>10, <1>11, <1>12 DEF Step

LEMMA LockStep ==
  ASSUME NEW t \in Threads, Shape, LockInv, Begin(t) \/ Step(t)
  PROVE  LockInv'
<1>1. CASE Begin(t)
  BY <1>1, NoneAssumption
  DEF Begin, Go, Calls, Shape, LockInv, Holds, Discovering
<1>2. CASE Claim(t)
  BY <1>2, NoneAssumption
  DEF Claim, Go, CanLock, Shape, LockInv, Holds, Discovering
<1>3. CASE Enter(t)
  BY <1>3, NoneAssumption
  DEF Enter, Go, CanLock, NeedsDiscovery, KeepForAnswer, Shape, LockInv, Holds, Discovering
<1>4. CASE EnterDiscovery(t)
  BY <1>4, NoneAssumption
  DEF EnterDiscovery, Go, CanLock, NeedsDiscovery, Shape, LockInv, Holds, Discovering
<1>5. CASE SkipPlugin(t)
  BY <1>5, NoneAssumption
  DEF SkipPlugin, Go, Claimed, Shape, LockInv, Holds, Discovering
<1>6. CASE LoadPlugin(t)
  BY <1>6, NoneAssumption
  DEF LoadPlugin, Go, Claimed, Shape, LockInv, Holds, Discovering
<1>7. CASE EndDiscovery(t)
  BY <1>7, NoneAssumption
  DEF EndDiscovery, Go, KeepForAnswer, Shape, LockInv, Holds, Discovering
<1>8. CASE Answer(t)
  BY <1>8, NoneAssumption
  DEF Answer, Go, CanLock, Shape, LockInv, Holds, Discovering
<1>9. CASE RunModule(t)
  BY <1>9, NoneAssumption
  DEF RunModule, Go, Shape, LockInv, Holds, Discovering
<1>10. CASE RegisterItself(t)
  BY <1>10, NoneAssumption
  DEF RegisterItself, Go, CanLock, Shape, LockInv, Holds, Discovering
<1>11. CASE EndModule(t)
  BY <1>11, NoneAssumption
  DEF EndModule, Go, AfterImport, Shape, LockInv, Holds, Discovering
<1>12. CASE UseModule(t)
  BY <1>12, NoneAssumption
  DEF UseModule, Go, AfterImport, Shape, LockInv, Holds, Discovering
<1> QED
  BY <1>1, <1>2, <1>3, <1>4, <1>5, <1>6, <1>7, <1>8, <1>9, <1>10, <1>11, <1>12 DEF Step

(* A step of one thread leaves what belongs to another alone.              *)
LEMMA OthersUntouched ==
  ASSUME NEW t \in Threads, Shape, Begin(t) \/ Step(t)
  PROVE  \A u \in Threads \ {t} : /\ pc'[u] = pc[u] /\ call'[u] = call[u]
                                    /\ todo'[u] = todo[u] /\ result'[u] = result[u]
<1>1. CASE Begin(t)
  BY <1>1
  DEF Begin, Go, Calls, Shape
<1>2. CASE Claim(t)
  BY <1>2
  DEF Claim, Go, CanLock, Shape
<1>3. CASE Enter(t)
  BY <1>3
  DEF Enter, Go, CanLock, NeedsDiscovery, KeepForAnswer, Shape
<1>4. CASE EnterDiscovery(t)
  BY <1>4
  DEF EnterDiscovery, Go, CanLock, NeedsDiscovery, Shape
<1>5. CASE SkipPlugin(t)
  BY <1>5
  DEF SkipPlugin, Go, Claimed, Shape
<1>6. CASE LoadPlugin(t)
  BY <1>6
  DEF LoadPlugin, Go, Claimed, Shape
<1>7. CASE EndDiscovery(t)
  BY <1>7
  DEF EndDiscovery, Go, KeepForAnswer, Shape
<1>8. CASE Answer(t)
  BY <1>8
  DEF Answer, Go, CanLock, Shape
<1>9. CASE RunModule(t)
  BY <1>9
  DEF RunModule, Go, Shape
<1>10. CASE RegisterItself(t)
  BY <1>10
  DEF RegisterItself, Go, CanLock, Shape
<1>11. CASE EndModule(t)
  BY <1>11
  DEF EndModule, Go, AfterImport, Shape
<1>12. CASE UseModule(t)
  BY <1>12
  DEF UseModule, Go, AfterImport, Shape
<1> QED
  BY <1>1, <1>2, <1>3, <1>4, <1>5, <1>6, <1>7, <1>8, <1>9, <1>10, <1>11, <1>12 DEF Step

LEMMA FoundStep ==
  ASSUME NEW t \in Threads, Shape, FoundInv, Begin(t) \/ Step(t)
  PROVE  FoundInv'
<1>1. (Builtins \subseteq Registered)'
  BY RegisteredStays DEF FoundInv
<1>2. ASSUME loaded', NEW i \in Plugins, EntryPoints[i].kind = "algorithm"
      PROVE  \/ EntryPoints[i].name \in Registered'
             \/ \E u \in Threads : Waits(u, i)'
  <2>1. CASE EnterDiscovery(t)
    <3>1. PICK n \in Nat : Plugins = 1..n
      BY PluginsAreNumbered
    <3>2. i \in 1..Len([j \in Plugins |-> j]) /\ [j \in Plugins |-> j][i] = i
      BY <3>1
    <3>3. Discovering(t)' /\ todo'[t] = [j \in Plugins |-> j]
      BY <2>1 DEF EnterDiscovery, Go, Discovering, Shape
    <3> QED
      BY <3>2, <3>3 DEF Waits
  <2>2. CASE ~EnterDiscovery(t)
    <3>1. loaded
      BY <1>2, <2>2 DEF Step, Begin, Claim, Enter, SkipPlugin, LoadPlugin, EndDiscovery, Answer,
                        RunModule, RegisterItself, EndModule, UseModule, AfterImport
    <3>2. CASE EntryPoints[i].name \in Registered
      BY <3>2, RegisteredStays
    <3>3. CASE \E u \in Threads : Waits(u, i)
      <4>1. PICK u \in Threads : Waits(u, i)
        BY <3>3
      <4>2. CASE u # t
        <5>1. Waits(u, i)'
          BY <4>1, <4>2, OthersUntouched DEF Waits, Discovering
        <5> QED
          BY <5>1
      <4>3. CASE u = t
        <5>1. PICK k \in 1..Len(todo[t]) : todo[t][k] = i
          BY <4>1, <4>3 DEF Waits
        <5>2. Discovering(t) /\ todo[t] \in Seq(Plugins) /\ todo[t] # << >>
          BY <4>1, <4>3, <5>1 DEF Waits, Shape
        <5>3. i = Head(todo[t]) \/ \E j \in 1..Len(Tail(todo[t])) : Tail(todo[t])[j] = i
          BY <5>1, <5>2, HeadTail
        <5>4. CASE LoadPlugin(t) \/ RunModule(t) \/ RegisterItself(t)
          <6>1. Discovering(t)' /\ todo' = todo
            BY <5>2, <5>4 DEF LoadPlugin, RunModule, RegisterItself, Go, Discovering, Shape
          <6> QED
            BY <5>1, <6>1 DEF Waits
        <5>5. CASE SkipPlugin(t)
          <6>1. Discovering(t)' /\ todo'[t] = Tail(todo[t]) /\ registry' = registry
            BY <5>2, <5>5 DEF SkipPlugin, Discovering, Shape
          <6>2. CASE i = Head(todo[t])
            BY <5>5, <6>1, <6>2 DEF SkipPlugin, Claimed, Registered
          <6>3. CASE i # Head(todo[t])
            <7>1. Waits(t, i)'
              BY <5>3, <6>1, <6>3 DEF Waits
            <7> QED
              BY <7>1
          <6> QED
            BY <6>2, <6>3
        <5>6. CASE EndModule(t) \/ UseModule(t)
          <6>1. AfterImport(t)
            BY <5>6 DEF EndModule, UseModule
          <6>2. Discovering(t)' /\ todo'[t] = Tail(todo[t])
            BY <5>2, <6>1 DEF AfterImport, Go, Discovering, Shape
          <6>3. CASE i = Head(todo[t])
            <7>1. registry' = [registry EXCEPT ![EntryPoints[i].name] = <<"plugin", i>>]
              BY <1>2, <5>2, <6>1, <6>3 DEF AfterImport, Discovering
            <7>2. EntryPoints[i].name \in Names
              BY DEF Names
            <7> QED
              BY <7>1, <7>2, NoneAssumption DEF Registered, Shape
          <6>4. CASE i # Head(todo[t])
            <7>1. Waits(t, i)'
              BY <5>3, <6>2, <6>4 DEF Waits
            <7> QED
              BY <7>1
          <6> QED
            BY <6>3, <6>4
        <5>7. CASE Begin(t) \/ Claim(t) \/ Enter(t) \/ EndDiscovery(t) \/ Answer(t)
          BY <5>2, <5>7 DEF Begin, Claim, Enter, EndDiscovery, Answer, Discovering
        <5> QED
          BY <2>2, <5>4, <5>5, <5>6, <5>7 DEF Step
      <4> QED
        BY <4>2, <4>3
    <3> QED
      BY <1>2, <3>1, <3>2, <3>3 DEF FoundInv
  <2> QED
    BY <2>1, <2>2
<1> QED
  BY <1>1, <1>2 DEF FoundInv

(* If nobody has a plugin left to load, every algorithm is registered.     *)
LEMMA AllFound ==
  ASSUME Shape, FoundInv, loaded, \A u \in Threads, i \in Plugins : ~Waits(u, i)
  PROVE  Algorithms \union Builtins \subseteq Registered
BY DEF FoundInv, Algorithms

LEMMA AnswerStep ==
  ASSUME NEW t \in Threads, Shape, LockInv, FoundInv, AnswerInv, Begin(t) \/ Step(t)
  PROVE  AnswerInv'
<1> DEFINE Want(u) == Asked(u) \intersect (Algorithms \union Builtins)
<1>1. \A n \in Registered : n \in Registered'
  BY RegisteredStays
<1>2. ASSUME NEW u \in Threads, u # t
      PROVE  /\ (pc[u] = "answer")' => (Want(u) \subseteq Registered)'
             /\ (result[u] # None)' => (Want(u) \subseteq result[u])'
  <2>1. Asked(u)' = Asked(u) /\ pc'[u] = pc[u] /\ result'[u] = result[u]
    BY <1>2, OthersUntouched DEF Asked
  <2> QED
    BY <1>1, <2>1 DEF AnswerInv
<1>3. /\ (pc[t] = "answer")' => (Want(t) \subseteq Registered)'
      /\ (result[t] # None)' => (Want(t) \subseteq result[t])'
  <2>1. CASE Begin(t)
    <3>1. pc'[t] # "answer" /\ result'[t] = None
      BY <2>1 DEF Begin, Go, Shape
    <3> QED
      BY <3>1
  <2>2. CASE Enter(t)
    <3>1. /\ pc[t] = "enter" /\ pc'[t] = "answer" /\ owner \in {None, t}
          /\ loaded \/ (call[t].op # "list" /\ call[t].name \in Registered)
          /\ UNCHANGED <<registry, call, result>>
      BY <2>2 DEF Enter, CanLock, NeedsDiscovery, Go, Shape
    <3>2. Asked(t)' = Asked(t) /\ Registered' = Registered
      BY <3>1 DEF Asked, Registered
    <3>3. Want(t) \subseteq Registered
      <4>1. CASE loaded
        <5>1. \A u \in Threads : ~Discovering(u)
          BY <3>1, NoneAssumption DEF LockInv, Holds, Discovering
        <5> QED
          BY <4>1, <5>1, AllFound DEF Waits
      <4>2. CASE ~loaded
        BY <3>1, <4>2 DEF Asked
      <4> QED
        BY <4>1, <4>2
    <3> QED
      BY <3>1, <3>2, <3>3 DEF AnswerInv
  <2>3. CASE EndDiscovery(t)
    <3>1. /\ pc[t] = "discover" /\ todo[t] = << >>
          /\ UNCHANGED <<registry, call, result>>
      BY <2>3 DEF EndDiscovery
    <3>2. Asked(t)' = Asked(t) /\ Registered' = Registered
      BY <3>1 DEF Asked, Registered
    <3>3. Discovering(t) /\ loaded /\ owner = t
      BY <3>1 DEF Discovering, Shape, LockInv, Holds
    <3>4. \A u \in Threads, i \in Plugins : ~Waits(u, i)
      BY <3>1, <3>3 DEF Waits, LockInv, Holds
    <3>5. Want(t) \subseteq Registered
      BY <3>3, <3>4, AllFound
    <3> QED
      BY <3>1, <3>2, <3>5 DEF AnswerInv
  <2>4. CASE Answer(t)
    <3>1. /\ pc[t] = "answer" /\ pc'[t] # "answer"
          /\ UNCHANGED <<registry, call>>
          /\ result'[t] = IF call[t].op = "list" THEN Registered
                          ELSE Registered \intersect {call[t].name}
      BY <2>4 DEF Answer, Go, Shape
    <3>2. Asked(t)' = Asked(t) /\ Want(t) \subseteq Registered
      BY <3>1 DEF Asked, AnswerInv
    <3>3. Want(t) \subseteq result'[t]
      BY <3>1, <3>2 DEF Asked
    <3> QED
      BY <3>1, <3>2, <3>3
  <2>5. CASE \/ Claim(t) \/ EnterDiscovery(t) \/ SkipPlugin(t) \/ LoadPlugin(t)
             \/ RunModule(t) \/ RegisterItself(t) \/ EndModule(t) \/ UseModule(t)
    <3>1. pc'[t] # "answer" /\ UNCHANGED <<call, result>>
      BY <2>5 DEF Claim, EnterDiscovery, SkipPlugin, LoadPlugin, RunModule, RegisterItself,
                  EndModule, UseModule, AfterImport, Go, Shape
    <3>2. Asked(t)' = Asked(t)
      BY <3>1 DEF Asked
    <3> QED
      BY <3>1, <3>2 DEF AnswerInv
  <2> QED
    BY <2>1, <2>2, <2>3, <2>4, <2>5 DEF Step
<1> QED
  BY <1>2, <1>3 DEF AnswerInv

(* While a thread discovers, the registry changes only by what it does.    *)
LEMMA OnlyHolderWrites ==
  ASSUME NEW t \in Threads, Shape, LockInv, Begin(t) \/ Step(t),
         NEW u \in Threads \ {t}, Discovering(u)
  PROVE  registry' = registry
<1>1. owner = u /\ owner # None /\ ~Discovering(t)
  BY NoneAssumption DEF LockInv, Holds
<1>2. ~Claim(t) /\ ~RegisterItself(t)
  BY <1>1 DEF Claim, RegisterItself, CanLock
<1>3. AfterImport(t) /\ pc[t] \in {"import", "body"} => registry' = registry
  BY <1>1 DEF AfterImport, Discovering
<1> QED
  BY <1>2, <1>3 DEF Step, Begin, Enter, EnterDiscovery, SkipPlugin, LoadPlugin, EndDiscovery, Answer,
                    RunModule, EndModule, UseModule

LEMMA FreeStep ==
  ASSUME NEW t \in Threads, Shape, LockInv, FreeInv, Begin(t) \/ Step(t)
  PROVE  FreeInv'
<1> DEFINE Free(u) == EntryPoints[Head(todo[u])].name \in Registered =>
                        registry[EntryPoints[Head(todo[u])].name] = <<"body", Head(todo[u])>>
<1>1. ASSUME NEW u \in Threads, u # t, (pc[u] \in {"import", "body"} /\ Discovering(u))'
      PROVE  Free(u)'
  <2>1. pc'[u] = pc[u] /\ call'[u] = call[u] /\ todo'[u] = todo[u] /\ Discovering(u)
    BY <1>1, OthersUntouched DEF Discovering
  <2>2. registry' = registry
    BY <1>1, <2>1, OnlyHolderWrites
  <2> QED
    BY <1>1, <2>1, <2>2 DEF FreeInv, Registered
<1>2. ASSUME (pc[t] \in {"import", "body"} /\ Discovering(t))'
      PROVE  Free(t)'
  <2>1. CASE LoadPlugin(t)
    BY <2>1 DEF LoadPlugin, Claimed, Registered
  <2>2. CASE RunModule(t)
    <3>1. pc[t] = "import" /\ Discovering(t) /\ UNCHANGED <<registry, todo>>
      BY <1>2, <2>2 DEF RunModule, Discovering
    <3> QED
      BY <3>1 DEF FreeInv, Registered
  <2>3. CASE RegisterItself(t)
    <3>1. pc[t] = "body" /\ Discovering(t) /\ UNCHANGED todo
      BY <1>2, <2>3 DEF RegisterItself, Discovering
    <3>2. PICK n \in pending[t] : registry' = [registry EXCEPT ![n] = <<"body", Head(todo[t])>>]
      BY <2>3 DEF RegisterItself
    <3> QED
      BY <3>1, <3>2 DEF FreeInv, Registered, Shape
  <2>4. CASE Begin(t)
    <3>1. ~Discovering(t)'
      <4>1. PICK c \in Calls :
              /\ call' = [call EXCEPT ![t] = c]
              /\ IF c.op = "import"
                 THEN Go(t, "import") /\ todo' = [todo EXCEPT ![t] = <<c.name>>]
                 ELSE Go(t, IF c.op = "register" THEN "claim" ELSE "enter") /\ UNCHANGED todo
        BY <2>4 DEF Begin
      <4> QED
        BY <4>1 DEF Go, Discovering, Shape
    <3> QED
      BY <1>2, <3>1
  <2>5. CASE \/ Claim(t) \/ Enter(t) \/ EnterDiscovery(t) \/ SkipPlugin(t)
             \/ EndDiscovery(t) \/ Answer(t) \/ EndModule(t) \/ UseModule(t)
    <3>1. pc'[t] \notin {"import", "body"}
      BY <2>5 DEF Claim, Enter, EnterDiscovery, SkipPlugin, EndDiscovery, Answer, EndModule,
                  UseModule, AfterImport, Go, Shape
    <3> QED
      BY <1>2, <3>1
  <2> QED
    BY <2>1, <2>2, <2>3, <2>4, <2>5 DEF Step
<1> QED
  BY <1>1, <1>2 DEF FreeInv

LEMMA BuiltinStep ==
  ASSUME NEW t \in Threads, Shape, FoundInv, BuiltinsImportNothing, Begin(t) \/ Step(t)
  PROVE  BuiltinsImportNothing'
<1> DEFINE Quiet(u) == (call[u].op = "get" /\ call[u].name \in Builtins) =>
                         pc[u] \notin {"discover", "import", "body"}
<1>1. ASSUME NEW u \in Threads, u # t
      PROVE  Quiet(u)'
  BY <1>1, OthersUntouched DEF BuiltinsImportNothing
<1>2. Quiet(t)'
  <2>1. CASE Begin(t)
    <3>1. PICK c \in Calls :
            /\ call' = [call EXCEPT ![t] = c]
            /\ IF c.op = "import"
               THEN Go(t, "import") /\ todo' = [todo EXCEPT ![t] = <<c.name>>]
               ELSE Go(t, IF c.op = "register" THEN "claim" ELSE "enter") /\ UNCHANGED todo
      BY <2>1 DEF Begin
    <3> QED
      BY <3>1 DEF Go, Shape
  <2>2. CASE EnterDiscovery(t)
    BY <2>2 DEF EnterDiscovery, NeedsDiscovery, FoundInv
  <2>3. CASE Step(t) /\ ~EnterDiscovery(t)
    <3>1. call' = call
      BY <2>3 DEF Step, Claim, Enter, SkipPlugin, LoadPlugin, EndDiscovery, Answer,
                  RunModule, RegisterItself, EndModule, UseModule, AfterImport
    <3>2. pc'[t] \in {"discover", "import", "body"} => pc[t] \in {"discover", "import", "body"}
      BY <2>3 DEF Step, Claim, Enter, SkipPlugin, LoadPlugin, EndDiscovery, Answer,
                  RunModule, RegisterItself, EndModule, UseModule, AfterImport, Go, Shape
    <3> QED
      BY <3>1, <3>2 DEF BuiltinsImportNothing
  <2> QED
    BY <2>1, <2>2, <2>3
<1> QED
  BY <1>1, <1>2 DEF BuiltinsImportNothing

LEMMA InvStep == Inv /\ [Next]_vars => Inv'
<1> SUFFICES ASSUME Inv, [Next]_vars PROVE Inv'
  OBVIOUS
<1>1. ASSUME NEW t \in Threads, Begin(t) \/ Step(t)
      PROVE  Inv'
  BY <1>1, ShapeStep, LockStep, FoundStep, AnswerStep, FreeStep, BuiltinStep DEF Inv
<1>2. CASE UNCHANGED vars
  <2> USE <1>2 DEF vars, Inv
  <2>1. Shape' /\ LockInv'
    BY DEF Shape, LockInv, Holds, Discovering
  <2>2. FoundInv' /\ FreeInv'
    BY DEF FoundInv, Registered, Waits, FreeInv, Discovering
  <2>3. AnswerInv' /\ BuiltinsImportNothing'
    BY DEF AnswerInv, Asked, Registered, BuiltinsImportNothing
  <2> QED
    BY <2>1, <2>2, <2>3
<1> QED
  BY <1>1, <1>2 DEF Next

LEMMA InvAlways == Spec => []Inv
BY InvInit, InvStep, PTL DEF Spec

-----------------------------------------------------------------------------
(* The lock is held by the one thread that discovers or looks up, and by   *)
(* nobody who has returned (registry.py: with _lock).                      *)
THEOREM TypeIsRight == Spec => []RegistryTypeOK
<1>1. Inv => RegistryTypeOK
  BY DEF Inv, Shape, LockInv, Holds, Discovering, RegistryTypeOK
<1> QED
  BY <1>1, InvAlways, PTL

(* However many threads race for the first lookup, none of them is told of *)
(* fewer algorithms than are installed (registry.py:25).                   *)
THEOREM NothingIsMissed == Spec => []NoPluginMissed
<1>1. Inv => NoPluginMissed
  BY DEF Inv, AnswerInv, Asked, NoPluginMissed
<1> QED
  BY <1>1, InvAlways, PTL

(* Looking up a built-in imports no plugin (registry.py:22).               *)
THEOREM BuiltinsAreQuiet == Spec => []BuiltinsImportNothing
BY InvAlways, PTL DEF Inv

(* Between asking whether a name is claimed and writing it, discovery can  *)
(* lose that name to nobody but the body of the plugin it is loading, and  *)
(* overwrites nothing else (registry.py:98, 119).                          *)
THEOREM ClaimsAreKept == Spec => ClaimsKept
<1> DEFINE Kept == \A n \in Registered : registry'[n] # registry[n] =>
                     \E t \in Threads : \/ pc[t] = "claim" /\ call[t].name = n
                                        \/ pc[t] = "body" /\ n \in pending[t]
                                        \/ OwnName(t, n)
<1>1. Inv /\ [Next]_vars => [Kept]_vars
  <2> SUFFICES ASSUME Inv, NEW t \in Threads, Begin(t) \/ Step(t),
                      NEW n \in Registered, registry'[n] # registry[n]
               PROVE  \E u \in Threads : \/ pc[u] = "claim" /\ call[u].name = n
                                         \/ pc[u] = "body" /\ n \in pending[u]
                                         \/ OwnName(u, n)
    BY DEF Next
  <2>1. CASE Claim(t)
    <3>1. pc[t] = "claim" /\ call[t].name = n
      BY <2>1 DEF Claim, Inv, Shape
    <3> QED
      BY <3>1
  <2>2. CASE RegisterItself(t)
    <3>1. pc[t] = "body" /\ n \in pending[t]
      BY <2>2 DEF RegisterItself, Inv, Shape
    <3> QED
      BY <3>1
  <2>3. CASE EndModule(t) \/ UseModule(t)
    <3>1. AfterImport(t) /\ pc[t] \in {"import", "body"}
      BY <2>3 DEF EndModule, UseModule
    <3>2. /\ call[t].op # "import"
          /\ registry' = [registry EXCEPT ![EntryPoints[Head(todo[t])].name] = <<"plugin", Head(todo[t])>>]
      BY <3>1 DEF AfterImport
    <3>3. n = EntryPoints[Head(todo[t])].name
      BY <3>2 DEF Inv, Shape
    <3>4. registry[n] = <<"body", Head(todo[t])>>
      BY <3>1, <3>2, <3>3 DEF Inv, FreeInv, Discovering
    <3> QED
      BY <3>1, <3>2, <3>3, <3>4 DEF OwnName
  <2>4. CASE \/ Begin(t) \/ Enter(t) \/ EnterDiscovery(t) \/ SkipPlugin(t) \/ LoadPlugin(t)
             \/ EndDiscovery(t) \/ Answer(t) \/ RunModule(t)
    BY <2>4 DEF Begin, Enter, EnterDiscovery, SkipPlugin, LoadPlugin, EndDiscovery, Answer, RunModule
  <2> QED
    BY <2>1, <2>2, <2>3, <2>4 DEF Step
<1> QED
  BY <1>1, InvAlways, PTL DEF Spec, ClaimsKept

=============================================================================
