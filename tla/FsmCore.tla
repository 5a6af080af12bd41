------------------------------ MODULE FsmCore ------------------------------
(***************************************************************************)
(* The core of the automaton editor (ICP): class FSM (src/core/fsm.cpp)    *)
(* with its State objects (state.cpp), as FSMManager (fsmInterface.cpp)    *)
(* drives it.  A transition is kept in two places: the source's list       *)
(* nextStates names the destination, once for every transition, and the    *)
(* destination's list of dependencies says from which state and for which  *)
(* input.  A step needs both.  States refer to each other by pointers, the *)
(* map `states' by name, so a removed state lives on while the start or    *)
(* the current state still points to it.                                   *)
(*                                                                         *)
(* The calls are synchronous and of one thread.  removeState and           *)
(* pruneUnreachable are recursive over a graph that they change on the     *)
(* way: their call stack is the variable stack, and each of their loops    *)
(* takes a step for each child.  Conditions are stored but never evaluated *)
(* by a step, so they are left out, as are variables, delays, renaming and *)
(* the lengths of names.                                                   *)
(***************************************************************************)
EXTENDS Naturals, SequencesExt

CONSTANTS
    Names,          \* names of states
    Inputs,         \* input characters
    MaxObjs,        \* bound: State objects at a time
    MaxTransitions, \* bound: transitions drawn
    MaxInput,       \* bound: characters of an input (the code: 100)
    Settable,       \* machine states that setMachineState is asked for
    Executing       \* bound: whether the automaton is executed, or only edited

MachineStates == {"IDLE", "RUNNING", "STOPPED", "PAUSED", "ERROR"}

ASSUME FsmAssumption ==
    /\ MaxObjs \in Nat \ {0} /\ MaxTransitions \in Nat /\ MaxInput \in Nat
    /\ Names # {} /\ Inputs # {}
    /\ Settable \subseteq MachineStates /\ Executing \in BOOLEAN

Objs == 1 .. MaxObjs
NoState == 0                                    \* nullptr
State(n, f) == [name |-> n, final |-> f, next |-> <<>>, deps |-> {}]
Free == State({}, FALSE)

VARIABLES
    obj,            \* the State objects; a name is a singleton, {} if free
    live,           \* the objects in the map states
    start, current, \* startState and currentState
    machine, input, output, expected,
    mode,           \* "idle", or the call in progress, or "crashed"
    stack,          \* frames of the recursive call
    seen,           \* names visited by pruneUnreachableStates
    before,         \* ghost: the automaton when removeState was called
    word            \* ghost: the input of the present run, <<>> if none

graph == <<obj, live, start>>
exec == <<current, machine, input, output, word>>
calls == <<stack, seen, before>>
vars == <<graph, exec, calls, expected, mode>>

----------------------------------------------------------------------------
\* Objects, names and references.

Successors(o) == ToSet(obj[o].next)
Named(n) == {o \in live : obj[o].name = n}

\* getStatePtrByName(n) for a name in the map.
ObjOf(n) == CHOOSE o \in live : obj[o].name = n

\* What of the sequence s is in Q, in the order of s.
OnlyIn(s, Q) ==
    LET kept == {i \in DOMAIN s : s[i] \in Q}
        rank(i) == Cardinality({k \in kept : k <= i})
    IN  [j \in 1 .. Cardinality(kept) |-> s[CHOOSE i \in kept : rank(i) = j]]

\* Objects that a shared_ptr chain from roots still holds: those in every set
\* that has the roots and all that its members refer to.
Held(roots, ob) ==
    {o \in Objs :
        \A S \in SUBSET Objs :
            /\ roots \ {NoState} \subseteq S
            /\ \A p \in S : ToSet(ob[p].next) \subseteq S
            => o \in S}

\* (mutant) The start state does not hold its object.
CollectedStart(l, s, c, ob) ==
    LET held == Held(l \cup {c}, ob)
    IN  [o \in Objs |-> IF o \notin held THEN Free
                        ELSE [ob[o] EXCEPT !.deps = {d \in @ : d[1] \in held}]]

\* The objects once those nobody holds are destroyed: the weak pointers of
\* dependencies to them expire.
Collected(l, s, c, ob) ==
    LET held == Held(l \cup {s, c}, ob)
    IN  [o \in Objs |-> IF o \notin held THEN Free
                        ELSE [ob[o] EXCEPT !.deps = {d \in @ : d[1] \in held}]]

\* Triples of source, destination and input, from the dependencies.
Drawn == {t \in Objs \X Objs \X Inputs : <<t[1], t[3]>> \in obj[t[2]].deps}

\* The transition transitionToState finds: the first of nextStates with a
\* dependency on (o, c).
Dest(o, c) ==
    LET hits == {i \in DOMAIN obj[o].next : <<o, c>> \in obj[obj[o].next[i]].deps}
    IN  IF hits = {} THEN NoState ELSE obj[o].next[Min(hits)]

Takeable(o, c) == {q \in Successors(o) : <<o, c>> \in obj[q].deps}

Idle == mode = "idle"

\* An edit keeps the execution as it is; the run it belonged to is over.
Edited == /\ word' = <<>>
          /\ UNCHANGED <<current, machine, input, output, expected, mode, calls>>

----------------------------------------------------------------------------
\* Building the automaton.

AddState(n, f) ==
    /\ Idle /\ Named({n}) = {}
    /\ \E o \in Objs :
          /\ obj[o] = Free /\ \A p \in 1 .. (o - 1) : obj[p] # Free
          /\ obj' = [obj EXCEPT ![o] = State({n}, f)]
          /\ live' = live \cup {o}
    /\ UNCHANGED start /\ Edited

SetStartState(o) ==
    /\ Idle /\ o # start
    /\ start' = o
    /\ obj' = Collected(live, o, current, obj)
    /\ UNCHANGED live /\ Edited

\* The objects after addTransition; it throws if the destination already has
\* the dependency.
WithTransition(ob, p, q, c) ==
    [[ob EXCEPT ![q].deps = @ \cup {<<p, c>>}] EXCEPT ![p].next = Append(@, q)]

AddTransition(p, q, c) ==
    /\ Idle /\ <<p, c>> \notin obj[q].deps
    /\ Cardinality(Drawn) < MaxTransitions
    /\ obj' = WithTransition(obj, p, q, c)
    /\ UNCHANGED <<live, start>> /\ Edited

\* The objects after removeTransition: every occurrence of the destination
\* leaves nextStates, one dependency leaves the destination.
WithoutTransition(ob, p, q, c) ==
    [[ob EXCEPT ![p].next = OnlyIn(@, Objs \ {q})]
        EXCEPT ![q].deps = @ \ {<<p, c>>}]

RemoveTransition(p, q, c) ==
    /\ Idle
    /\ obj' = WithoutTransition(obj, p, q, c)
    /\ UNCHANGED <<live, start>> /\ Edited

\* updateTransition removes the old transition and then adds the new one,
\* which may throw: the old one is gone all the same.
UpdateTransition(p, q, c, d) ==
    /\ Idle
    /\ LET ob == WithoutTransition(obj, p, q, c)
       IN  \/ <<p, d>> \in ob[q].deps /\ obj' = ob
           \/ /\ <<p, d>> \notin ob[q].deps
              /\ <<p, c>> \in obj[q].deps \/ Cardinality(Drawn) < MaxTransitions
              /\ obj' = WithTransition(ob, p, q, d)
    /\ UNCHANGED <<live, start>> /\ Edited

----------------------------------------------------------------------------
\* removeState: deleteStateRecursive as a stack of frames.

NoCall == [obj |-> <<>>, live |-> {}, start |-> NoState, root |-> NoState]
Frame(o) == [obj |-> o, todo |-> obj[o].next, entry |-> live]
Top == Head(stack)
Child == Head(Top.todo)
NextChild == <<[Top EXCEPT !.todo = Tail(@)]>> \o Tail(stack)

\* (mutant) Nobody looks whether another state leads to the child.
NeverReferenced(n, parent) == FALSE

\* Some other state than `parent' has one with this name among its nextStates.
ReferencedElsewhere(n, parent) ==
    \E p \in live : /\ obj[p].name # obj[parent].name
                    /\ \E q \in Successors(p) : obj[q].name = n

\* (mutant) Only the dependencies are removed.
WithoutDependencies(n) ==
    [o \in Objs |-> IF o \notin live THEN obj[o]
                    ELSE [obj[o] EXCEPT !.deps = {d \in @ : obj[d[1]].name # n}]]

\* removeReferencesToState.
WithoutReferences(n) ==
    [o \in Objs |->
        IF o \notin live THEN obj[o]
        ELSE [obj[o] EXCEPT
                !.next = OnlyIn(@, {q \in Objs : obj[q].name # n}),
                !.deps = {d \in @ : obj[d[1]].name # n}]]

RemoveState(o) ==
    /\ Idle
    /\ mode' = "delete"
    /\ stack' = <<Frame(o)>>
    /\ before' = [obj |-> obj, live |-> live, start |-> start, root |-> o]
    /\ word' = <<>>
    /\ UNCHANGED <<graph, current, machine, input, output, expected, seen>>

\* The call is over, normally or by an exception; what it did so far stays.
CallEnds ==
    /\ mode' = "idle" /\ stack' = <<>> /\ seen' = {} /\ before' = NoCall

DeleteSkip ==
    /\ mode = "delete" /\ Top.todo # <<>>
    /\ ReferencedElsewhere(obj[Child].name, Top.obj)
    /\ stack' = NextChild
    /\ UNCHANGED <<graph, exec, expected, mode, seen, before>>

\* The child is in the list twice and was deleted the first time: "State not
\* found for deletion".
DeleteThrows ==
    /\ mode = "delete" /\ Top.todo # <<>>
    /\ ~ ReferencedElsewhere(obj[Child].name, Top.obj)
    /\ Named(obj[Child].name) = {}
    /\ obj' = Collected(live, start, current, obj)
    /\ CallEnds
    /\ UNCHANGED <<live, start, exec, expected>>

\* The recursion has come back to a call it has not left, and nothing has
\* changed since: it goes on until the stack overflows.
Endless(o) == \E i \in DOMAIN stack : stack[i].obj = o /\ stack[i].entry = live

DeleteDescend ==
    /\ mode = "delete" /\ Top.todo # <<>>
    /\ ~ ReferencedElsewhere(obj[Child].name, Top.obj)
    /\ Named(obj[Child].name) # {}
    /\ LET o == ObjOf(obj[Child].name)
       IN  IF Endless(o)
           THEN mode' = "crashed" /\ stack' = <<>>
           ELSE stack' = <<Frame(o)>> \o NextChild /\ UNCHANGED mode
    /\ UNCHANGED <<graph, exec, expected, seen, before>>

DeleteErase ==
    /\ mode = "delete" /\ Top.todo = <<>>
    /\ LET ob == WithoutReferences(obj[Top.obj].name)
           lv == live \ {Top.obj}
       IN  /\ live' = lv
           /\ IF Len(stack) = 1
              THEN obj' = Collected(lv, start, current, ob) /\ CallEnds
              ELSE obj' = ob /\ stack' = Tail(stack)
                             /\ UNCHANGED <<mode, seen, before>>
    /\ UNCHANGED <<start, exec, expected>>

----------------------------------------------------------------------------
\* pruneUnreachable: pruneUnreachableStates from the start state.

\* The child leaves its parent's nextStates, the map and finalStates.
Pruned(parent, n) ==
    [obj EXCEPT ![parent].next = OnlyIn(@, {q \in Objs : obj[q].name # n})]

\* The start state may have been removed from the map before, and another state
\* may have its name since.
Prune ==
    /\ Idle /\ start # NoState
    /\ mode' = "prune" /\ stack' = <<Frame(start)>> /\ seen' = {obj[start].name}
    /\ word' = <<>>
    /\ UNCHANGED <<graph, current, machine, input, output, expected, before>>

PruneSkip ==
    /\ mode = "prune" /\ Top.todo # <<>>
    /\ ReferencedElsewhere(obj[Child].name, Top.obj)
    /\ stack' = NextChild
    /\ UNCHANGED <<graph, exec, expected, mode, seen, before>>

PruneDescend ==
    /\ mode = "prune" /\ Top.todo # <<>>
    /\ ~ ReferencedElsewhere(obj[Child].name, Top.obj)
    /\ obj[Child].name \notin seen
    /\ seen' = seen \cup {obj[Child].name}
    /\ stack' = <<Frame(Child)>> \o stack
    /\ UNCHANGED <<graph, exec, expected, mode, before>>

\* The call for the child returns at once: its name was visited, now or
\* before its own frame ended.
PruneErase ==
    /\ mode = "prune" /\ Top.todo # <<>>
    /\ ~ ReferencedElsewhere(obj[Child].name, Top.obj)
    /\ obj[Child].name \in seen
    /\ obj' = Pruned(Top.obj, obj[Child].name)
    /\ live' = live \ Named(obj[Child].name)
    /\ stack' = NextChild
    /\ UNCHANGED <<start, exec, expected, mode, seen, before>>

PruneReturn ==
    /\ mode = "prune" /\ Top.todo = <<>>
    /\ IF Len(stack) = 1
       THEN CallEnds /\ obj' = Collected(live, start, current, obj)
       ELSE stack' = Tail(stack) /\ UNCHANGED <<obj, mode, seen, before>>
    /\ UNCHANGED <<live, start, exec, expected>>

----------------------------------------------------------------------------
\* Validation.

\* A step of the depth-first search: d has the states still to visit and the
\* names visited.
VisitNext(d) ==
    LET o == Head(d.todo)
    IN  IF d.todo = <<>> THEN d
        ELSE IF obj[o].name \in d.names THEN [d EXCEPT !.todo = Tail(@)]
        ELSE [todo |-> obj[o].next \o Tail(d.todo), names |-> d.names \cup {obj[o].name}]

\* The names it visits.
Visited ==
    LET last == MaxObjs + MaxTransitions + 1
        dfs[n \in 0 .. last] ==
            IF n = 0 THEN [todo |-> <<start>>, names |-> {}] ELSE VisitNext(dfs[n - 1])
    IN  dfs[last].names

\* (mutant) The inputs seen are forgotten at every destination.
DeterministicEach(o) == TRUE

\* No input is seen twice among the dependencies of the listed destinations:
\* a destination listed twice has all of its own seen twice.
Deterministic(o) ==
    LET at(i) == {c \in Inputs : <<o, c>> \in obj[obj[o].next[i]].deps}
    IN  \A i, j \in DOMAIN obj[o].next : i # j => at(i) \cap at(j) = {}

\* What validateFSM lets pass.
Valid ==
    /\ start # NoState
    /\ \E o \in live : obj[o].final
    /\ \A o \in live : obj[o].name \in Visited
    /\ \A o \in live : Deterministic(o)
    /\ \A o \in live : obj[o].next = <<>> => obj[o].final

----------------------------------------------------------------------------
\* Execution.

InMap(o) == Named(obj[o].name) # {}

\* Bound: a machine that is RUNNING goes on appending to its output, so it is
\* not given an input on which the output could outgrow that of a run.
Bounded(m, w) == m = "RUNNING" => Len(output) + Len(w) <= MaxInput + 1

SetInput(w) ==
    /\ Idle /\ w # input /\ Bounded(machine, w)
    /\ \A i \in DOMAIN w : w[i] \in expected
    /\ input' = w /\ word' = <<>>
    /\ UNCHANGED <<graph, current, machine, output, expected, mode, calls>>

AddExpectedInput(c) ==
    /\ Idle /\ c \notin expected
    /\ expected' = expected \cup {c}
    /\ UNCHANGED <<graph, exec, mode, calls>>

RemoveExpectedInput(c) ==
    /\ Idle /\ c \in expected
    /\ expected' = expected \ {c}
    /\ UNCHANGED <<graph, exec, mode, calls>>

SetMachineState(m) ==
    /\ Idle /\ m # machine /\ Bounded(m, input)
    /\ machine' = m /\ word' = <<>>
    /\ UNCHANGED <<graph, current, input, output, expected, mode, calls>>

\* reset fails if there is no start state or its name is not in the map.
Reset ==
    /\ Idle /\ start # NoState /\ InMap(start)
    /\ current' = start /\ output' = <<>> /\ machine' = "IDLE" /\ word' = <<>>
    /\ obj' = Collected(live, start, start, obj)
    /\ UNCHANGED <<live, start, input, expected, mode, calls>>

Becomes(c, out, m, in, w) ==
    /\ current' = c /\ output' = out /\ machine' = m /\ input' = in /\ word' = w
    /\ obj' = Collected(live, start, c, obj)
    /\ UNCHANGED <<live, start, expected, calls>>

\* (mutant) The character stays in the input.
TransitionKeeps(c, out, w, m) ==
    LET d == IF c = NoState THEN NoState ELSE Dest(c, Head(input))
    IN  IF d = NoState \/ ~ InMap(d)
        THEN Becomes(c, out, "ERROR", input, <<>>)
        ELSE Becomes(d, Append(out, d), m, input, w)

\* transitionToState from state c with output out: no transition, or one to a
\* state that is no longer in the map, throws; so may the script of the state
\* entered, before the character is discarded.
Transition(c, out, w, m) ==
    LET d == IF c = NoState THEN NoState ELSE Dest(c, Head(input))
    IN  IF d = NoState \/ ~ InMap(d)
        THEN Becomes(c, out, "ERROR", input, <<>>)
        ELSE \/ Becomes(d, Append(out, d), m, Tail(input), w)
             \/ Becomes(d, Append(out, d), "ERROR", input, <<>>)

\* run: nothing happens unless the automaton is valid.  A start state whose
\* name is gone throws after the output was cleared; a failing script of the
\* start state leaves the machine RUNNING, for it is outside the try.
Run ==
    /\ Idle /\ input # <<>> /\ Valid
    /\ IF ~ InMap(start)
       THEN Becomes(current, <<>>, machine, input, <<>>) /\ UNCHANGED mode
       ELSE \/ Becomes(start, <<start>>, "RUNNING", input, input) /\ mode' = "run"
            \/ Becomes(start, <<start>>, "RUNNING", input, <<>>) /\ UNCHANGED mode

RunLoop ==
    /\ mode = "run" /\ machine = "RUNNING" /\ input # <<>>
    /\ Transition(current, output, word, "RUNNING")
    /\ UNCHANGED mode

RunEnds ==
    /\ mode = "run" /\ (machine # "RUNNING" \/ input = <<>>)
    /\ machine' = IF machine = "RUNNING" THEN "STOPPED" ELSE machine
    /\ mode' = "idle"
    /\ UNCHANGED <<graph, current, input, output, word, expected, calls>>

AfterStep == IF Tail(input) = <<>> THEN "STOPPED" ELSE "RUNNING"

\* debugStep: no validation; unless the machine is RUNNING it starts anew.
DebugStep ==
    /\ Idle /\ start # NoState /\ UNCHANGED mode
    /\ IF input = <<>>
       THEN /\ machine # "STOPPED" /\ Becomes(current, output, "STOPPED", input, <<>>)
       ELSE IF machine = "RUNNING"
       THEN Transition(current, output, word, AfterStep)
       ELSE IF ~ InMap(start)
       THEN Becomes(current, <<>>, "ERROR", input, <<>>)
       ELSE \/ Transition(start, <<start>>, input, AfterStep)
            \/ Becomes(start, <<start>>, "ERROR", input, <<>>)

----------------------------------------------------------------------------
\* saveToJson and then loadFromJson: the file names states.

\* (mutant) One entry for a pair of states, whatever the inputs.
SavedPairs ==
    {t \in Drawn : /\ t[2] \in live
                   /\ \A u \in Drawn : u[1] = t[1] /\ u[2] = t[2] => u = t}

\* The transitions in the file: the dependencies of the states in the map.
Saved == {t \in Drawn : t[2] \in live}

\* The states as read back.  The file lists the transitions by destination, in
\* the order of the hash map `states': a state's nextStates come in that order,
\* each destination once.
Loaded(order) ==
    [o \in Objs |->
        IF o \notin live THEN Free
        ELSE LET read == {t \in Saved : InMap(t[1])}
             IN  [obj[o] EXCEPT
                    !.next = OnlyIn(order, {q \in live : \E t \in read :
                                obj[t[1]].name = obj[o].name /\ t[2] = q}),
                    !.deps = {<<ObjOf(obj[t[1]].name), t[3]>> :
                                t \in {u \in read : u[2] = o}}]]

\* An input that is not empty is refused, for the expected inputs come later
\* in the file: by then the automaton is empty.  A start state whose name is
\* not in the map is refused last.
SaveAndLoad ==
    /\ Idle
    /\ current' = NoState /\ output' = <<>> /\ machine' = "IDLE"
    /\ input' = <<>> /\ word' = <<>>
    /\ IF input # <<>>
       THEN /\ obj' = [o \in Objs |-> Free] /\ live' = {} /\ start' = NoState
            /\ expected' = {}
       ELSE /\ \E order \in SetToSeqs(live) : obj' = Loaded(order)
            /\ start' = IF start # NoState /\ InMap(start)
                        THEN ObjOf(obj[start].name) ELSE NoState
            /\ UNCHANGED <<live, expected>>
    /\ UNCHANGED <<mode, calls>>

----------------------------------------------------------------------------
Init ==
    /\ obj = [o \in Objs |-> Free] /\ live = {}
    /\ start = NoState /\ current = NoState
    /\ machine = "IDLE" /\ input = <<>> /\ output = <<>> /\ expected = {}
    /\ mode = "idle" /\ stack = <<>> /\ seen = {} /\ before = NoCall
    /\ word = <<>>

Edit ==
    \/ \E n \in Names, f \in BOOLEAN : AddState(n, f)
    \/ \E o \in live : RemoveState(o) \/ SetStartState(o)
    \/ \E p, q \in live, c \in Inputs :
          \/ AddTransition(p, q, c)
          \/ RemoveTransition(p, q, c)
          \/ \E d \in Inputs : UpdateTransition(p, q, c, d)
    \/ Prune

Recursion ==
    \/ DeleteSkip \/ DeleteThrows \/ DeleteDescend \/ DeleteErase
    \/ PruneSkip \/ PruneDescend \/ PruneErase \/ PruneReturn

Execute ==
    \/ \E w \in UNION {[1 .. n -> Inputs] : n \in 0 .. MaxInput} : SetInput(w)
    \/ \E c \in Inputs : AddExpectedInput(c) \/ RemoveExpectedInput(c)
    \/ \E m \in Settable : SetMachineState(m)
    \/ Reset \/ Run \/ RunLoop \/ RunEnds \/ DebugStep

Next == Edit \/ Recursion \/ SaveAndLoad \/ (Executing /\ Execute)

Spec == Init /\ [][Next]_vars

----------------------------------------------------------------------------
\* Every variable holds a value of its kind, and pointers point to objects
\* that exist (fsm.hpp).
TypeOK ==
    /\ obj \in [Objs -> [name : {{}} \cup {{n} : n \in Names}, final : BOOLEAN,
                         next : Seq(Objs), deps : SUBSET (Objs \X Inputs)]]
    /\ live \subseteq Objs
    /\ start \in Objs \cup {NoState} /\ current \in Objs \cup {NoState}
    /\ \A o \in live \cup ({start, current} \ {NoState}) : obj[o].name # {}
    /\ machine \in MachineStates /\ expected \subseteq Inputs
    /\ input \in Seq(Inputs) /\ word \in Seq(Inputs) /\ output \in Seq(Objs)
    /\ mode \in {"idle", "delete", "prune", "run", "crashed"}

\* What a state of the map lists but the map does not have.
Stray == {e \in live \X Objs : e[2] \in Successors(e[1]) \ live}

\* pruneUnreachable erases a child of a removed state, and the state of the map
\* that has the removed one's name by now, and may list the child, is passed by
\* when it is looked who else lists it: the map then lacks what that one lists.
Forgotten ==
    {e \in live \X Objs : /\ mode = "prune" /\ Top.todo # <<>> /\ Top.obj \notin live
                          /\ obj[e[1]].name = obj[Top.obj].name
                          /\ obj[e[2]].name = obj[Child].name}

\* The two places where a transition is kept agree, however states and
\* transitions were added, removed, pruned and loaded: whatever a state of the
\* map lists has a dependency on it, and no call leaves a state listing what
\* the map does not have, but for pruning from a removed start state
\* (fsm.cpp:149-210, 1220-1316).
NextBacked ==
    /\ [](\A o \in live : \A q \in Successors(o) :
             \E c \in Inputs : <<o, c>> \in obj[q].deps)
    /\ [][Stray' \subseteq Stray \cup Forgotten]_vars

\* What validateFSM lets pass, looking at nextStates and dependencies apart,
\* is an automaton whose steps are determined, that can reach each of its
\* states by steps, and that can leave each state that is not final
\* (fsm.cpp:1102-1188).  It compares names: it is deceived by a start state
\* that was removed, and by a listed state that the map lacks (see Forgotten).
ValidIsSound ==
    Idle /\ start \in live /\ Stray = {} /\ Valid =>
        /\ \A o \in live, c \in Inputs : Cardinality(Takeable(o, c)) <= 1
        /\ \A o \in live : obj[o].final \/ \E c \in Inputs : Takeable(o, c) # {}
        /\ \A S \in SUBSET live :
              start \in S /\ (\A o \in S, c \in Inputs : Takeable(o, c) \subseteq S)
                => S = live

\* As long as neither the automaton nor the input is touched, the output of
\* a run, and of debug steps one by one, is that of the start state and of
\* the states entered on the characters consumed; a machine that has STOPPED
\* has consumed them all (fsm.cpp:381-502).
OutputFollowsInput ==
    word # <<>> =>
        /\ Len(output) = 1 + Len(word) - Len(input)
        /\ input = SubSeq(word, Len(output), Len(word))
        /\ output[1] = start /\ current = Last(output)
        /\ \A i \in 1 .. Len(output) - 1 :
              output[i + 1] \in Takeable(output[i], word[i])
        /\ machine = "STOPPED" => input = <<>>

\* A removal that succeeds takes, besides the state named, only states that
\* no state left in the automaton led to (fsm.cpp:1283-1316).
OrphansOnly ==
    [][mode = "delete" /\ mode' = "idle" /\ before.root \notin live' =>
         \A o \in before.live \ (live' \cup {before.root}) :
            \A p \in before.live :
               o \in ToSet(before.obj[p].next) => p \notin live']_vars

\* An automaton read back from the file that was just written has every step
\* it could take before, whatever order the file has (fsm.cpp:780-1087).
LoadKeepsSteps ==
    Idle => \A order \in SetToSeqs(live) :
              LET read == Loaded(order)
              IN  \A p, q \in live, c \in Inputs :
                    q \in Takeable(p, c) =>
                       q \in ToSet(read[p].next) /\ <<p, c>> \in read[q].deps

\* fsm.cpp:117 says that removeState "recursively prunes unreachable
\* children": a state that can be reached from the start state without the
\* one removed is left alone, the start state itself first of all.
ReachableKept ==
    [][mode = "delete" /\ mode' = "idle" =>
         LET from(S) == UNION {ToSet(before.obj[o].next) : o \in S}
             reached[k \in 0 .. MaxObjs] ==
                IF k = 0 THEN {before.start} \ {NoState, before.root}
                ELSE (reached[k - 1] \cup from(reached[k - 1])) \ {before.root}
         IN  reached[MaxObjs] \cap before.live \subseteq live']_vars

============================================================================
