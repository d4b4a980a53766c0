------------------------------ MODULE Registry ------------------------------
(***************************************************************************)
(* The bindings of a Container (backend.go, binding_types.go): a map of    *)
(* interfaces, each a map of method names to Binding objects, and the      *)
(* revision that tells the engine cache when to rebuild.  One goroutine    *)
(* administers the container, as main does; requests run besides it, so    *)
(* exposing is split where one of them may look: the map entry newBinding  *)
(* makes, the binding put there, the revision.                             *)
(*                                                                         *)
(* A binding is the object it invokes, which stands for its signature and  *)
(* receiver, and the types declared as injected.  Exposing is of a kind:   *)
(* "bound" (methods and attributes, one or more at a time; a function or a *)
(* remote binding) or "handler" (ExposeHandler, ExposeHandlerFunc).        *)
(***************************************************************************)
EXTENDS Naturals, FiniteSets

CONSTANTS Interfaces,  \* names of interfaces
          Names,       \* names of methods
          Objs,        \* what may be bound: functions, methods, handlers
          Types,       \* types that may be declared as injected
          Builtin,     \* those NewContainer sets up: HTTPContext, Session, ...
          None,        \* no name, no object
          MaxOps       \* bound on the administrator's calls

ASSUME RegistryAssumption ==
  /\ None \notin Interfaces \cup Names \cup Objs
  /\ Builtin \subseteq Types
  /\ MaxOps \in Nat

VARIABLES maps,      \* interfaces that have a map
          reg,       \* reg[<<i, m>>]: the entry for method m of interface i
          globals,   \* Container.globalInjections
          revision,  \* Container.revision
          admin,     \* the administrating goroutine: where it stands
          ops        \* how many calls it has made

registry == <<maps, reg, globals, revision, admin, ops>>

Sites == Interfaces \X Names

Entries == [st : {"absent", "blank", "bound", "handler"},
            obj : Objs \cup {None}, inj : SUBSET Types]
Absent == [st |-> "absent", obj |-> None, inj |-> {}]
Blank == [st |-> "blank", obj |-> None, inj |-> {}]     \* Binding{}
Real(b) == b.st \in {"bound", "handler"}

Idle == [pc |-> "idle", kind |-> "bound", i |-> None, m |-> None,
         obj |-> None, names |-> {}, todo |-> {}]

\* What the administrator is about to have exposed.
Pending == {<<admin.i, m>> : m \in admin.names}

BindingNames(i) == {m \in Names : reg[<<i, m>>].st # "absent"}

RegistryInit ==
  /\ maps = {}
  /\ reg = [x \in Sites |-> Absent]
  /\ globals = Builtin
  /\ revision = 0
  /\ admin = Idle
  /\ ops = 0

\* The administrator makes a call.
Begin ==
  /\ admin.pc = "idle"
  /\ ops < MaxOps
  /\ ops' = ops + 1

\* An expose method is called for the methods ms of one object.  A pattern
\* that matches none changes nothing; a handler's revision comes first.
Expose(kind, i, ms, o) ==
  /\ Begin
  /\ kind = "handler" => Cardinality(ms) = 1
  /\ admin' = [pc |-> "new", kind |-> kind, i |-> i, m |-> None,
               obj |-> o, names |-> ms, todo |-> ms]
  /\ revision' = IF kind = "handler" THEN revision + 1 ELSE revision
  /\ UNCHANGED <<maps, reg, globals>>

\* Mutant of NewBinding: the interface's map is not made.
NewBindingNoMap ==
  /\ admin.pc = "new"
  /\ \E m \in admin.todo :
       /\ admin' = [admin EXCEPT !.pc = "put", !.m = m,
                                 !.todo = admin.todo \ {m}]
       /\ reg' = [reg EXCEPT ![<<admin.i, m>>] =
                    IF @.st = "absent" THEN Blank ELSE @]
  /\ UNCHANGED <<maps, globals, revision, ops>>

\* Mutant of NewBinding: an entry that is there is emptied too.
NewBindingAlways ==
  /\ admin.pc = "new"
  /\ \E m \in admin.todo :
       /\ admin' = [admin EXCEPT !.pc = "put", !.m = m,
                                 !.todo = admin.todo \ {m}]
       /\ maps' = maps \cup {admin.i}
       /\ reg' = [reg EXCEPT ![<<admin.i, m>>] = Blank]
  /\ UNCHANGED <<globals, revision, ops>>

\* newBinding: the interface's map and an empty Binding, if there is none.
NewBinding ==
  /\ admin.pc = "new"
  /\ \E m \in admin.todo :
       /\ admin' = [admin EXCEPT !.pc = "put", !.m = m,
                                 !.todo = admin.todo \ {m}]
       /\ IF reg[<<admin.i, m>>].st = "absent"
          THEN /\ maps' = maps \cup {admin.i}
               /\ reg' = [reg EXCEPT ![<<admin.i, m>>] = Blank]
          ELSE UNCHANGED <<maps, reg>>
  /\ UNCHANGED <<globals, revision, ops>>

\* The types a new binding is given; handlers take no parameters.
NewInjections == IF admin.kind = "handler" THEN {} ELSE globals

\* The binding, with the global injections, takes its place in the map.
PutBinding ==
  /\ admin.pc = "put"
  /\ reg' = [reg EXCEPT ![<<admin.i, admin.m>>] =
       [st |-> admin.kind, obj |-> admin.obj, inj |-> NewInjections]]
  /\ admin' = IF admin.todo # {} THEN [admin EXCEPT !.pc = "new"]
              ELSE IF admin.kind = "handler" THEN Idle
              ELSE [admin EXCEPT !.pc = "bump"]
  /\ UNCHANGED <<maps, globals, revision, ops>>

\* Mutant of Bump: the revision stays.
BumpForgotten ==
  /\ admin.pc = "bump"
  /\ admin' = Idle
  /\ UNCHANGED <<maps, reg, globals, revision, ops>>

\* One revision for all the methods of one call.
Bump ==
  /\ admin.pc = "bump"
  /\ revision' = revision + 1
  /\ admin' = Idle
  /\ UNCHANGED <<maps, reg, globals, ops>>

\* Removing goes by name, also through the handle of a replaced binding.
RemoveBinding(x) ==
  /\ Begin
  /\ reg' = [reg EXCEPT ![x] = Absent]
  /\ UNCHANGED <<maps, globals, revision, admin>>

RemoveInterface(i) ==
  /\ Begin
  /\ maps' = maps \ {i}
  /\ reg' = [x \in Sites |-> IF x[1] = i THEN Absent ELSE reg[x]]
  /\ UNCHANGED <<globals, revision, admin>>

AddInjection(x, t) ==
  /\ Begin
  /\ Real(reg[x])
  /\ reg' = [reg EXCEPT ![x].inj = @ \cup {t}]
  /\ UNCHANGED <<maps, globals, revision, admin>>

\* Mutant of SetupGlobalInjection: for bindings to come only.
SetupNewOnly(t) ==
  /\ Begin
  /\ globals' = globals \cup {t}
  /\ UNCHANGED <<maps, reg, revision, admin>>

\* The type is declared for all bindings to come and all that are there.
SetupGlobalInjection(t) ==
  /\ Begin
  /\ globals' = globals \cup {t}
  /\ reg' = [x \in Sites |-> IF Real(reg[x])
                             THEN [reg[x] EXCEPT !.inj = @ \cup {t}]
                             ELSE reg[x]]
  /\ UNCHANGED <<maps, revision, admin>>

RegistryNext ==
  \/ \E kind \in {"bound", "handler"}, i \in Interfaces,
        ms \in SUBSET Names \ {{}}, o \in Objs : Expose(kind, i, ms, o)
  \/ NewBinding \/ PutBinding \/ Bump
  \/ \E x \in Sites : RemoveBinding(x)
  \/ \E i \in Interfaces : RemoveInterface(i)
  \/ \E x \in Sites, t \in Types : AddInjection(x, t)
  \/ \E t \in Types : SetupGlobalInjection(t)

-----------------------------------------------------------------------------
Admins == [pc : {"idle", "new", "put", "bump", "flags"},
           kind : {"bound", "handler"},
           i : Interfaces \cup {None}, m : Names \cup {None},
           obj : Objs \cup {None},
           names : SUBSET Names, todo : SUBSET Names]

\* Types, and what the map of maps is: an entry is in a map that is there
\* (putting one into a map that is not panics), and only real ones have an
\* object to invoke.
RegistryTypeOK ==
  /\ maps \subseteq Interfaces
  /\ reg \in [Sites -> Entries]
  /\ \A x \in Sites : /\ reg[x].st # "absent" => x[1] \in maps
                      /\ Real(reg[x]) <=> reg[x].obj # None
  /\ globals \subseteq Types
  /\ revision \in Nat /\ ops \in 0 .. MaxOps
  /\ admin \in Admins
  /\ admin.pc = "put" => admin.i \in maps

\* A binding that takes parameters has every global injection, whichever of
\* the two came first: exposing (addGlobalInjections) and setting the type
\* up (SetupGlobalInjection) must each make up for the other.
GlobalsEverywhere ==
  \A x \in Sites : reg[x].st = "bound" => globals \subseteq reg[x].inj

\* Exposing a name again replaces the binding with no gap: a request finds
\* the old one or the new one, never the empty entry a new name begins with.
SeamlessReplace ==
  [][admin.pc # "idle" =>
       \A x \in Sites : Real(reg[x]) => Real(reg'[x])]_registry
=============================================================================
