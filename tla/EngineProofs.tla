---------------------------- MODULE EngineProofs ----------------------------
(***************************************************************************)
(* Proofs about Registry and Engine.  Typed is the type invariant with     *)
(* what the administrator and the requests hold; each property has an      *)
(* invariant of its own on top of it: HostsInv, FilledInv, FlagsInv and    *)
(* CompleteInv, which follows an engine from the walk over the registry    *)
(* to the entry of the cache.                                              *)
(***************************************************************************)
EXTENDS Engine, TLAPS

\* What the administrator is at is exposed under real names.
AdminOK ==
  /\ admin.pc \in {"idle", "flags"} => admin.names = {}
  /\ admin.pc \in {"new", "put", "bump"} =>
       admin.i \in Interfaces /\ admin.obj \in Objs
  /\ admin.pc = "put" => admin.m \in admin.names
  /\ admin.pc = "bump" => admin.kind = "bound"
  /\ admin.todo \subseteq admin.names

RegistryInv == RegistryTypeOK /\ AdminOK

LEMMA SitePair ==
  /\ \A i \in Interfaces, m \in Names : <<i, m>> \in Sites
  /\ \A x \in Sites : x[1] \in Interfaces /\ x[2] \in Names /\ x = <<x[1], x[2]>>
  BY DEF Sites

\* Changes of one entry, and of the administrator, keep their types.
LEMMA EntryTypes ==
  /\ Absent \in Entries /\ Blank \in Entries
  /\ ~Real(Absent) /\ ~Real(Blank) /\ Absent.obj = None /\ Blank.obj = None
  /\ Absent.st = "absent" /\ Blank.st = "blank"
  BY DEF Absent, Blank, Entries, Real

LEMMA NewEntry ==
  ASSUME RegistryInv, admin.pc = "put"
  PROVE  LET e == [st |-> admin.kind, obj |-> admin.obj, inj |-> NewInjections]
         IN e \in Entries /\ Real(e) /\ e.obj # None /\ e.st # "absent"
<1>1. /\ admin.kind \in {"bound", "handler"} /\ admin.obj \in Objs
      /\ NewInjections \in SUBSET Types
  BY DEF RegistryInv, RegistryTypeOK, AdminOK, Admins, NewInjections
<1> QED BY <1>1, RegistryAssumption DEF Entries, Real, RegistryAssumption

LEMMA MoreInjections ==
  ASSUME NEW e \in Entries, NEW t \in Types
  PROVE  LET d == [e EXCEPT !.inj = @ \cup {t}]
         IN /\ d \in Entries /\ d.st = e.st /\ d.obj = e.obj
            /\ d.inj = e.inj \cup {t} /\ (Real(d) <=> Real(e))
  BY DEF Entries, Real

LEMMA AdminTo ==
  ASSUME NEW a \in Admins, NEW s \in {"new", "bump", "flags"}, NEW b,
         b = [a EXCEPT !.pc = s]
  PROVE  /\ b \in Admins /\ b.pc = s /\ b.m = a.m /\ b.todo = a.todo
         /\ b.i = a.i /\ b.obj = a.obj /\ b.names = a.names /\ b.kind = a.kind
  BY DEF Admins

LEMMA IdleAdmin ==
  /\ Idle \in Admins /\ Idle.pc = "idle" /\ Idle.names = {}
  /\ Idle.todo = {} /\ Idle.kind = "bound"
  BY DEF Admins, Idle

LEMMA RegistryInitInv == RegistryInit => RegistryInv
<1> SUFFICES ASSUME RegistryInit PROVE RegistryInv
  OBVIOUS
<1>1. 0 \in 0 .. MaxOps
  BY RegistryAssumption DEF RegistryAssumption
<1>2. admin = Idle
  BY DEF RegistryInit
<1>3. AdminOK
  BY <1>2, IdleAdmin DEF AdminOK
<1>4. reg \in [Sites -> Entries] /\ \A x \in Sites : reg[x] = Absent
  BY EntryTypes DEF RegistryInit
<1> QED BY <1>1, <1>2, <1>3, <1>4, IdleAdmin, EntryTypes, RegistryAssumption
        DEF RegistryInit, RegistryInv, RegistryTypeOK, RegistryAssumption

LEMMA BeginTypes ==
  ASSUME RegistryInv, Begin
  PROVE  ops' \in 0 .. MaxOps /\ admin.pc = "idle"
  BY RegistryAssumption
     DEF RegistryAssumption, RegistryInv, RegistryTypeOK, Begin

LEMMA ExposeInv ==
  ASSUME RegistryInv, NEW kind \in {"bound", "handler"}, NEW i \in Interfaces,
         NEW ms \in SUBSET Names, NEW o \in Objs, Expose(kind, i, ms, o)
  PROVE  RegistryInv'
<1>1. ops' \in 0 .. MaxOps
  BY BeginTypes DEF Expose
<1>2. admin' \in Admins /\ admin'.pc = "new" /\ AdminOK'
  BY DEF Expose, Admins, AdminOK
<1>3. revision' \in Nat
  BY DEF Expose, RegistryInv, RegistryTypeOK
<1> QED BY <1>1, <1>2, <1>3 DEF Expose, RegistryInv, RegistryTypeOK

LEMMA NewBindingInv ==
  ASSUME RegistryInv, NewBinding
  PROVE  RegistryInv'
<1>1. PICK m \in admin.todo :
        /\ admin' = [admin EXCEPT !.pc = "put", !.m = m,
                                  !.todo = admin.todo \ {m}]
        /\ IF reg[<<admin.i, m>>].st = "absent"
           THEN /\ maps' = maps \cup {admin.i}
                /\ reg' = [reg EXCEPT ![<<admin.i, m>>] = Blank]
           ELSE UNCHANGED <<maps, reg>>
  BY DEF NewBinding
<1>2. /\ admin \in Admins /\ admin.pc = "new" /\ admin.i \in Interfaces
      /\ admin.obj \in Objs /\ admin.todo \subseteq admin.names
      /\ m \in Names /\ admin.todo \ {m} \in SUBSET Names
      /\ UNCHANGED <<globals, revision, ops>>
  BY DEF NewBinding, RegistryInv, RegistryTypeOK, AdminOK, Admins
<1>3. /\ admin' \in Admins /\ admin'.pc = "put" /\ admin'.m = m
      /\ admin'.todo = admin.todo \ {m} /\ admin'.i = admin.i
      /\ admin'.obj = admin.obj /\ admin'.names = admin.names
  <2> DEFINE T == admin.todo \ {m}
  <2>1. admin' = [admin EXCEPT !.pc = "put", !.m = m, !.todo = T]
    BY <1>1
  <2>2. T \in SUBSET Names /\ admin \in Admins /\ m \in Names
    BY <1>2
  <2> HIDE DEF T
  <2>3. /\ admin' \in Admins /\ admin'.pc = "put" /\ admin'.m = m
        /\ admin'.todo = T /\ admin'.i = admin.i
        /\ admin'.obj = admin.obj /\ admin'.names = admin.names
    BY <2>1, <2>2 DEF Admins
  <2> QED BY <2>3 DEF T
<1>4. AdminOK'
  BY <1>2, <1>3 DEF AdminOK
<1> DEFINE y == <<admin.i, m>>
<1>5. y \in Sites /\ y[1] = admin.i
  BY <1>2, SitePair
<1>6. /\ maps' \subseteq Interfaces /\ reg' \in [Sites -> Entries]
      /\ admin.i \in maps'
      /\ \A x \in Sites : /\ reg'[x].st # "absent" => x[1] \in maps'
                          /\ Real(reg'[x]) <=> reg'[x].obj # None
  <2>1. CASE reg[y].st = "absent"
    BY <1>1, <1>2, <1>5, <2>1, EntryTypes DEF RegistryInv, RegistryTypeOK
  <2>2. CASE reg[y].st # "absent"
    BY <1>1, <1>2, <1>5, <2>2 DEF RegistryInv, RegistryTypeOK
  <2> QED BY <2>1, <2>2
<1> QED BY <1>2, <1>3, <1>4, <1>6 DEF RegistryInv, RegistryTypeOK, Real

LEMMA PutBindingInv ==
  ASSUME RegistryInv, PutBinding
  PROVE  RegistryInv'
<1> DEFINE y == <<admin.i, admin.m>>
           e == [st |-> admin.kind, obj |-> admin.obj, inj |-> NewInjections]
<1>1. /\ admin \in Admins /\ admin.pc = "put" /\ admin.i \in Interfaces
      /\ admin.obj \in Objs /\ admin.todo \subseteq admin.names
      /\ admin.m \in Names /\ admin.i \in maps
      /\ UNCHANGED <<maps, globals, revision, ops>>
  BY DEF PutBinding, RegistryInv, RegistryTypeOK, AdminOK, Admins
<1>2. y \in Sites /\ y[1] = admin.i
  BY <1>1, SitePair
<1>3. e \in Entries /\ Real(e) /\ e.obj # None
  BY <1>1, NewEntry
<1>4. reg' = [reg EXCEPT ![y] = e]
  BY DEF PutBinding
<1> HIDE DEF y, e
<1>5. /\ reg' \in [Sites -> Entries]
      /\ \A x \in Sites : /\ reg'[x].st # "absent" => x[1] \in maps
                          /\ Real(reg'[x]) <=> reg'[x].obj # None
  BY <1>1, <1>2, <1>3, <1>4 DEF RegistryInv, RegistryTypeOK
<1>6. admin' \in Admins /\ admin'.pc # "put" /\ AdminOK'
  <2>1. CASE admin' = Idle
    BY <2>1, IdleAdmin DEF AdminOK
  <2>2. ASSUME NEW s \in {"new", "bump"}, admin' = [admin EXCEPT !.pc = s],
               s = "bump" => admin.kind = "bound"
        PROVE  <1>6
    <3>1. /\ admin' \in Admins /\ admin'.pc = s /\ admin'.todo = admin.todo
          /\ admin'.i = admin.i /\ admin'.obj = admin.obj
          /\ admin'.names = admin.names /\ admin'.kind = admin.kind
      BY <1>1, <2>2, AdminTo
    <3> QED BY <1>1, <2>2, <3>1 DEF AdminOK
  <2>3. admin.kind \in {"bound", "handler"}
    BY <1>1 DEF Admins
  <2> QED BY <2>1, <2>2, <2>3 DEF PutBinding
<1> QED BY <1>1, <1>5, <1>6 DEF RegistryInv, RegistryTypeOK, Real

LEMMA BumpInv == RegistryInv /\ Bump => RegistryInv'
<1> SUFFICES ASSUME RegistryInv, Bump PROVE RegistryInv'
  OBVIOUS
<1>1. admin' = Idle /\ UNCHANGED <<maps, reg, globals, ops>>
  BY DEF Bump
<1>2. revision' \in Nat
  BY DEF Bump, RegistryInv, RegistryTypeOK
<1>3. AdminOK' /\ admin' \in Admins /\ admin'.pc = "idle"
  BY <1>1, IdleAdmin DEF AdminOK
<1> QED BY <1>1, <1>2, <1>3 DEF RegistryInv, RegistryTypeOK, Real

LEMMA RemoveInv ==
  ASSUME RegistryInv,
         (\E x \in Sites : RemoveBinding(x))
           \/ (\E i \in Interfaces : RemoveInterface(i))
  PROVE  RegistryInv'
<1>1. ops' \in 0 .. MaxOps /\ admin.pc = "idle" /\ UNCHANGED <<globals, revision, admin>>
  BY BeginTypes DEF RemoveBinding, RemoveInterface
<1>2. /\ maps' \subseteq Interfaces /\ reg' \in [Sites -> Entries]
      /\ \A x \in Sites : \/ reg'[x] = Absent
                          \/ reg'[x] = reg[x] /\ (x[1] \in maps => x[1] \in maps')
  <2>1. ASSUME NEW x \in Sites, RemoveBinding(x) PROVE <1>2
    BY <2>1, EntryTypes DEF RemoveBinding, RegistryInv, RegistryTypeOK
  <2>2. ASSUME NEW i \in Interfaces, RemoveInterface(i) PROVE <1>2
    BY <2>2, EntryTypes DEF RemoveInterface, RegistryInv, RegistryTypeOK
  <2> QED BY <2>1, <2>2
<1>3. \A x \in Sites : /\ reg'[x].st # "absent" => x[1] \in maps'
                       /\ Real(reg'[x]) <=> reg'[x].obj # None
  BY <1>2, EntryTypes DEF RegistryInv, RegistryTypeOK
<1> QED BY <1>1, <1>2, <1>3 DEF RegistryInv, RegistryTypeOK, AdminOK, Real

LEMMA InjectInv ==
  ASSUME RegistryInv, NEW t \in Types,
         SetupGlobalInjection(t) \/ \E x \in Sites : AddInjection(x, t)
  PROVE  RegistryInv'
<1>1. /\ ops' \in 0 .. MaxOps /\ admin.pc = "idle" /\ UNCHANGED <<maps, revision, admin>>
      /\ globals' \subseteq Types
  BY BeginTypes DEF SetupGlobalInjection, AddInjection, RegistryInv, RegistryTypeOK
<1>2. /\ reg' \in [Sites -> Entries]
      /\ \A x \in Sites : /\ reg'[x].st = reg[x].st /\ reg'[x].obj = reg[x].obj
                          /\ Real(reg'[x]) <=> Real(reg[x])
  <2>0. reg \in [Sites -> Entries]
    BY DEF RegistryInv, RegistryTypeOK
  <2> DEFINE d(x) == [reg[x] EXCEPT !.inj = @ \cup {t}]
  <2>1. \A x \in Sites : /\ d(x) \in Entries /\ d(x).st = reg[x].st
                         /\ d(x).obj = reg[x].obj
                         /\ Real(d(x)) <=> Real(reg[x])
    BY <2>0, MoreInjections
  <2>2. ASSUME NEW x \in Sites, AddInjection(x, t) PROVE <1>2
    <3>1. reg' = [reg EXCEPT ![x] = d(x)]
      BY <2>2 DEF AddInjection
    <3> HIDE DEF d
    <3> QED BY <2>0, <2>1, <3>1
  <2>3. CASE SetupGlobalInjection(t)
    <3>1. reg' = [x \in Sites |-> IF Real(reg[x]) THEN d(x) ELSE reg[x]]
      BY <2>3 DEF SetupGlobalInjection
    <3> HIDE DEF d
    <3> QED BY <2>0, <2>1, <3>1
  <2> QED BY <2>2, <2>3
<1>3. \A x \in Sites : /\ reg'[x].st # "absent" => x[1] \in maps'
                       /\ Real(reg'[x]) <=> reg'[x].obj # None
  BY <1>1, <1>2 DEF RegistryInv, RegistryTypeOK
<1> QED BY <1>1, <1>2, <1>3 DEF RegistryInv, RegistryTypeOK, AdminOK, Real

LEMMA RegistryNextInv == RegistryInv /\ RegistryNext => RegistryInv'
  BY ExposeInv, NewBindingInv, PutBindingInv, BumpInv, RemoveInv, InjectInv
     DEF RegistryNext

-----------------------------------------------------------------------------
(* The requests and the cache.                                             *)

CacheEntries == [engine : Engines, revision : 0 .. revision]

\* Who asks, which no step of the request changes; and what has changed since.
SameAsker(p, q) == p.plat = q.plat /\ p.host = q.host /\ p.query = q.query
SameBuild(p, q) == SameAsker(p, q) /\ p.over = q.over /\ p.cleared = q.cleared

\* Types, with the administrator's; every request has an entry in the cache.
Typed ==
  /\ TypeOK /\ RegistryInv /\ <<"web">> \in DOMAIN cache
  /\ \A r \in Requests :
       /\ CacheKey(req[r]) \in DOMAIN cache
       /\ req[r].pc = "method" => req[r].i \in Interfaces
       /\ req[r].pc \notin {"idle", "failed"} => req[r].host \in Hosts

LEMMA NoReqTyped ==
  /\ NoReq \in Reqs /\ [NoReq EXCEPT !.pc = "failed"] \in Reqs
  /\ CacheKey(NoReq) = <<"web">> /\ CacheKey([NoReq EXCEPT !.pc = "failed"]) = <<"web">>
  /\ NoReq.pc = "idle" /\ [NoReq EXCEPT !.pc = "failed"].pc = "failed"
  BY DEF NoReq, Reqs, Pcs, Platforms, Bases, CacheKey

LEMMA NoEntryTyped ==
  /\ NoEngine \in Engines /\ NoEntry \in [engine : Engines, revision : {0}]
  /\ NoEntry.engine = NoEngine /\ NoEntry.revision = 0
  BY DEF NoEngine, NoEntry, Engines, Bases

LEMMA SameKey ==
  ASSUME NEW p, NEW q, SameAsker(p, q)
  PROVE  /\ CacheKey(p) = CacheKey(q) /\ ExternalUrl(p) = ExternalUrl(q)
         /\ BaseUrl(p) = BaseUrl(q)
  BY DEF SameAsker, CacheKey, ExternalUrl, BaseUrl

\* The steps of a request, field by field.
LEMMA AskedProps ==
  ASSUME NEW p \in Reqs, NEW r, p = req[r]
  PROVE  LET a == Asked(r)
         IN /\ a \in Reqs /\ SameAsker(a, p) /\ a.cleared = p.cleared
            /\ a.over = {} /\ a.lists = {} /\ a.out = << >>
<1> DEFINE a == Asked(r)
<1>1. a = [NoReq EXCEPT !.plat = p.plat, !.host = p.host,
                        !.query = p.query, !.cleared = p.cleared]
  BY DEF Asked
<1>2. a = [pc |-> "idle", plat |-> p.plat, host |-> p.host, query |-> p.query,
           val |-> FALSE, ifs |-> {}, i |-> None, ms |-> {}, lists |-> {},
           out |-> << >>, over |-> {}, cleared |-> p.cleared]
  BY <1>1 DEF NoReq
<1>3. a \in Reqs
  BY <1>2 DEF Reqs, Pcs, Bases
<1> QED BY <1>2, <1>3 DEF SameAsker

LEMMA ParamsStep ==
  ASSUME req \in [Requests -> Reqs], flags \in BOOLEAN, NEW r \in Requests, Params(r)
  PROVE  \E q \in Reqs : /\ To(r, q) /\ SameBuild(q, req[r])
                         /\ q.pc = "names" /\ q.val = flags
<1>1. PICK p \in Reqs : p = req[r]
  OBVIOUS
<1> DEFINE q == [p EXCEPT !.pc = "names", !.val = flags]
<1>2. q \in Reqs
  BY DEF Reqs, Pcs
<1>3. q.pc = "names" /\ q.val = flags
  BY DEF Reqs
<1>4. SameBuild(q, p)
  BY DEF Reqs, SameBuild, SameAsker
<1>5. To(r, q)
  BY <1>1 DEF Params
<1> HIDE DEF q
<1> QED BY <1>1, <1>2, <1>3, <1>4, <1>5

LEMMA InterfacesStep ==
  ASSUME req \in [Requests -> Reqs], maps \subseteq Interfaces,
         NEW r \in Requests, ListInterfaces(r)
  PROVE  \E q \in Reqs : /\ To(r, q) /\ SameBuild(q, req[r])
                         /\ q.pc = "interface" /\ q.ifs = maps /\ q.val = req[r].val
<1>1. PICK p \in Reqs : p = req[r]
  OBVIOUS
<1> DEFINE q == [p EXCEPT !.pc = "interface", !.ifs = maps]
<1>2. q \in Reqs
  BY DEF Reqs, Pcs
<1>3. q.pc = "interface" /\ q.ifs = maps /\ q.val = p.val
  BY DEF Reqs
<1>4. SameBuild(q, p)
  BY DEF Reqs, SameBuild, SameAsker
<1>5. To(r, q)
  BY <1>1 DEF ListInterfaces
<1> HIDE DEF q
<1> QED BY <1>1, <1>2, <1>3, <1>4, <1>5

LEMMA MethodsStep ==
  ASSUME req \in [Requests -> Reqs], NEW r \in Requests, ListMethods(r)
  PROVE  \E q \in Reqs, i \in Interfaces :
           /\ To(r, q) /\ SameBuild(q, req[r]) /\ i \in req[r].ifs
           /\ q.pc = After(BindingNames(i)) /\ q.i = i
           /\ q.ifs = req[r].ifs \ {i} /\ q.ms = BindingNames(i)
           /\ q.lists = req[r].lists /\ q.val = req[r].val
<1>1. PICK p \in Reqs : p = req[r]
  OBVIOUS
<1>2. PICK i \in p.ifs :
        To(r, [p EXCEPT !.pc = After(BindingNames(i)), !.i = i,
                        !.ifs = p.ifs \ {i}, !.ms = BindingNames(i)])
  BY <1>1 DEF ListMethods
<1>3. i \in Interfaces /\ p.ifs \ {i} \in SUBSET Interfaces
  BY DEF Reqs
<1> DEFINE M == BindingNames(i)
           s == After(M)
           I == p.ifs \ {i}
<1>4. M \in SUBSET Names /\ s \in Pcs
  BY DEF BindingNames, After, Pcs
<1> HIDE DEF M, s, I
<1> DEFINE q == [p EXCEPT !.pc = s, !.i = i, !.ifs = I, !.ms = M]
<1>5. q \in Reqs
  BY <1>3, <1>4 DEF Reqs, I
<1>6. /\ q.pc = s /\ q.i = i /\ q.ifs = I /\ q.ms = M
      /\ q.lists = p.lists /\ q.val = p.val
  BY DEF Reqs
<1>7. SameBuild(q, p)
  BY DEF Reqs, SameBuild, SameAsker
<1>8. To(r, q)
  BY <1>2 DEF s, M, I
<1> HIDE DEF q
<1> QED BY <1>1, <1>3, <1>5, <1>6, <1>7, <1>8 DEF s, M, I

LEMMA MethodStep ==
  ASSUME req \in [Requests -> Reqs], RegistryInv, NEW r \in Requests,
         req[r].i \in Interfaces, AddMethod(r)
  PROVE  \/ To(r, [NoReq EXCEPT !.pc = "failed"])
         \/ \E q \in Reqs, m \in Names, x \in Sites :
              /\ To(r, q) /\ SameBuild(q, req[r]) /\ m \in req[r].ms
              /\ x = <<req[r].i, m>> /\ Real(reg[x])
              /\ q.pc = After(req[r].ms \ {m}) /\ q.i = req[r].i
              /\ q.ifs = req[r].ifs /\ q.ms = req[r].ms \ {m}
              /\ q.lists = req[r].lists \cup {<<x, reg[x].obj>>}
              /\ q.val = req[r].val
<1> SUFFICES ASSUME ~To(r, [NoReq EXCEPT !.pc = "failed"])
             PROVE  \E q \in Reqs, m \in Names, x \in Sites :
              /\ To(r, q) /\ SameBuild(q, req[r]) /\ m \in req[r].ms
              /\ x = <<req[r].i, m>> /\ Real(reg[x])
              /\ q.pc = After(req[r].ms \ {m}) /\ q.i = req[r].i
              /\ q.ifs = req[r].ifs /\ q.ms = req[r].ms \ {m}
              /\ q.lists = req[r].lists \cup {<<x, reg[x].obj>>}
              /\ q.val = req[r].val
  OBVIOUS
<1>1. PICK p \in Reqs : p = req[r]
  OBVIOUS
<1>0. PICK m \in p.ms : \E x : /\ x = <<p.i, m>> /\ Real(reg[x])
        /\ To(r, [p EXCEPT !.pc = After(p.ms \ {m}), !.ms = p.ms \ {m},
                           !.lists = p.lists \cup {<<x, reg[x].obj>>}])
  BY <1>1 DEF AddMethod
<1>2. PICK x : /\ x = <<p.i, m>> /\ Real(reg[x])
        /\ To(r, [p EXCEPT !.pc = After(p.ms \ {m}), !.ms = p.ms \ {m},
                           !.lists = p.lists \cup {<<x, reg[x].obj>>}])
  BY <1>0
<1>3. x \in Sites /\ reg[x].obj \in Objs
  <2>1. x \in Sites
    BY <1>1, <1>2, SitePair DEF Reqs
  <2> QED BY <1>2, <2>1 DEF RegistryInv, RegistryTypeOK, Entries
<1> DEFINE M == p.ms \ {m}
           s == After(M)
           L == p.lists \cup {<<x, reg[x].obj>>}
<1>4. M \in SUBSET Names /\ s \in Pcs /\ m \in Names /\ L \in SUBSET (Sites \X Objs)
  BY <1>3 DEF After, Pcs, Reqs
<1> HIDE DEF M, s, L
<1> DEFINE q == [p EXCEPT !.pc = s, !.ms = M, !.lists = L]
<1>5. q \in Reqs
  BY <1>4 DEF Reqs
<1>6. /\ q.pc = s /\ q.i = p.i /\ q.ifs = p.ifs /\ q.ms = M
      /\ q.lists = L /\ q.val = p.val
  BY DEF Reqs
<1>7. SameBuild(q, p)
  BY DEF Reqs, SameBuild, SameAsker
<1>8. To(r, q)
  BY <1>2 DEF s, M, L
<1> HIDE DEF q
<1> QED BY <1>1, <1>2, <1>3, <1>4, <1>5, <1>6, <1>7, <1>8 DEF s, M, L

\* A request that starts: with what it looks up, and with what changes now.
Found(r, ask, q, e) ==
  /\ To(r, q) /\ SameAsker(q, ask) /\ CacheKey(q) = CacheKey(ask)
  /\ e = IF CacheKey(q) \in DOMAIN cache THEN cache[CacheKey(q)] ELSE NoEntry
  /\ cache' = [j \in DOMAIN cache \cup {CacheKey(q)} |->
                 IF j = CacheKey(q) THEN e ELSE cache[j]]
  /\ q.cleared = FALSE /\ q.lists = {} /\ q.ms = {}
  /\ \/ MustBuild(e) /\ q.pc = "params" /\ q.over = Changing
     \/ ~MustBuild(e) /\ q.pc = "serve"
  /\ req[r].pc = "idle" /\ UNCHANGED <<registry, flags>>

LEMMA LookStep ==
  ASSUME NEW r \in Requests, NEW ask \in [plat : Platforms, host : Hosts, query : Queries],
         Changing \subseteq Changes, Look(r, ask)
  PROVE  \E q \in Reqs : \E e : Found(r, ask, q, e)
<1> DEFINE q0 == [NoReq EXCEPT !.plat = ask.plat, !.host = ask.host, !.query = ask.query]
           k == CacheKey(q0)
           e == IF k \in DOMAIN cache THEN cache[k] ELSE NoEntry
<1>1. /\ req[r].pc = "idle" /\ UNCHANGED <<registry, flags>>
      /\ cache' = [j \in DOMAIN cache \cup {k} |-> IF j = k THEN e ELSE cache[j]]
      /\ To(r, IF MustBuild(e) THEN [q0 EXCEPT !.pc = "params", !.over = Changing]
               ELSE [q0 EXCEPT !.pc = "serve"])
  BY DEF Look
<1>2. PICK n \in Reqs : n = NoReq
  BY NoReqTyped
<1>3. ask.plat \in Platforms /\ ask.host \in Hosts /\ ask.query \in Queries
  OBVIOUS
<1>4. q0 \in Reqs /\ SameAsker(q0, ask) /\ q0.cleared = FALSE /\ q0.lists = {}
        /\ q0.ms = {} /\ q0.over = {}
  <2> DEFINE q == [n EXCEPT !.plat = ask.plat, !.host = ask.host, !.query = ask.query]
  <2>1. q \in Reqs
    BY <1>3 DEF Reqs
  <2>2. /\ q.plat = ask.plat /\ q.host = ask.host /\ q.query = ask.query
        /\ q.cleared = n.cleared /\ q.lists = n.lists /\ q.ms = n.ms /\ q.over = n.over
    BY DEF Reqs
  <2>3. n.cleared = FALSE /\ n.lists = {} /\ n.ms = {} /\ n.over = {}
    BY <1>2 DEF NoReq
  <2>4. q = q0
    BY <1>2
  <2> HIDE DEF q, q0
  <2> QED BY <2>1, <2>2, <2>3, <2>4 DEF SameAsker
<1> HIDE DEF q0
<1>5. PICK p \in Reqs : p = q0
  BY <1>4
<1>6. CASE MustBuild(e)
  <2> DEFINE q == [p EXCEPT !.pc = "params", !.over = Changing]
  <2>1. q \in Reqs
    BY DEF Reqs, Pcs
  <2>2. /\ q.pc = "params" /\ q.over = Changing /\ q.cleared = p.cleared
        /\ q.lists = p.lists /\ q.ms = p.ms
    BY DEF Reqs
  <2>3. SameAsker(q, p)
    BY DEF Reqs, SameAsker
  <2>4. To(r, q)
    BY <1>1, <1>5, <1>6
  <2> HIDE DEF q
  <2>5. CacheKey(q) = k /\ CacheKey(q) = CacheKey(ask) /\ SameAsker(q, ask)
    BY <1>4, <1>5, <2>3, SameKey DEF SameAsker
  <2> HIDE DEF k
  <2> QED BY <1>1, <1>4, <1>5, <1>6, <2>1, <2>2, <2>4, <2>5 DEF Found
<1>7. CASE ~MustBuild(e)
  <2> DEFINE q == [p EXCEPT !.pc = "serve"]
  <2>1. q \in Reqs
    BY DEF Reqs, Pcs
  <2>2. /\ q.pc = "serve" /\ q.cleared = p.cleared
        /\ q.lists = p.lists /\ q.ms = p.ms
    BY DEF Reqs
  <2>3. SameAsker(q, p)
    BY DEF Reqs, SameAsker
  <2>4. To(r, q)
    BY <1>1, <1>5, <1>7
  <2> HIDE DEF q
  <2>5. CacheKey(q) = k /\ CacheKey(q) = CacheKey(ask) /\ SameAsker(q, ask)
    BY <1>4, <1>5, <2>3, SameKey DEF SameAsker
  <2> HIDE DEF k
  <2> QED BY <1>1, <1>4, <1>5, <1>7, <2>1, <2>2, <2>4, <2>5 DEF Found
<1> QED BY <1>6, <1>7

LEMMA SetStep ==
  ASSUME req \in [Requests -> Reqs], NEW r \in Requests, SetEngine(r)
  PROVE  \E q \in Reqs : To(r, q) /\ SameBuild(q, req[r]) /\ q.pc = "stamp"
<1>1. PICK p \in Reqs : p = req[r]
  OBVIOUS
<1>2. PICK a \in Reqs : a = Asked(r)
  BY <1>1, AskedProps
<1>3. SameAsker(a, p) /\ a.cleared = p.cleared
  BY <1>1, <1>2, AskedProps
<1>4. p.over \in SUBSET Changes
  BY DEF Reqs
<1> DEFINE q == [a EXCEPT !.pc = "stamp", !.over = p.over]
<1>5. q \in Reqs
  BY <1>4 DEF Reqs, Pcs
<1>6. q.pc = "stamp" /\ q.over = p.over /\ q.cleared = a.cleared
  BY DEF Reqs
<1>7. SameAsker(q, a)
  BY DEF Reqs, SameAsker
<1>8. To(r, q)
  BY <1>1, <1>2 DEF SetEngine
<1> HIDE DEF q
<1>9. SameBuild(q, p)
  BY <1>3, <1>6, <1>7 DEF SameBuild, SameAsker
<1> QED BY <1>1, <1>5, <1>6, <1>8, <1>9

LEMMA StampStep ==
  ASSUME req \in [Requests -> Reqs], NEW r \in Requests, Stamp(r)
  PROVE  \E q \in Reqs : /\ To(r, q) /\ SameAsker(q, req[r])
                         /\ q.cleared = req[r].cleared /\ q.pc = "serve"
<1>1. PICK p \in Reqs : p = req[r]
  OBVIOUS
<1>2. PICK a \in Reqs : a = Asked(r)
  BY <1>1, AskedProps
<1>3. SameAsker(a, p) /\ a.cleared = p.cleared
  BY <1>1, <1>2, AskedProps
<1> DEFINE q == [a EXCEPT !.pc = "serve"]
<1>5. q \in Reqs
  BY DEF Reqs, Pcs
<1>6. q.pc = "serve" /\ q.cleared = a.cleared
  BY DEF Reqs
<1>7. SameAsker(q, a)
  BY DEF Reqs, SameAsker
<1>8. To(r, q)
  BY <1>1, <1>2 DEF Stamp
<1> HIDE DEF q
<1>9. SameAsker(q, p)
  BY <1>3, <1>7 DEF SameAsker
<1> QED BY <1>1, <1>3, <1>5, <1>6, <1>8, <1>9

LEMMA ServeStep ==
  ASSUME Typed, NEW r \in Requests, Serve(r)
  PROVE  \E q \in Reqs : /\ To(r, q) /\ SameAsker(q, req[r])
                         /\ q.cleared = req[r].cleared /\ q.pc = "done"
                         /\ q.out = cache[CacheKey(req[r])].engine.base
<1> DEFINE b == Entry(r).engine.base
<1>1. PICK p \in Reqs : p = req[r]
  BY DEF Typed, TypeOK
<1>2. PICK a \in Reqs : a = Asked(r)
  BY <1>1, AskedProps
<1>3. SameAsker(a, p) /\ a.cleared = p.cleared
  BY <1>1, <1>2, AskedProps
<1>4. b \in Bases
  <2>1. Entry(r).engine \in Engines
    BY DEF Typed, TypeOK, Entry
  <2> QED BY <2>1 DEF Engines
<1> HIDE DEF b
<1> DEFINE q == [a EXCEPT !.pc = "done", !.out = b]
<1>5. q \in Reqs
  BY <1>4 DEF Reqs, Pcs
<1>6. q.pc = "done" /\ q.cleared = a.cleared /\ q.out = b
  BY DEF Reqs
<1>7. SameAsker(q, a)
  BY DEF Reqs, SameAsker
<1>8. To(r, q)
  BY <1>1, <1>2 DEF Serve, b
<1> HIDE DEF q
<1>9. SameAsker(q, p)
  BY <1>3, <1>7 DEF SameAsker
<1> QED BY <1>1, <1>3, <1>5, <1>6, <1>8, <1>9 DEF b, Entry

\* The requests see a change of the administrator's.
LEMMA WitnessStep ==
  ASSUME req \in [Requests -> Reqs], NEW ch \in SUBSET Changes, NEW cl \in BOOLEAN,
         Witness(ch, cl)
  PROVE  /\ req' \in [Requests -> Reqs]
         /\ \A r \in Requests :
              /\ SameAsker(req'[r], req[r])
              /\ req'[r].pc = req[r].pc /\ req'[r].val = req[r].val
              /\ req'[r].ifs = req[r].ifs /\ req'[r].i = req[r].i
              /\ req'[r].ms = req[r].ms /\ req'[r].lists = req[r].lists
              /\ req'[r].out = req[r].out
              /\ req'[r].over = IF Building(r) THEN req[r].over \cup ch ELSE req[r].over
              /\ req'[r].cleared = IF Building(r) \/ req[r].pc = "serve"
                                  THEN (req[r].cleared \/ cl) ELSE req[r].cleared
<1> SUFFICES ASSUME NEW r \in Requests
             PROVE  /\ req'[r] \in Reqs
                    /\ SameAsker(req'[r], req[r])
                    /\ req'[r].pc = req[r].pc /\ req'[r].val = req[r].val
                    /\ req'[r].ifs = req[r].ifs /\ req'[r].i = req[r].i
                    /\ req'[r].ms = req[r].ms /\ req'[r].lists = req[r].lists
                    /\ req'[r].out = req[r].out
                    /\ req'[r].over = IF Building(r) THEN req[r].over \cup ch
                                      ELSE req[r].over
                    /\ req'[r].cleared = IF Building(r) \/ req[r].pc = "serve"
                                         THEN (req[r].cleared \/ cl)
                                         ELSE req[r].cleared
  BY DEF Witness
<1>1. PICK p \in Reqs : p = req[r]
  OBVIOUS
<1>2. PICK q : q = req'[r]
  OBVIOUS
<1> DEFINE O == IF Building(r) THEN p.over \cup ch ELSE p.over
           c == p.cleared \/ (cl /\ (Building(r) \/ p.pc = "serve"))
<1>3. O \in SUBSET Changes /\ c \in BOOLEAN
  BY DEF Reqs
<1>4. q = [p EXCEPT !.over = O, !.cleared = c]
  BY <1>1, <1>2, Zenon DEF Witness
<1>5. c = IF Building(r) \/ p.pc = "serve" THEN (p.cleared \/ cl) ELSE p.cleared
  BY DEF Reqs
<1> HIDE DEF O, c
<1>6. q \in Reqs
  BY <1>3, <1>4 DEF Reqs
<1>7. /\ SameAsker(q, p) /\ q.pc = p.pc /\ q.val = p.val /\ q.ifs = p.ifs
      /\ q.i = p.i /\ q.ms = p.ms /\ q.lists = p.lists /\ q.out = p.out
      /\ q.over = O /\ q.cleared = c
  BY <1>4 DEF Reqs, SameAsker
<1> QED BY <1>1, <1>2, <1>5, <1>6, <1>7 DEF O

-----------------------------------------------------------------------------
(* Types.                                                                  *)

CacheKeys == {<<p>> : p \in Platforms} \cup ({"nodejs"} \X Hosts)

\* A revision is never taken back.
LEMMA RevisionGrows ==
  ASSUME RegistryInv, RegistryNext
  PROVE  revision' \in Nat /\ revision <= revision'
<1>1. revision \in Nat
  BY DEF RegistryInv, RegistryTypeOK
<1>2. revision' \in {revision, revision + 1}
  <2>1. CASE NewBinding \/ PutBinding \/ Bump
    BY <2>1 DEF NewBinding, PutBinding, Bump
  <2>2. ASSUME NEW kind, NEW i, NEW ms, NEW o, Expose(kind, i, ms, o)
        PROVE  <1>2
    BY <2>2 DEF Expose
  <2>3. ASSUME NEW x, RemoveBinding(x) \/ RemoveInterface(x)
                        \/ SetupGlobalInjection(x) \/ \E t \in Types : AddInjection(x, t)
        PROVE  <1>2
    BY <2>3 DEF RemoveBinding, RemoveInterface, AddInjection, SetupGlobalInjection
  <2> QED BY <2>1, <2>2, <2>3 DEF RegistryNext
<1> QED BY <1>1, <1>2

LEMMA PendingSites ==
  /\ RegistryInv => Pending \in SUBSET Changes
  /\ RegistryInv' => Pending' \in SUBSET Changes
<1>1. RegistryInv => Pending \in SUBSET Sites
  BY SitePair DEF RegistryInv, RegistryTypeOK, AdminOK, Admins, Pending
<1>2. RegistryInv' => Pending' \in SUBSET Sites
  BY SitePair DEF RegistryInv, RegistryTypeOK, AdminOK, Admins, Pending
<1> QED BY <1>1, <1>2 DEF Changes

LEMMA ChangingTyped == RegistryInv => Changing \in SUBSET Changes
  BY PendingSites DEF Changing, Changes

\* Steps of the administrator keep the requests' types.
LEMMA WitnessTyped ==
  ASSUME Typed, RegistryInv', revision <= revision', flags' \in BOOLEAN,
         NEW ch \in SUBSET Changes, NEW cl \in BOOLEAN, Witness(ch, cl),
         cache' \in {cache, Cleared}
  PROVE  Typed'
<1>1. /\ req \in [Requests -> Reqs] /\ revision \in Nat /\ revision' \in Nat
      /\ cache \in [DOMAIN cache -> CacheEntries] /\ DOMAIN cache \subseteq CacheKeys
  BY DEF Typed, TypeOK, RegistryInv, RegistryTypeOK, CacheEntries, CacheKeys
<1>2. /\ req' \in [Requests -> Reqs]
      /\ \A r \in Requests : /\ SameAsker(req'[r], req[r])
                             /\ req'[r].pc = req[r].pc /\ req'[r].i = req[r].i
  BY <1>1, WitnessStep
<1>3. \A r \in Requests : /\ CacheKey(req'[r]) = CacheKey(req[r])
                          /\ req'[r].pc = "method" => req'[r].i \in Interfaces
                          /\ req'[r].pc \notin {"idle", "failed"} =>
                               req'[r].host \in Hosts
  BY <1>2, SameKey DEF Typed, SameAsker
<1>4. [engine : Engines, revision : 0 .. revision]
        \subseteq [engine : Engines, revision : 0 .. revision']
  <2>1. 0 .. revision \subseteq 0 .. revision'
    BY <1>1
  <2> QED BY <2>1
<1>5. NoEntry \in [engine : Engines, revision : 0 .. revision']
  <2>1. {0} \subseteq 0 .. revision'
    BY <1>1
  <2> QED BY <2>1, NoEntryTyped
<1>6. /\ DOMAIN cache' = DOMAIN cache
      /\ cache' \in [DOMAIN cache' -> [engine : Engines, revision : 0 .. revision']]
  <2>1. CASE cache' = cache
    BY <1>1, <1>4, <2>1 DEF CacheEntries
  <2>2. CASE cache' = Cleared
    BY <1>5, <2>2 DEF Cleared
  <2> QED BY <2>1, <2>2
<1>7. TypeOK'
  BY <1>1, <1>2, <1>6 DEF TypeOK, RegistryInv, CacheKeys
<1> QED BY <1>3, <1>6, <1>7 DEF Typed

\* Steps of one request do.
LEMMA OneStepTyped ==
  ASSUME Typed, NEW r \in Requests, NEW q \in Reqs, To(r, q),
         UNCHANGED <<registry, flags>>,
         DOMAIN cache \subseteq DOMAIN cache', DOMAIN cache' \subseteq CacheKeys,
         cache' \in [DOMAIN cache' -> CacheEntries],
         CacheKey(q) \in DOMAIN cache', q.pc = "method" => q.i \in Interfaces,
         q.pc \notin {"idle", "failed"} => q.host \in Hosts
  PROVE  Typed'
<1>1. req' \in [Requests -> Reqs]
        /\ \A s \in Requests : req'[s] = IF s = r THEN q ELSE req[s]
  BY DEF Typed, TypeOK, To
<1>2. RegistryInv'
  BY DEF Typed, RegistryInv, RegistryTypeOK, AdminOK, registry, Real
<1>3. TypeOK'
  BY <1>1, <1>2 DEF Typed, TypeOK, RegistryInv, CacheEntries, CacheKeys, registry
<1> QED BY <1>1, <1>2, <1>3 DEF Typed

LEMMA OneStepRead ==
  ASSUME Typed, NEW r \in Requests, NEW q \in Reqs, To(r, q),
         UNCHANGED <<registry, cache, flags>>,
         CacheKey(q) \in DOMAIN cache, q.pc = "method" => q.i \in Interfaces,
         q.pc \notin {"idle", "failed"} => q.host \in Hosts
  PROVE  Typed'
  BY OneStepTyped DEF Typed, TypeOK, CacheEntries, CacheKeys

LEMMA StaysTyped ==
  ASSUME Typed, NEW r \in Requests, NEW q \in Reqs, To(r, q),
         UNCHANGED <<registry, cache, flags>>,
         SameAsker(q, req[r]), req[r].pc \notin {"idle", "failed"},
         q.pc = "method" => q.i \in Interfaces
  PROVE  Typed'
<1>1. CacheKey(q) \in DOMAIN cache
  BY SameKey DEF Typed
<1>2. q.host \in Hosts
  BY DEF SameAsker, Typed
<1> QED BY <1>1, <1>2, OneStepRead

LEMMA TypedInit == Init => Typed
<1> SUFFICES ASSUME Init PROVE Typed
  OBVIOUS
<1>1. RegistryInv
  BY RegistryInitInv DEF Init
<1>2. /\ revision = 0 /\ DOMAIN cache = {<<p>> : p \in Platforms}
      /\ cache = [k \in DOMAIN cache |-> NoEntry]
  BY DEF Init, RegistryInit, EngineInit
<1>3. NoEntry \in [engine : Engines, revision : 0 .. 0]
  BY NoEntryTyped
<1>4. \A r \in Requests : req[r] = NoReq
  BY DEF Init, EngineInit
<1>5. <<"web">> \in DOMAIN cache
  BY <1>2 DEF Platforms
<1>6. req \in [Requests -> Reqs]
  BY NoReqTyped DEF Init, EngineInit
<1>7. cache \in [DOMAIN cache -> [engine : Engines, revision : 0 .. revision]]
  BY <1>2, <1>3
<1>8. TypeOK
  BY <1>1, <1>2, <1>6, <1>7 DEF TypeOK, RegistryInv, Init, EngineInit
<1> QED BY <1>1, <1>4, <1>5, <1>8, NoReqTyped DEF Typed

LEMMA BaseTyped ==
  ASSUME NEW p \in Reqs, p.host \in Hosts
  PROVE  /\ BaseUrl(p) \in {<< >>} \cup (Hosts \X (Queries \cup {None}))
         /\ BaseUrl(p) # << >> => BaseUrl(p)[1] = ExternalUrl(p).host
<1>1. ExternalUrl(p).host \in Hosts
  BY EngineAssumption DEF EngineAssumption, ExternalUrl
<1>2. ExternalUrl(p).query \in Queries \cup {None}
  BY DEF ExternalUrl, Reqs
<1> QED BY <1>1, <1>2 DEF BaseUrl

\* An engine that a request built takes its place in the cache.
LEMMA SetEngineCache ==
  ASSUME Typed, NEW r \in Requests, SetEngine(r)
  PROVE  \E g \in Engines :
           /\ g.base = BaseUrl(req[r]) /\ g.lists = req[r].lists
           /\ g.val = req[r].val /\ g.over = req[r].over
           /\ DOMAIN cache' = DOMAIN cache
           /\ \A k \in DOMAIN cache :
                cache'[k] = IF k = CacheKey(req[r])
                            THEN [engine |-> g, revision |-> cache[k].revision]
                            ELSE cache[k]
           /\ cache' \in [DOMAIN cache' -> CacheEntries]
<1>1. PICK p \in Reqs : p = req[r]
  BY DEF Typed, TypeOK
<1> DEFINE g == [base |-> BaseUrl(p), lists |-> p.lists, val |-> p.val, over |-> p.over]
<1>2. BaseUrl(p) \in Bases
  BY <1>1, BaseTyped DEF Typed, SetEngine, Bases
<1>3. g \in Engines
  BY <1>2 DEF Engines, Reqs
<1>4. /\ g.base = BaseUrl(p) /\ g.lists = p.lists /\ g.val = p.val /\ g.over = p.over
  OBVIOUS
<1>5. cache' = [cache EXCEPT ![CacheKey(p)].engine = g]
  BY <1>1 DEF SetEngine
<1> HIDE DEF g
<1>6. cache \in [DOMAIN cache -> CacheEntries] /\ CacheKey(p) \in DOMAIN cache
  BY <1>1 DEF Typed, TypeOK, CacheEntries
<1>7. PICK e \in CacheEntries : e = cache[CacheKey(p)]
  BY <1>6
<1>8. [e EXCEPT !.engine = g] = [engine |-> g, revision |-> e.revision]
  BY DEF CacheEntries
<1>9. [engine |-> g, revision |-> e.revision] \in CacheEntries
  BY <1>3 DEF CacheEntries
<1>10. cache' = [cache EXCEPT ![CacheKey(p)] = [engine |-> g, revision |-> e.revision]]
  BY <1>5, <1>7, <1>8
<1> QED BY <1>1, <1>3, <1>4, <1>6, <1>7, <1>9, <1>10

\* The stamp.
LEMMA StampCache ==
  ASSUME Typed, NEW r \in Requests, Stamp(r)
  PROVE  \E g \in Engines, e \in CacheEntries :
           /\ e = cache[CacheKey(req[r])]
           /\ \/ e.engine = NoEngine /\ g = NoEngine
              \/ /\ e.engine # NoEngine
                 /\ g.base = e.engine.base /\ g.lists = e.engine.lists
                 /\ g.val = e.engine.val /\ g.over = e.engine.over \cup req[r].over
           /\ DOMAIN cache' = DOMAIN cache
           /\ \A k \in DOMAIN cache :
                cache'[k] = IF k = CacheKey(req[r])
                            THEN [engine |-> g, revision |-> revision]
                            ELSE cache[k]
           /\ cache' \in [DOMAIN cache' -> CacheEntries]
<1>1. PICK p \in Reqs : p = req[r]
  BY DEF Typed, TypeOK
<1>2. cache \in [DOMAIN cache -> CacheEntries] /\ CacheKey(p) \in DOMAIN cache
  BY <1>1 DEF Typed, TypeOK, CacheEntries
<1>3. PICK e \in CacheEntries : e = cache[CacheKey(p)]
  BY <1>2
<1>4. PICK h \in Engines : h = e.engine
  BY DEF CacheEntries
<1> DEFINE O == h.over \cup p.over
           f == [h EXCEPT !.over = O]
           g == IF h = NoEngine THEN NoEngine ELSE f
<1>5. O \in SUBSET Changes
  BY DEF Engines, Reqs
<1> HIDE DEF O
<1>6. f \in Engines
  BY <1>5 DEF Engines
<1>7. f.base = h.base /\ f.lists = h.lists /\ f.val = h.val /\ f.over = O
  BY DEF Engines
<1>8. cache' = [cache EXCEPT ![CacheKey(p)] = [engine |-> g, revision |-> revision]]
  <2> DEFINE c == Entry(r).engine
  <2>1. c = h
    BY <1>1, <1>3, <1>4 DEF Entry
  <2>2. cache' = [cache EXCEPT ![CacheKey(req[r])] =
          [engine |-> IF c = NoEngine THEN c
                      ELSE [c EXCEPT !.over = c.over \cup req[r].over],
           revision |-> revision]]
    BY Zenon DEF Stamp
  <2> HIDE DEF c
  <2> QED BY <1>1, <2>1, <2>2, Zenon DEF O
<1>9. g \in Engines
  BY <1>6, NoEntryTyped
<1>10. revision \in 0 .. revision
  BY DEF Typed, RegistryInv, RegistryTypeOK
<1>11. [engine |-> g, revision |-> revision] \in CacheEntries
  BY <1>9, <1>10 DEF CacheEntries
<1>12. \/ e.engine = NoEngine /\ g = NoEngine
       \/ /\ e.engine # NoEngine
          /\ g.base = e.engine.base /\ g.lists = e.engine.lists
          /\ g.val = e.engine.val /\ g.over = e.engine.over \cup p.over
  BY <1>4, <1>7 DEF O
<1> HIDE DEF g
<1> QED BY <1>1, <1>2, <1>3, <1>8, <1>9, <1>11, <1>12

\* A look finds the entry e, or makes it if there is none.
Looked(r, ask, q, e) ==
  /\ To(r, q) /\ SameAsker(q, ask) /\ CacheKey(q) \in CacheKeys
  /\ e = IF CacheKey(q) \in DOMAIN cache THEN cache[CacheKey(q)] ELSE NoEntry
  /\ DOMAIN cache' = DOMAIN cache \cup {CacheKey(q)}
  /\ \A k \in DOMAIN cache' : cache'[k] = IF k = CacheKey(q) THEN e ELSE cache[k]
  /\ cache' \in [DOMAIN cache' -> CacheEntries]
  /\ q.cleared = FALSE /\ q.lists = {} /\ q.ms = {} /\ q.host \in Hosts
  /\ \/ MustBuild(e) /\ q.pc = "params" /\ q.over = Changing
     \/ ~MustBuild(e) /\ q.pc = "serve"
  /\ req[r].pc = "idle" /\ UNCHANGED <<registry, flags>>

LEMMA LookCache ==
  ASSUME Typed, NEW r \in Requests, NEW ask \in Asks, Look(r, ask)
  PROVE  \E q \in Reqs, e \in CacheEntries :
           Looked(r, ask, q, e)
<1>1. ask \in [plat : Platforms, host : Hosts, query : Queries]
  BY EngineAssumption DEF EngineAssumption
<1>2. Changing \subseteq Changes
  BY ChangingTyped DEF Typed
<1>0. PICK q \in Reqs : \E e : Found(r, ask, q, e)
  BY <1>1, <1>2, LookStep
<1>3. PICK e : Found(r, ask, q, e)
  BY <1>0
<1>4. cache \in [DOMAIN cache -> CacheEntries]
  BY DEF Typed, TypeOK, CacheEntries
<1>5. NoEntry \in CacheEntries
  <2>1. {0} \subseteq 0 .. revision
    BY DEF Typed, RegistryInv, RegistryTypeOK
  <2> QED BY <2>1, NoEntryTyped DEF CacheEntries
<1>6. e \in CacheEntries
  BY <1>3, <1>4, <1>5 DEF Found
<1>7. /\ DOMAIN cache' = DOMAIN cache \cup {CacheKey(q)}
      /\ \A k \in DOMAIN cache' : cache'[k] = IF k = CacheKey(q) THEN e ELSE cache[k]
      /\ cache' \in [DOMAIN cache' -> CacheEntries]
  BY <1>3, <1>4, <1>6 DEF Found
<1>8. CacheKey(ask) \in CacheKeys
  <2>1. ask.plat \in {"web", "nodejs"} /\ ask.host \in Hosts
    BY <1>1 DEF Platforms
  <2>2. ExternalUrl(ask).host \in Hosts
    BY <2>1, EngineAssumption DEF EngineAssumption, ExternalUrl
  <2> QED BY <2>1, <2>2 DEF CacheKey, CacheKeys, Platforms
<1>9. q.host \in Hosts
  BY <1>1, <1>3 DEF Found, SameAsker
<1> QED BY <1>3, <1>6, <1>7, <1>8, <1>9 DEF Found, Looked

LEMMA TypedNext == Typed /\ [Next]_vars => Typed'
<1> SUFFICES ASSUME Typed, [Next]_vars PROVE Typed'
  OBVIOUS
<1>1. /\ req \in [Requests -> Reqs] /\ flags \in BOOLEAN /\ RegistryInv
      /\ maps \subseteq Interfaces /\ revision \in Nat
      /\ cache \in [DOMAIN cache -> CacheEntries] /\ DOMAIN cache \subseteq CacheKeys
  BY DEF Typed, TypeOK, RegistryInv, RegistryTypeOK, CacheEntries, CacheKeys
<1>2. \A r \in Requests :
       /\ CacheKey(req[r]) \in DOMAIN cache
       /\ req[r].pc = "method" => req[r].i \in Interfaces
       /\ req[r].pc \notin {"idle", "failed"} => req[r].host \in Hosts
  BY DEF Typed
<1>3. CASE UNCHANGED vars
  <2>1. RegistryInv'
    BY <1>1, <1>3 DEF vars, registry, RegistryInv, RegistryTypeOK, AdminOK, Real
  <2> QED BY <1>3, <2>1 DEF vars, registry, engineVars, Typed, TypeOK, RegistryInv
<1>4. CASE ChangeRegistry
  <2>1. RegistryInv' /\ revision <= revision'
    BY <1>1, <1>4, RegistryNextInv, RevisionGrows DEF ChangeRegistry
  <2>2. Pending \cup Pending' \in SUBSET Changes
    BY <1>1, <2>1, PendingSites
  <2> QED BY <1>1, <1>4, <2>1, <2>2, WitnessTyped DEF ChangeRegistry
<1>5. CASE ClearCache
  <2>1. RegistryInv' /\ revision <= revision'
    BY <1>1, <1>5, BeginTypes
       DEF ClearCache, RegistryInv, RegistryTypeOK, AdminOK, Real
  <2> QED BY <1>1, <1>5, <2>1, WitnessTyped DEF ClearCache
<1>6. CASE FlagsClear
  <2>1. /\ admin' \in Admins /\ admin'.pc = "flags" /\ admin'.todo = admin.todo
        /\ admin'.names = admin.names
    BY <1>1, <1>6, AdminTo DEF FlagsClear, RegistryInv, RegistryTypeOK
  <2>2. AdminOK'
    BY <1>1, <1>6, <2>1, BeginTypes DEF FlagsClear, RegistryInv, AdminOK
  <2>3. RegistryInv' /\ revision <= revision'
    BY <1>1, <1>6, <2>1, <2>2, BeginTypes
       DEF FlagsClear, RegistryInv, RegistryTypeOK, Real
  <2>4. {FlagsChange} \in SUBSET Changes
    BY DEF Changes
  <2> QED BY <1>1, <1>6, <2>3, <2>4, WitnessTyped DEF FlagsClear
<1>7. CASE FlagsSet
  <2>1. AdminOK' /\ admin' \in Admins /\ admin'.pc = "idle"
    BY <1>7, IdleAdmin DEF FlagsSet, AdminOK
  <2>2. RegistryInv' /\ revision <= revision'
    BY <1>1, <1>7, <2>1 DEF FlagsSet, RegistryInv, RegistryTypeOK, Real
  <2>3. {FlagsChange} \in SUBSET Changes
    BY DEF Changes
  <2> QED BY <1>1, <1>7, <2>2, <2>3, WitnessTyped DEF FlagsSet
<1>8. ASSUME NEW r \in Requests, NEW ask \in Asks, Look(r, ask) PROVE Typed'
  <2>1. PICK q \in Reqs, e \in CacheEntries : Looked(r, ask, q, e)
    BY <1>8, LookCache
  <2> QED BY <1>1, <2>1, OneStepTyped DEF Looked
<1>9. ASSUME NEW r \in Requests, Params(r) PROVE Typed'
  <2>1. PICK q \in Reqs : To(r, q) /\ SameBuild(q, req[r]) /\ q.pc = "names"
    BY <1>1, <1>9, ParamsStep
  <2>2. UNCHANGED <<registry, cache, flags>> /\ req[r].pc = "params"
    BY <1>9 DEF Params
  <2> QED BY <2>1, <2>2, StaysTyped DEF SameBuild
<1>10. ASSUME NEW r \in Requests, ListInterfaces(r) PROVE Typed'
  <2>1. PICK q \in Reqs : To(r, q) /\ SameBuild(q, req[r]) /\ q.pc = "interface"
    BY <1>1, <1>10, InterfacesStep
  <2>2. UNCHANGED <<registry, cache, flags>> /\ req[r].pc = "names"
    BY <1>10 DEF ListInterfaces
  <2> QED BY <2>1, <2>2, StaysTyped DEF SameBuild
<1>11. ASSUME NEW r \in Requests, ListMethods(r) PROVE Typed'
  <2>1. PICK q \in Reqs, i \in Interfaces :
          To(r, q) /\ SameBuild(q, req[r]) /\ q.i = i
    BY <1>1, <1>11, MethodsStep
  <2>2. UNCHANGED <<registry, cache, flags>> /\ req[r].pc = "interface"
    BY <1>11 DEF ListMethods
  <2> QED BY <2>1, <2>2, StaysTyped DEF SameBuild
<1>12. ASSUME NEW r \in Requests, AddMethod(r) PROVE Typed'
  <2>1. /\ req[r].i \in Interfaces /\ UNCHANGED <<registry, cache, flags>>
        /\ req[r].pc = "method"
    BY <1>2, <1>12 DEF AddMethod
  <2>2. CASE To(r, [NoReq EXCEPT !.pc = "failed"])
    <3> DEFINE q == [NoReq EXCEPT !.pc = "failed"]
    <3>1. q \in Reqs /\ CacheKey(q) \in DOMAIN cache /\ q.pc = "failed"
      BY NoReqTyped DEF Typed
    <3>2. To(r, q)
      BY <2>2
    <3> HIDE DEF q
    <3> QED BY <2>1, <3>1, <3>2, OneStepRead
  <2>3. CASE ~To(r, [NoReq EXCEPT !.pc = "failed"])
    <3>1. PICK q \in Reqs : To(r, q) /\ SameBuild(q, req[r]) /\ q.i = req[r].i
      BY <1>1, <1>12, <2>1, <2>3, MethodStep
    <3> QED BY <2>1, <3>1, StaysTyped DEF SameBuild
  <2> QED BY <2>2, <2>3
<1>13. ASSUME NEW r \in Requests, SetEngine(r) PROVE Typed'
  <2>1. PICK q \in Reqs : To(r, q) /\ SameBuild(q, req[r]) /\ q.pc = "stamp"
    BY <1>1, <1>13, SetStep
  <2>2. /\ DOMAIN cache' = DOMAIN cache /\ UNCHANGED <<registry, flags>>
        /\ cache' \in [DOMAIN cache' -> CacheEntries] /\ req[r].pc = "interface"
    BY <1>13, SetEngineCache DEF SetEngine
  <2>3. CacheKey(q) \in DOMAIN cache /\ q.host \in Hosts
    BY <1>2, <2>1, <2>2, SameKey DEF SameBuild, SameAsker
  <2> QED BY <1>1, <2>1, <2>2, <2>3, OneStepTyped
<1>14. ASSUME NEW r \in Requests, Stamp(r) PROVE Typed'
  <2>1. PICK q \in Reqs : To(r, q) /\ SameAsker(q, req[r]) /\ q.pc = "serve"
    BY <1>1, <1>14, StampStep
  <2>2. /\ DOMAIN cache' = DOMAIN cache /\ UNCHANGED <<registry, flags>>
        /\ cache' \in [DOMAIN cache' -> CacheEntries] /\ req[r].pc = "stamp"
    BY <1>14, StampCache DEF Stamp
  <2>3. CacheKey(q) \in DOMAIN cache /\ q.host \in Hosts
    BY <1>2, <2>1, <2>2, SameKey DEF SameAsker
  <2> QED BY <1>1, <2>1, <2>2, <2>3, OneStepTyped
<1>15. ASSUME NEW r \in Requests, Serve(r) PROVE Typed'
  <2>1. PICK q \in Reqs : To(r, q) /\ SameAsker(q, req[r]) /\ q.pc = "done"
    BY <1>15, ServeStep
  <2>2. UNCHANGED <<registry, cache, flags>> /\ req[r].pc = "serve"
    BY <1>15 DEF Serve
  <2> QED BY <2>1, <2>2, StaysTyped
<1>16. ASSUME NEW r \in Requests, Leave(r) PROVE Typed'
  <2>1. NoReq \in Reqs /\ CacheKey(NoReq) \in DOMAIN cache /\ NoReq.pc = "idle"
    BY NoReqTyped DEF Typed
  <2>2. To(r, NoReq) /\ UNCHANGED <<registry, cache, flags>>
    BY <1>16 DEF Leave
  <2> QED BY <2>1, <2>2, OneStepRead
<1> QED BY <1>3, <1>4, <1>5, <1>6, <1>7, <1>8, <1>9, <1>10, <1>11, <1>12, <1>13,
          <1>14, <1>15, <1>16 DEF Next, Build

LEMMA TypedAlways == Spec => []Typed
  BY TypedInit, TypedNext, PTL DEF Spec

\* Every variable keeps its type; in particular an entry of the registry is
\* in a map that is there, since putting one into a nil map would panic, and
\* no entry of the cache is of a later revision than the container.
THEOREM TypeCorrect == Spec => []TypeOK
<1>1. Typed => TypeOK
  BY DEF Typed
<1> QED BY <1>1, TypedAlways, PTL

-----------------------------------------------------------------------------
(* The registry.                                                           *)

\* Only the administrator's calls change bindings and global injections.
LEMMA OnlyAdminChanges ==
  [Next]_vars => RegistryNext \/ UNCHANGED <<reg, globals>>
  BY DEF Next, Build, vars, registry, ChangeRegistry, ClearCache, FlagsClear,
         FlagsSet, Look, Params, ListInterfaces, ListMethods, AddMethod, SetEngine,
         Stamp, Serve, Leave

\* What the administrator's calls do to the entry x.
LEMMA EntrySteps ==
  ASSUME RegistryInv, RegistryNext, NEW x \in Sites
  PROVE  \/ reg'[x] = reg[x] /\ globals' = globals
         \/ reg'[x] = Absent /\ globals' = globals /\ admin.pc = "idle"
         \/ reg'[x] = Blank /\ reg[x].st = "absent" /\ globals' = globals
         \/ /\ Real(reg'[x]) /\ globals' = globals
            /\ reg'[x].st = "bound" => reg'[x].inj = globals
         \/ \E t \in Types : /\ reg'[x].st = reg[x].st
                             /\ reg'[x].inj = reg[x].inj \cup {t}
                             /\ globals' \in {globals, globals \cup {t}}
                             /\ admin.pc = "idle"
         \/ ~Real(reg[x]) /\ reg'[x] = reg[x]
<1>1. reg \in [Sites -> Entries] /\ admin.kind \in {"bound", "handler"}
  BY DEF RegistryInv, RegistryTypeOK, Admins
<1>2. ASSUME NEW kind, NEW i, NEW ms, NEW o, Expose(kind, i, ms, o)
      PROVE  reg' = reg /\ globals' = globals
  BY <1>2 DEF Expose
<1>3. CASE Bump
  BY <1>3 DEF Bump
<1>4. CASE NewBinding
  BY <1>1, <1>4 DEF NewBinding
<1>5. CASE PutBinding
  <2> DEFINE y == <<admin.i, admin.m>>
             e == [st |-> admin.kind, obj |-> admin.obj, inj |-> NewInjections]
  <2>1. reg' = [reg EXCEPT ![y] = e] /\ globals' = globals /\ admin.pc = "put"
    BY <1>5 DEF PutBinding
  <2>2. Real(e)
    BY <2>1, NewEntry
  <2>3. e.st = "bound" => e.inj = globals
    BY DEF NewInjections
  <2> HIDE DEF y, e
  <2> QED BY <1>1, <2>1, <2>2, <2>3
<1>6. ASSUME NEW y \in Sites, RemoveBinding(y)
      PROVE  /\ reg'[x] \in {reg[x], Absent} /\ globals' = globals
             /\ admin.pc = "idle"
  BY <1>1, <1>6 DEF RemoveBinding, Begin
<1>7. ASSUME NEW i, RemoveInterface(i)
      PROVE  /\ reg'[x] \in {reg[x], Absent} /\ globals' = globals
             /\ admin.pc = "idle"
  BY <1>7 DEF RemoveInterface, Begin
<1> DEFINE d(t) == [reg[x] EXCEPT !.inj = @ \cup {t}]
<1>8. \A t \in Types : d(t).st = reg[x].st /\ d(t).inj = reg[x].inj \cup {t}
  BY <1>1, MoreInjections
<1>9. ASSUME NEW y \in Sites, NEW t \in Types, AddInjection(y, t)
      PROVE  /\ reg'[x] \in {reg[x], d(t)} /\ globals' = globals
             /\ admin.pc = "idle"
  BY <1>1, <1>9 DEF AddInjection, Begin
<1>10. ASSUME NEW t \in Types, SetupGlobalInjection(t)
       PROVE  /\ reg'[x] = IF Real(reg[x]) THEN d(t) ELSE reg[x]
              /\ globals' = globals \cup {t} /\ admin.pc = "idle"
  BY <1>10 DEF SetupGlobalInjection, Begin
<1> HIDE DEF d
<1> QED BY <1>2, <1>3, <1>4, <1>5, <1>6, <1>7, <1>8, <1>9, <1>10 DEF RegistryNext

\* Whatever the order of exposing and of setting types up, a binding that
\* takes parameters has every global injection.
THEOREM GlobalsReachAll == Spec => []GlobalsEverywhere
<1>1. Init => GlobalsEverywhere
  BY EntryTypes DEF Init, RegistryInit, GlobalsEverywhere
<1>2. Typed /\ GlobalsEverywhere /\ [Next]_vars => GlobalsEverywhere'
  <2> SUFFICES ASSUME Typed, GlobalsEverywhere, [Next]_vars, NEW x \in Sites,
                      reg'[x].st = "bound"
               PROVE  globals' \subseteq reg'[x].inj
    BY DEF GlobalsEverywhere
  <2>1. CASE UNCHANGED <<reg, globals>>
    BY <2>1 DEF GlobalsEverywhere
  <2>2. CASE RegistryNext
    BY <2>2, EntrySteps, EntryTypes DEF Typed, GlobalsEverywhere, Real
  <2> QED BY <2>1, <2>2, OnlyAdminChanges
<1> QED BY <1>1, <1>2, TypedAlways, PTL DEF Spec

\* Exposing never takes a binding away, not even for the moment in which a
\* request that runs besides it may look the binding up.
THEOREM ReplacesSeamlessly == Spec => SeamlessReplace
<1> DEFINE A == admin.pc # "idle" => \A x \in Sites : Real(reg[x]) => Real(reg'[x])
<1>1. Typed /\ [Next]_vars => [A]_registry
  <2> SUFFICES ASSUME Typed, [Next]_vars, admin.pc # "idle",
                      NEW x \in Sites, Real(reg[x])
               PROVE  Real(reg'[x])
    OBVIOUS
  <2>1. CASE UNCHANGED <<reg, globals>>
    BY <2>1
  <2>2. CASE RegistryNext
    BY <2>2, EntrySteps DEF Typed, Real
  <2> QED BY <2>1, <2>2, OnlyAdminChanges
<1> QED BY <1>1, TypedAlways, PTL DEF Spec, SeamlessReplace

-----------------------------------------------------------------------------
(* Steps of the administrator and of a request, for what follows.          *)

AdminMoves == ChangeRegistry \/ ClearCache \/ FlagsClear \/ FlagsSet
Reads(r) == Params(r) \/ ListInterfaces(r) \/ ListMethods(r) \/ AddMethod(r) \/ Leave(r)

\* Where a request that builds reads what the engine is made of.
Reading == {"names", "interface", "method"}

LEMMA Moves ==
  [Next]_vars =>
    \/ UNCHANGED vars \/ AdminMoves
    \/ \E r \in Requests : \/ \E ask \in Asks : Look(r, ask)
                           \/ Reads(r) \/ SetEngine(r) \/ Stamp(r) \/ Serve(r)
  BY DEF Next, Build, AdminMoves, Reads

LEMMA OthersKeep ==
  ASSUME Typed, NEW r \in Requests, NEW q \in Reqs, To(r, q)
  PROVE  \A s \in Requests : req'[s] = IF s = r THEN q ELSE req[s]
  BY DEF Typed, TypeOK, To

\* Setting flags is announced to the requests before and after.
LEMMA AdminStep ==
  ASSUME Typed, AdminMoves
  PROVE  \E ch \in SUBSET Changes, cl \in BOOLEAN :
           /\ Witness(ch, cl) /\ cache' = IF cl THEN Cleared ELSE cache
           /\ admin.pc = "flags" \/ admin'.pc = "flags" => FlagsChange \in ch
           /\ admin.pc # "flags" /\ admin'.pc = "flags" => cl
           /\ admin.pc # "flags" => flags' = flags
<1>1. RegistryInv /\ admin \in Admins
  BY DEF Typed, RegistryInv, RegistryTypeOK
<1>2. CASE ChangeRegistry
  <2>1. RegistryInv'
    BY <1>1, <1>2, RegistryNextInv DEF ChangeRegistry
  <2>2. Pending \cup Pending' \in SUBSET Changes
    BY <1>1, <2>1, PendingSites
  <2>3. admin.pc # "flags" /\ admin'.pc # "flags"
    <3>1. CASE NewBinding
      <4>1. PICK m, T : admin' = [admin EXCEPT !.pc = "put", !.m = m, !.todo = T]
        BY <3>1 DEF NewBinding
      <4>2. admin'.pc = "put"
        BY <1>1, <4>1 DEF Admins
      <4> QED BY <3>1, <4>2 DEF NewBinding
    <3>2. CASE PutBinding
      <4>1. admin' = Idle \/ \E s \in {"new", "bump"} : admin' = [admin EXCEPT !.pc = s]
        BY <3>2 DEF PutBinding
      <4> QED BY <1>1, <3>2, <4>1, AdminTo, IdleAdmin DEF PutBinding
    <3>3. CASE Bump
      BY <3>3, IdleAdmin DEF Bump
    <3>4. ASSUME NEW kind, NEW i, NEW ms, NEW o, Expose(kind, i, ms, o)
          PROVE  <2>3
      BY <3>4 DEF Expose, Begin
    <3>5. ASSUME NEW x, RemoveBinding(x) \/ RemoveInterface(x)
                          \/ SetupGlobalInjection(x) \/ \E t \in Types : AddInjection(x, t)
          PROVE  <2>3
      BY <3>5 DEF RemoveBinding, RemoveInterface, AddInjection, SetupGlobalInjection,
                  Begin
    <3> QED BY <1>2, <3>1, <3>2, <3>3, <3>4, <3>5 DEF ChangeRegistry, RegistryNext
  <2>4. Witness(Pending \cup Pending', FALSE) /\ cache' = cache /\ flags' = flags
    BY <1>2 DEF ChangeRegistry
  <2> QED BY <2>2, <2>3, <2>4
<1>3. CASE ClearCache
  <2>1. /\ Witness({}, TRUE) /\ cache' = Cleared /\ flags' = flags
        /\ admin.pc # "flags" /\ admin'.pc # "flags"
    BY <1>3 DEF ClearCache, Begin
  <2> QED BY <2>1
<1>4. CASE FlagsClear
  <2>1. {FlagsChange} \in SUBSET Changes
    BY DEF Changes
  <2>2. Witness({FlagsChange}, TRUE) /\ cache' = Cleared /\ flags' = flags
    BY <1>4 DEF FlagsClear
  <2> QED BY <2>1, <2>2
<1>5. CASE FlagsSet
  <2>1. {FlagsChange} \in SUBSET Changes
    BY DEF Changes
  <2>2. /\ Witness({FlagsChange}, FALSE) /\ cache' = cache /\ admin.pc = "flags"
    BY <1>5 DEF FlagsSet
  <2> QED BY <2>1, <2>2
<1> QED BY <1>2, <1>3, <1>4, <1>5 DEF AdminMoves

LEMMA ReadStep ==
  ASSUME Typed, NEW r \in Requests, Reads(r)
  PROVE  /\ UNCHANGED <<registry, cache, flags>>
         /\ \E q \in Reqs :
              /\ To(r, q)
              /\ \/ q.pc \in {"idle", "failed"}
                 \/ /\ q.pc \in Reading /\ SameBuild(q, req[r])
                    /\ \/ req[r].pc = "params" /\ q.val = flags
                       \/ req[r].pc \in Reading /\ q.val = req[r].val
<1>1. /\ req \in [Requests -> Reqs] /\ flags \in BOOLEAN /\ RegistryInv
      /\ maps \subseteq Interfaces
  BY DEF Typed, TypeOK, RegistryInv, RegistryTypeOK
<1>2. \A ms : After(ms) \in Reading
  BY DEF After, Reading
<1>3. UNCHANGED <<registry, cache, flags>>
  BY DEF Reads, Params, ListInterfaces, ListMethods, AddMethod, Leave
<1>4. CASE Params(r)
  <2>1. req[r].pc = "params"
    BY <1>4 DEF Params
  <2> QED BY <1>1, <1>3, <1>4, <2>1, ParamsStep DEF Reading
<1>5. CASE ListInterfaces(r)
  <2>1. req[r].pc = "names"
    BY <1>5 DEF ListInterfaces
  <2> QED BY <1>1, <1>3, <1>5, <2>1, InterfacesStep DEF Reading
<1>6. CASE ListMethods(r)
  <2>1. req[r].pc = "interface"
    BY <1>6 DEF ListMethods
  <2> QED BY <1>1, <1>2, <1>3, <1>6, <2>1, MethodsStep DEF Reading
<1>7. CASE AddMethod(r)
  <2>1. req[r].pc = "method" /\ req[r].i \in Interfaces
    BY <1>7 DEF AddMethod, Typed
  <2>2. CASE To(r, [NoReq EXCEPT !.pc = "failed"])
    BY <1>3, <2>2, NoReqTyped
  <2>3. CASE ~To(r, [NoReq EXCEPT !.pc = "failed"])
    BY <1>1, <1>2, <1>3, <1>7, <2>1, <2>3, MethodStep DEF Reading
  <2> QED BY <2>2, <2>3
<1>8. CASE Leave(r)
  <2>1. To(r, NoReq)
    BY <1>8 DEF Leave
  <2> QED BY <1>3, <2>1, NoReqTyped
<1> QED BY <1>4, <1>5, <1>6, <1>7, <1>8 DEF Reads

-----------------------------------------------------------------------------
(* What a client gets.                                                     *)

\* A base URL that calls the host the request q asked.
Calls(b, q) == b \notin {NoEngine.base, << >>} => b[1] = ExternalUrl(q).host

\* An engine calls the host of every request that its key stands for.
HostsInv ==
  /\ \A k \in DOMAIN cache, q \in Reqs :
       CacheKey(q) = k => Calls(cache[k].engine.base, q)
  /\ \A r \in Requests : req[r].pc = "done" => Calls(req[r].out, req[r])

LEMMA SameCalls ==
  ASSUME NEW p, NEW q, SameAsker(p, q), NEW b
  PROVE  Calls(b, p) <=> Calls(b, q)
  BY SameKey DEF Calls

LEMMA KeyHost ==
  ASSUME NEW p \in Reqs, NEW q \in Reqs, CacheKey(p) = CacheKey(q), p.host \in Hosts
  PROVE  Calls(BaseUrl(p), q)
<1>1. CASE BaseUrl(p) = << >>
  BY <1>1 DEF Calls
<1>2. CASE BaseUrl(p) # << >>
  <2>1. BaseUrl(p)[1] = ExternalUrl(p).host
    BY <1>2, BaseTyped
  <2>2. ExternalUrl(p).host = ExternalUrl(q).host
    <3>1. CASE ExtUrl # None
      BY <3>1 DEF ExternalUrl
    <3>2. CASE ExtUrl = None
      <4>1. p.plat # "web"
        BY <1>2, <3>2 DEF BaseUrl
      <4> QED BY <4>1 DEF CacheKey
    <3> QED BY <3>1, <3>2
  <2> QED BY <2>1, <2>2 DEF Calls
<1> QED BY <1>1, <1>2

LEMMA HostsStep == Typed /\ HostsInv /\ [Next]_vars => HostsInv'
<1> SUFFICES ASSUME Typed, HostsInv, [Next]_vars PROVE HostsInv'
  OBVIOUS
<1>1. \A k, q, b : Calls(NoEntry.engine.base, q)
  BY NoEntryTyped DEF Calls
<1>2. CASE UNCHANGED vars
  BY <1>2 DEF HostsInv, vars, engineVars, Calls
<1>3. CASE AdminMoves
  <2>1. PICK ch \in SUBSET Changes, cl \in BOOLEAN :
          Witness(ch, cl) /\ cache' = IF cl THEN Cleared ELSE cache
    BY <1>3, AdminStep
  <2>2. \A s \in Requests : /\ SameAsker(req'[s], req[s])
                            /\ req'[s].pc = req[s].pc /\ req'[s].out = req[s].out
    BY <2>1, WitnessStep DEF Typed, TypeOK
  <2>3. DOMAIN cache' = DOMAIN cache
        /\ \A k \in DOMAIN cache : cache'[k] \in {cache[k], NoEntry}
    BY <2>1 DEF Cleared
  <2>4. \A k \in DOMAIN cache', q \in Reqs :
          CacheKey(q) = k => Calls(cache'[k].engine.base, q)
    BY <1>1, <2>3 DEF HostsInv
  <2>5. \A s \in Requests : req'[s].pc = "done" => Calls(req'[s].out, req'[s])
    BY <2>2, SameCalls DEF HostsInv
  <2> QED BY <2>4, <2>5 DEF HostsInv, Calls
<1>4. ASSUME NEW r \in Requests, NEW q \in Reqs, To(r, q),
             q.pc = "done" => Calls(q.out, q),
             \A k \in DOMAIN cache', p \in Reqs :
               CacheKey(p) = k => Calls(cache'[k].engine.base, p)
      PROVE  HostsInv'
  BY <1>4, OthersKeep DEF HostsInv, Calls
<1>5. ASSUME NEW r \in Requests, NEW ask \in Asks, Look(r, ask) PROVE HostsInv'
  <2>1. PICK q \in Reqs, e \in CacheEntries : Looked(r, ask, q, e)
    BY <1>5, LookCache
  <2>2. \A k \in DOMAIN cache' : \/ k \in DOMAIN cache /\ cache'[k] = cache[k]
                                 \/ cache'[k] = NoEntry
    BY <2>1 DEF Looked
  <2> QED BY <1>1, <1>4, <2>1, <2>2 DEF HostsInv, Looked
<1>6. ASSUME NEW r \in Requests, Reads(r) PROVE HostsInv'
  <2>1. cache' = cache /\ \E q \in Reqs : To(r, q) /\ q.pc # "done"
    BY <1>6, ReadStep DEF Reading
  <2> QED BY <1>4, <2>1 DEF HostsInv
<1>7. ASSUME NEW r \in Requests, SetEngine(r) PROVE HostsInv'
  <2>1. req[r] \in Reqs /\ req[r].host \in Hosts
    BY <1>7 DEF SetEngine, Typed, TypeOK
  <2>5. PICK g \in Engines :
           /\ g.base = BaseUrl(req[r])
           /\ DOMAIN cache' = DOMAIN cache
           /\ \A k \in DOMAIN cache :
                cache'[k] = IF k = CacheKey(req[r])
                            THEN [engine |-> g, revision |-> cache[k].revision]
                            ELSE cache[k]
    BY <1>7, SetEngineCache, Zenon
  <2>2. /\ DOMAIN cache' = DOMAIN cache
        /\ \A k \in DOMAIN cache :
             \/ cache'[k] = cache[k]
             \/ k = CacheKey(req[r]) /\ cache'[k].engine.base = BaseUrl(req[r])
    BY <2>5
  <2>3. \E q \in Reqs : To(r, q) /\ q.pc # "done"
    BY <1>7, SetStep DEF Typed, TypeOK
  <2>4. \A k \in DOMAIN cache', p \in Reqs :
               CacheKey(p) = k => Calls(cache'[k].engine.base, p)
    BY <2>1, <2>2, KeyHost DEF HostsInv
  <2> QED BY <1>4, <2>3, <2>4
<1>8. ASSUME NEW r \in Requests, Stamp(r) PROVE HostsInv'
  <2>3. PICK g \in Engines, e \in CacheEntries :
           /\ e = cache[CacheKey(req[r])]
           /\ \/ e.engine = NoEngine /\ g = NoEngine
              \/ e.engine # NoEngine /\ g.base = e.engine.base
           /\ DOMAIN cache' = DOMAIN cache
           /\ \A k \in DOMAIN cache :
                cache'[k] = IF k = CacheKey(req[r])
                            THEN [engine |-> g, revision |-> revision]
                            ELSE cache[k]
    BY <1>8, StampCache, Zenon
  <2>1. /\ DOMAIN cache' = DOMAIN cache
        /\ \A k \in DOMAIN cache : cache'[k].engine.base = cache[k].engine.base
    BY <2>3
  <2>2. \E q \in Reqs : To(r, q) /\ q.pc # "done"
    BY <1>8, StampStep DEF Typed, TypeOK
  <2> QED BY <1>4, <2>1, <2>2 DEF HostsInv
<1>9. ASSUME NEW r \in Requests, Serve(r) PROVE HostsInv'
  <2>1. PICK q \in Reqs : /\ To(r, q) /\ SameAsker(q, req[r])
                          /\ q.out = cache[CacheKey(req[r])].engine.base
    BY <1>9, ServeStep
  <2>2. cache' = cache /\ req[r] \in Reqs /\ CacheKey(req[r]) \in DOMAIN cache
    BY <1>9 DEF Serve, Typed, TypeOK
  <2>3. Calls(q.out, q)
    BY <2>1, <2>2, SameCalls DEF HostsInv
  <2> QED BY <1>4, <2>1, <2>2, <2>3 DEF HostsInv
<1> QED BY <1>2, <1>3, <1>5, <1>6, <1>7, <1>8, <1>9, Moves

\* The engine a client gets calls the host that the client asked, although
\* clients share the cached engine: its key tells apart what its URL does.
THEOREM EngineOfOwnHost == Spec => []OwnHost
<1>1. Init => HostsInv
  <2> SUFFICES ASSUME Init PROVE HostsInv
    OBVIOUS
  <2>1. \A k \in DOMAIN cache : cache[k] = NoEntry
    BY DEF Init, EngineInit
  <2>2. \A r \in Requests : req[r].pc = "idle"
    BY NoReqTyped DEF Init, EngineInit
  <2> QED BY <2>1, <2>2, NoEntryTyped DEF HostsInv, Calls
<1>2. HostsInv => OwnHost
  BY DEF HostsInv, OwnHost, Calls
<1> QED BY <1>1, <1>2, HostsStep, TypedAlways, PTL DEF Spec

-----------------------------------------------------------------------------
\* The cache after a SetEngine and after a Stamp of the request r, whose
\* engine becomes g.
Placed(r, g) ==
  /\ g.base = BaseUrl(req[r]) /\ g.lists = req[r].lists
  /\ g.val = req[r].val /\ g.over = req[r].over
  /\ DOMAIN cache' = DOMAIN cache
  /\ \A k \in DOMAIN cache :
       cache'[k] = IF k = CacheKey(req[r])
                   THEN [engine |-> g, revision |-> cache[k].revision]
                   ELSE cache[k]

Stamped(r, g, e) ==
  /\ e = cache[CacheKey(req[r])]
  /\ \/ e.engine = NoEngine /\ g = NoEngine
     \/ /\ e.engine # NoEngine
        /\ g.base = e.engine.base /\ g.lists = e.engine.lists
        /\ g.val = e.engine.val /\ g.over = e.engine.over \cup req[r].over
  /\ DOMAIN cache' = DOMAIN cache
  /\ \A k \in DOMAIN cache :
       cache'[k] = IF k = CacheKey(req[r])
                   THEN [engine |-> g, revision |-> revision]
                   ELSE cache[k]

LEMMA Places ==
  ASSUME Typed, NEW r \in Requests, SetEngine(r)
  PROVE  \E g \in Engines : Placed(r, g)
  BY SetEngineCache, Zenon DEF Placed

LEMMA Stamps ==
  ASSUME Typed, NEW r \in Requests, Stamp(r)
  PROVE  \E g \in Engines, e \in CacheEntries : Stamped(r, g, e)
  BY StampCache, Zenon DEF Stamped

\* An engine has a base URL, which an empty one has not.
LEMMA EngineHasBase ==
  ASSUME NEW p \in Reqs, p.host \in Hosts
  PROVE  BaseUrl(p) # NoEngine.base
  BY BaseTyped DEF NoEngine

\* From the end of its build to its answer a request has an engine, unless
\* the cache was cleared.
FilledInv ==
  /\ \A k \in DOMAIN cache :
       cache[k].engine # NoEngine => cache[k].engine.base # NoEngine.base
  /\ \A r \in Requests :
       /\ req[r].pc \in {"stamp", "serve"} /\ ~req[r].cleared =>
            cache[CacheKey(req[r])].engine # NoEngine
       /\ req[r].pc = "done" /\ req[r].out = NoEngine.base => req[r].cleared

LEMMA FilledStep == Typed /\ FilledInv /\ [Next]_vars => FilledInv'
<1> SUFFICES ASSUME Typed, FilledInv, [Next]_vars PROVE FilledInv'
  OBVIOUS
<1>1. \A s \in Requests : CacheKey(req[s]) \in DOMAIN cache /\ req[s] \in Reqs
  BY DEF Typed, TypeOK
<1>2. CASE UNCHANGED vars
  BY <1>2 DEF FilledInv, vars, engineVars
<1>3. CASE AdminMoves
  <2>1. PICK ch \in SUBSET Changes, cl \in BOOLEAN :
          Witness(ch, cl) /\ cache' = IF cl THEN Cleared ELSE cache
    BY <1>3, AdminStep
  <2>2. \A s \in Requests :
          /\ SameAsker(req'[s], req[s])
          /\ req'[s].pc = req[s].pc /\ req'[s].out = req[s].out
          /\ req'[s].cleared = IF Building(s) \/ req[s].pc = "serve"
                               THEN (req[s].cleared \/ cl) ELSE req[s].cleared
    BY <2>1, WitnessStep DEF Typed, TypeOK
  <2>3. \A s \in Requests : CacheKey(req'[s]) = CacheKey(req[s])
    BY <2>2, SameKey
  <2>4. CASE ~cl
    BY <1>1, <2>1, <2>2, <2>3, <2>4 DEF FilledInv
  <2>5. CASE cl
    <3>1. \A k \in DOMAIN cache' : cache'[k].engine = NoEngine
      BY <2>1, <2>5, NoEntryTyped DEF Cleared
    <3>2. \A s \in Requests : req'[s].pc \in {"stamp", "serve"} => req'[s].cleared
      BY <2>2, <2>5 DEF Building
    <3> QED BY <2>2, <3>1, <3>2 DEF FilledInv, Building
  <2> QED BY <2>4, <2>5
<1>4. ASSUME NEW r \in Requests, NEW q \in Reqs, To(r, q),
             DOMAIN cache \subseteq DOMAIN cache',
             \A k \in DOMAIN cache' :
               cache'[k].engine # NoEngine => cache'[k].engine.base # NoEngine.base,
             \A k \in DOMAIN cache :
               cache[k].engine # NoEngine => cache'[k].engine # NoEngine,
             q.pc \in {"stamp", "serve"} /\ ~q.cleared =>
               cache'[CacheKey(q)].engine # NoEngine,
             q.pc = "done" /\ q.out = NoEngine.base => q.cleared
      PROVE  FilledInv'
  <2>1. \A s \in Requests : req'[s] = IF s = r THEN q ELSE req[s]
    BY <1>4, OthersKeep
  <2>2. \A s \in Requests :
       /\ req'[s].pc \in {"stamp", "serve"} /\ ~req'[s].cleared =>
            cache'[CacheKey(req'[s])].engine # NoEngine
       /\ req'[s].pc = "done" /\ req'[s].out = NoEngine.base => req'[s].cleared
    <3> TAKE s \in Requests
    <3>1. CASE s = r
      BY <1>4, <2>1, <3>1
    <3>2. CASE s # r
      <4>1. req'[s] = req[s] /\ CacheKey(req[s]) \in DOMAIN cache
        BY <1>1, <2>1, <3>2
      <4> QED BY <1>4, <4>1 DEF FilledInv
    <3> QED BY <3>1, <3>2
  <2> QED BY <1>4, <2>2 DEF FilledInv
<1>5. ASSUME NEW r \in Requests, NEW ask \in Asks, Look(r, ask) PROVE FilledInv'
  <2>1. PICK q \in Reqs, e \in CacheEntries : Looked(r, ask, q, e)
    BY <1>5, LookCache
  <2>2. \A k \in DOMAIN cache' : \/ k \in DOMAIN cache /\ cache'[k] = cache[k]
                                 \/ cache'[k] = NoEntry
    BY <2>1 DEF Looked
  <2>3. \A k \in DOMAIN cache : cache'[k] = cache[k] /\ k \in DOMAIN cache'
    BY <2>1 DEF Looked
  <2>4. cache'[CacheKey(q)] = e /\ (q.pc = "serve" => e.engine # NoEngine)
        /\ q.pc \in {"params", "serve"} /\ To(r, q)
    BY <2>1 DEF Looked, MustBuild
  <2> QED BY <1>4, <2>2, <2>3, <2>4, NoEntryTyped DEF FilledInv
<1>6. ASSUME NEW r \in Requests, Reads(r) PROVE FilledInv'
  <2>1. cache' = cache
    BY <1>6, ReadStep
  <2>2. PICK q \in Reqs : To(r, q) /\ q.pc \notin {"done", "stamp", "serve"}
    BY <1>6, ReadStep DEF Reading
  <2> QED BY <1>4, <2>1, <2>2 DEF FilledInv
<1>7. ASSUME NEW r \in Requests, SetEngine(r) PROVE FilledInv'
  <2>1. PICK g \in Engines : Placed(r, g)
    BY <1>7, Places
  <2>2. PICK q \in Reqs : To(r, q) /\ q.pc = "stamp" /\ SameBuild(q, req[r])
    BY <1>7, SetStep DEF Typed, TypeOK
  <2>3. req[r] \in Reqs /\ req[r].host \in Hosts
    BY <1>7 DEF SetEngine, Typed, TypeOK
  <2>4. g.base # NoEngine.base /\ g # NoEngine
    BY <2>1, <2>3, EngineHasBase DEF Placed
  <2>5. CacheKey(q) = CacheKey(req[r])
    BY <2>2, SameKey DEF SameBuild
  <2>6. /\ DOMAIN cache' = DOMAIN cache /\ cache'[CacheKey(q)].engine = g
        /\ \A k \in DOMAIN cache : cache'[k].engine \in {g, cache[k].engine}
    BY <1>1, <2>1, <2>5 DEF Placed
  <2> HIDE DEF FilledInv
  <2>7. \A k \in DOMAIN cache' :
          cache'[k].engine # NoEngine => cache'[k].engine.base # NoEngine.base
    BY <2>4, <2>6 DEF FilledInv
  <2> QED BY <1>4, <2>2, <2>4, <2>6, <2>7
<1>8. ASSUME NEW r \in Requests, Stamp(r) PROVE FilledInv'
  <2>1. PICK g \in Engines, e \in CacheEntries : Stamped(r, g, e)
    BY <1>8, Stamps
  <2>2. PICK q \in Reqs : /\ To(r, q) /\ q.pc = "serve" /\ SameAsker(q, req[r])
                          /\ q.cleared = req[r].cleared
    BY <1>8, StampStep DEF Typed, TypeOK
  <2>3. CacheKey(q) = CacheKey(req[r])
    BY <2>2, SameKey
  <2>4. e.engine # NoEngine => g.base # NoEngine.base /\ g # NoEngine
    BY <1>1, <2>1 DEF Stamped, FilledInv
  <2>5. /\ DOMAIN cache' = DOMAIN cache
        /\ \A k \in DOMAIN cache : \/ cache'[k].engine = cache[k].engine
                                   \/ /\ k = CacheKey(req[r])
                                      /\ cache[k].engine = e.engine
                                      /\ cache'[k].engine = g
    BY <2>1 DEF Stamped
  <2>6. e.engine = NoEngine => g = NoEngine
    BY <2>1 DEF Stamped
  <2>7. \A k \in DOMAIN cache' :
          cache'[k].engine # NoEngine => cache'[k].engine.base # NoEngine.base
    BY <2>4, <2>5, <2>6 DEF FilledInv
  <2>8. \A k \in DOMAIN cache :
          cache[k].engine # NoEngine => cache'[k].engine # NoEngine
    BY <2>4, <2>5
  <2>9. req[r].pc = "stamp" /\ CacheKey(req[r]) \in DOMAIN cache
    BY <1>1, <1>8 DEF Stamp
  <2>10. ~q.cleared => cache'[CacheKey(q)].engine # NoEngine
    BY <2>2, <2>3, <2>8, <2>9 DEF FilledInv
  <2> QED BY <1>4, <2>2, <2>5, <2>7, <2>8, <2>10
<1>9. ASSUME NEW r \in Requests, Serve(r) PROVE FilledInv'
  <2>1. PICK q \in Reqs : /\ To(r, q) /\ q.pc = "done" /\ q.cleared = req[r].cleared
                          /\ q.out = cache[CacheKey(req[r])].engine.base
    BY <1>9, ServeStep
  <2>2. cache' = cache /\ req[r].pc = "serve" /\ CacheKey(req[r]) \in DOMAIN cache
    BY <1>1, <1>9 DEF Serve
  <2>3. q.out = NoEngine.base => q.cleared
    BY <2>1, <2>2 DEF FilledInv
  <2> QED BY <1>4, <2>1, <2>2, <2>3 DEF FilledInv
<1> QED BY <1>2, <1>3, <1>5, <1>6, <1>7, <1>8, <1>9, Moves

\* A client whose request no ClearCache overlaps gets an engine: no other
\* client's build takes away what its own has put into the cache.
THEOREM EngineForAll == Spec => []NeverEmpty
<1>1. Init => FilledInv
  <2> SUFFICES ASSUME Init PROVE FilledInv
    OBVIOUS
  <2>1. \A k \in DOMAIN cache : cache[k] = NoEntry
    BY DEF Init, EngineInit
  <2>2. \A r \in Requests : req[r].pc = "idle"
    BY NoReqTyped DEF Init, EngineInit
  <2> QED BY <2>1, <2>2, NoEntryTyped DEF FilledInv
<1>2. FilledInv => NeverEmpty
  BY DEF FilledInv, NeverEmpty
<1> QED BY <1>1, <1>2, FilledStep, TypedAlways, PTL DEF Spec

-----------------------------------------------------------------------------
(* The flags.                                                              *)

\* What was read as v has the flags f, or knows that they were changed.
Fresh(over, v, pc, f) == FlagsChange \in over \/ (pc # "flags" /\ v = f)

\* All engines, cached or being built, do; also while flags are being set.
FlagsInv ==
  /\ \A k \in DOMAIN cache :
       \/ cache[k].engine = NoEngine
       \/ Fresh(cache[k].engine.over, cache[k].engine.val, admin.pc, flags)
  /\ \A r \in Requests :
       /\ req[r].pc = "params" => Fresh(req[r].over, flags, admin.pc, flags)
       /\ req[r].pc \in Reading => Fresh(req[r].over, req[r].val, admin.pc, flags)

LEMMA FreshLasts ==
  ASSUME NEW o, NEW p, o \subseteq p, NEW v, NEW a, NEW b, NEW f, NEW g,
         a = "flags" \/ b = "flags" => FlagsChange \in p, a # "flags" => g = f
  PROVE  /\ Fresh(o, v, a, f) => Fresh(p, v, b, g)
         /\ Fresh(o, f, a, f) => Fresh(p, g, b, g)
  BY DEF Fresh

LEMMA FlagsStep == Typed /\ FlagsInv /\ [Next]_vars => FlagsInv'
<1> SUFFICES ASSUME Typed, FlagsInv, [Next]_vars PROVE FlagsInv'
  OBVIOUS
<1>1. \A s \in Requests : CacheKey(req[s]) \in DOMAIN cache /\ req[s] \in Reqs
  BY DEF Typed, TypeOK
<1>2. CASE UNCHANGED vars
  BY <1>2 DEF FlagsInv, Fresh, vars, registry, engineVars
<1>3. CASE AdminMoves
  <2>1. PICK ch \in SUBSET Changes, cl \in BOOLEAN :
           /\ Witness(ch, cl) /\ cache' = IF cl THEN Cleared ELSE cache
           /\ admin.pc = "flags" \/ admin'.pc = "flags" => FlagsChange \in ch
           /\ admin.pc # "flags" /\ admin'.pc = "flags" => cl
           /\ admin.pc # "flags" => flags' = flags
    BY <1>3, AdminStep
  <2>2. ASSUME NEW s \in Requests
        PROVE  /\ req'[s].pc = req[s].pc /\ req'[s].val = req[s].val
               /\ req'[s].over = IF Building(s) THEN req[s].over \cup ch
                                 ELSE req[s].over
    <3>1. req \in [Requests -> Reqs]
      BY DEF Typed, TypeOK
    <3> QED BY <2>1, <3>1, WitnessStep
  <2>3. \A k \in DOMAIN cache' :
          \/ cache'[k].engine = NoEngine
          \/ Fresh(cache'[k].engine.over, cache'[k].engine.val, admin'.pc, flags')
    <3>1. CASE cl
      BY <2>1, <3>1, NoEntryTyped DEF Cleared
    <3>2. CASE ~cl
      BY <2>1, <3>2 DEF FlagsInv, Fresh
    <3> QED BY <3>1, <3>2
  <2>4. ASSUME NEW s \in Requests
        PROVE  /\ req'[s].pc = "params" => Fresh(req'[s].over, flags', admin'.pc, flags')
               /\ req'[s].pc \in Reading =>
                    Fresh(req'[s].over, req'[s].val, admin'.pc, flags')
    <3>1. CASE req[s].pc \in Reading \cup {"params"}
      <4>1. req'[s].over = req[s].over \cup ch
        BY <2>2, <3>1 DEF Building, Reading
      <4> DEFINE p == req[s].over \cup ch
      <4>2. /\ Fresh(req[s].over, req[s].val, admin.pc, flags) =>
                 Fresh(p, req[s].val, admin'.pc, flags')
            /\ Fresh(req[s].over, flags, admin.pc, flags) =>
                 Fresh(p, flags', admin'.pc, flags')
        <5>1. req[s].over \subseteq p /\ (FlagsChange \in ch => FlagsChange \in p)
          OBVIOUS
        <5> HIDE DEF p
        <5> QED BY <2>1, <5>1, FreshLasts
      <4>3. /\ req[s].pc = "params" => Fresh(req[s].over, flags, admin.pc, flags)
            /\ req[s].pc \in Reading => Fresh(req[s].over, req[s].val, admin.pc, flags)
        BY DEF FlagsInv
      <4> QED BY <2>2, <4>1, <4>2, <4>3
    <3>2. CASE req[s].pc \notin Reading \cup {"params"}
      BY <2>2, <3>2
    <3> QED BY <3>1, <3>2
  <2> QED BY <2>3, <2>4 DEF FlagsInv, Fresh
<1>4. ASSUME NEW r \in Requests, NEW q \in Reqs, To(r, q),
             UNCHANGED <<registry, flags>>,
             \A k \in DOMAIN cache' :
               \/ k \in DOMAIN cache /\ cache'[k].engine = cache[k].engine
               \/ cache'[k].engine = NoEngine
               \/ Fresh(cache'[k].engine.over, cache'[k].engine.val, admin.pc, flags),
             q.pc = "params" => Fresh(q.over, flags, admin.pc, flags),
             q.pc \in Reading => Fresh(q.over, q.val, admin.pc, flags)
      PROVE  FlagsInv'
  <2>1. \A s \in Requests : req'[s] = IF s = r THEN q ELSE req[s]
    BY <1>4, OthersKeep
  <2>2. admin' = admin /\ flags' = flags
    BY <1>4 DEF registry
  <2>3. \A k \in DOMAIN cache' :
          \/ cache'[k].engine = NoEngine
          \/ Fresh(cache'[k].engine.over, cache'[k].engine.val, admin'.pc, flags')
    BY <1>4, <2>2 DEF FlagsInv
  <2>4. \A s \in Requests :
          /\ req'[s].pc = "params" => Fresh(req'[s].over, flags', admin'.pc, flags')
          /\ req'[s].pc \in Reading =>
               Fresh(req'[s].over, req'[s].val, admin'.pc, flags')
    BY <1>4, <2>1, <2>2 DEF FlagsInv
  <2> QED BY <2>3, <2>4 DEF FlagsInv, Fresh
<1>5. ASSUME NEW r \in Requests, NEW ask \in Asks, Look(r, ask) PROVE FlagsInv'
  <2>1. PICK q \in Reqs, e \in CacheEntries : Looked(r, ask, q, e)
    BY <1>5, LookCache
  <2>2. \A k \in DOMAIN cache' : \/ k \in DOMAIN cache /\ cache'[k] = cache[k]
                                 \/ cache'[k] = NoEntry
    BY <2>1 DEF Looked
  <2>3. /\ To(r, q) /\ UNCHANGED <<registry, flags>> /\ q.pc \notin Reading
        /\ q.pc = "params" => Fresh(q.over, flags, admin.pc, flags)
    BY <2>1 DEF Looked, Reading, Changing, Fresh
  <2> QED BY <1>4, <2>2, <2>3, NoEntryTyped
<1>6. ASSUME NEW r \in Requests, Reads(r) PROVE FlagsInv'
  <2>1. UNCHANGED <<registry, cache, flags>>
    BY <1>6, ReadStep
  <2>2. PICK q \in Reqs :
              /\ To(r, q)
              /\ \/ q.pc \in {"idle", "failed"}
                 \/ /\ q.pc \in Reading /\ SameBuild(q, req[r])
                    /\ \/ req[r].pc = "params" /\ q.val = flags
                       \/ req[r].pc \in Reading /\ q.val = req[r].val
    BY <1>6, ReadStep
  <2>3. q.pc # "params"
    BY <2>2 DEF Reading
  <2>4. q.pc \in Reading => Fresh(q.over, q.val, admin.pc, flags)
    BY <2>2 DEF FlagsInv, SameBuild, Reading
  <2> QED BY <1>4, <2>1, <2>2, <2>3, <2>4
<1>7. ASSUME NEW r \in Requests, SetEngine(r) PROVE FlagsInv'
  <2>1. PICK g \in Engines : Placed(r, g)
    BY <1>7, Places
  <2>2. PICK q \in Reqs : To(r, q) /\ q.pc = "stamp"
    BY <1>7, SetStep DEF Typed, TypeOK
  <2>3. UNCHANGED <<registry, flags>> /\ req[r].pc \in Reading
    BY <1>7 DEF SetEngine, Reading
  <2>4. Fresh(g.over, g.val, admin.pc, flags)
    <3>1. g.over = req[r].over /\ g.val = req[r].val
      BY <2>1, Zenon DEF Placed
    <3>2. Fresh(req[r].over, req[r].val, admin.pc, flags)
      BY <2>3 DEF FlagsInv
    <3> QED BY <3>1, <3>2
  <2>5. /\ DOMAIN cache' = DOMAIN cache
        /\ \A k \in DOMAIN cache : cache'[k].engine \in {g, cache[k].engine}
    BY <2>1 DEF Placed
  <2> QED BY <1>4, <2>2, <2>3, <2>4, <2>5 DEF Reading
<1>8. ASSUME NEW r \in Requests, Stamp(r) PROVE FlagsInv'
  <2>1. PICK g \in Engines, e \in CacheEntries : Stamped(r, g, e)
    BY <1>8, Stamps
  <2>2. PICK q \in Reqs : To(r, q) /\ q.pc = "serve"
    BY <1>8, StampStep DEF Typed, TypeOK
  <2>3. UNCHANGED <<registry, flags>>
    BY <1>8 DEF Stamp
  <2>4. g = NoEngine \/ Fresh(g.over, g.val, admin.pc, flags)
    <3>1. g = NoEngine \/ /\ e.engine # NoEngine /\ g.val = e.engine.val
                          /\ g.over = e.engine.over \cup req[r].over
      BY <2>1 DEF Stamped
    <3>2. \/ e.engine = NoEngine
          \/ Fresh(e.engine.over, e.engine.val, admin.pc, flags)
      BY <1>1, <2>1 DEF Stamped, FlagsInv
    <3> QED BY <3>1, <3>2 DEF Fresh
  <2>5. /\ DOMAIN cache' = DOMAIN cache
        /\ \A k \in DOMAIN cache : cache'[k].engine \in {g, cache[k].engine}
    BY <2>1 DEF Stamped
  <2> QED BY <1>4, <2>2, <2>3, <2>4, <2>5 DEF Reading
<1>9. ASSUME NEW r \in Requests, Serve(r) PROVE FlagsInv'
  <2>1. PICK q \in Reqs : To(r, q) /\ q.pc = "done"
    BY <1>9, ServeStep
  <2>2. UNCHANGED <<registry, cache, flags>>
    BY <1>9 DEF Serve
  <2> QED BY <1>4, <2>1, <2>2 DEF Reading
<1> QED BY <1>2, <1>3, <1>5, <1>6, <1>7, <1>8, <1>9, Moves

\* No engine outlives a change of the flags in the cache, but for one whose
\* build the change overlapped.
THEOREM EngineHonoursFlags == Spec => []FlagsHonoured
<1>1. Init => FlagsInv
  <2> SUFFICES ASSUME Init PROVE FlagsInv
    OBVIOUS
  <2>1. \A k \in DOMAIN cache : cache[k] = NoEntry
    BY DEF Init, EngineInit
  <2>2. \A r \in Requests : req[r].pc = "idle"
    BY NoReqTyped DEF Init, EngineInit
  <2> QED BY <2>1, <2>2, NoEntryTyped DEF FlagsInv, Reading
<1>2. FlagsInv => FlagsHonoured
  BY DEF FlagsInv, Fresh, FlagsHonoured
<1> QED BY <1>1, <1>2, FlagsStep, TypedAlways, PTL DEF Spec

-----------------------------------------------------------------------------
(* What an engine lists.                                                   *)

Unbuilt == {"idle", "serve", "done", "failed"}

\* The lists have all bindings of the registry b, but for those changed.
Covers(b, lists, over) ==
  \A x \in Sites : Real(b[x]) => <<x, b[x].obj>> \in lists \/ x \in over

\* So do those of the request q with what it is still to read.
Walks(b, q) ==
  \A x \in Sites :
    Real(b[x]) => \/ <<x, b[x].obj>> \in q.lists \/ x \in q.over
                  \/ x[1] \in q.ifs
                  \/ q.pc = "method" /\ x[1] = q.i /\ x[2] \in q.ms

\* The registry c is b with some bindings gone and others, of ch, new.
Later(b, c, ch) ==
  \A x \in Sites : Real(c[x]) => x \in ch \/ (Real(b[x]) /\ c[x].obj = b[x].obj)

Covered(g, b, o) == g = NoEngine \/ Covers(b, g.lists, g.over \cup o)

\* An entry that counts as current covers the registry b.  What is pending
\* it may miss if the revision is still to come, and knows if it has.
GoodEntry(e, b, kind, pending, rev) ==
  e.engine # NoEngine /\ ~(e.revision < rev) =>
    IF kind = "bound" THEN Covers(b, e.engine.lists, e.engine.over \cup pending)
    ELSE Covers(b, e.engine.lists, e.engine.over) /\ pending \subseteq e.engine.over

GoodReq(q, c, b, pending) ==
  /\ q.pc \notin Unbuilt => pending \subseteq q.over
  /\ q.pc \in {"interface", "method"} => Walks(b, q)
  /\ q.pc = "stamp" => Covered(c[CacheKey(q)].engine, b, q.over)

CompleteInv ==
  /\ \A k \in DOMAIN cache : GoodEntry(cache[k], reg, admin.kind, Pending, revision)
  /\ \A r \in Requests : GoodReq(req[r], cache, reg, Pending)

LEMMA CoversLater ==
  ASSUME NEW b, NEW c, NEW ch, Later(b, c, ch), NEW l, NEW o, NEW p,
         o \subseteq p, ch \subseteq p, Covers(b, l, o)
  PROVE  Covers(c, l, p)
  BY DEF Covers, Later

LEMMA WalksLater ==
  ASSUME NEW b, NEW c, NEW ch, Later(b, c, ch), NEW p, NEW q,
         p.pc = q.pc, p.i = q.i, p.ms = q.ms, p.ifs = q.ifs, p.lists = q.lists,
         p.over \subseteq q.over, ch \subseteq q.over, Walks(b, p)
  PROVE  Walks(c, q)
  BY DEF Walks, Later

\* The administrator's steps: what they bind is pending, and they advance
\* the revision before what was pending is not any more.
LEMMA PendingStep ==
  ASSUME RegistryInv, RegistryNext
  PROVE  /\ Later(reg, reg', Pending)
         /\ \/ revision < revision'
            \/ /\ revision' = revision /\ Pending' = {}
               /\ Pending = {} \/ admin.kind = "handler"
            \/ revision' = revision /\ Pending = {} /\ admin'.kind = "bound"
            \/ /\ revision' = revision /\ Pending' = Pending
               /\ admin'.kind = admin.kind
<1>1. /\ reg \in [Sites -> Entries] /\ admin \in Admins /\ revision \in Nat
      /\ \A x \in Sites : reg[x] \in Entries
  BY DEF RegistryInv, RegistryTypeOK
<1>2. admin.pc = "idle" => Pending = {}
  BY DEF Pending, RegistryInv, AdminOK
<1>3. Idle.names = {}
  BY IdleAdmin
<1>4. CASE NewBinding
  <2>1. PICK m, T : admin' = [admin EXCEPT !.pc = "put", !.m = m, !.todo = T]
    BY <1>4 DEF NewBinding
  <2>2. /\ admin'.i = admin.i /\ admin'.names = admin.names
        /\ admin'.kind = admin.kind
    BY <1>1, <2>1 DEF Admins
  <2>3. Pending' = Pending /\ revision' = revision
    BY <1>4, <2>2 DEF Pending, NewBinding
  <2>4. \A x \in Sites : Real(reg'[x]) => reg'[x] = reg[x]
    BY <1>1, <1>4, EntryTypes DEF NewBinding
  <2> QED BY <2>2, <2>3, <2>4 DEF Later
<1>5. CASE PutBinding
  <2> DEFINE y == <<admin.i, admin.m>>
             e == [st |-> admin.kind, obj |-> admin.obj, inj |-> NewInjections]
  <2>1. reg' = [reg EXCEPT ![y] = e] /\ revision' = revision /\ admin.pc = "put"
    BY <1>5 DEF PutBinding
  <2>2. y \in Pending
    BY <2>1 DEF Pending, RegistryInv, AdminOK
  <2> HIDE DEF y, e
  <2>3. Later(reg, reg', Pending)
    BY <1>1, <2>1, <2>2 DEF Later
  <2>4. \/ admin' = Idle /\ admin.kind = "handler"
        \/ \E s \in {"new", "bump"} : admin' = [admin EXCEPT !.pc = s]
    BY <1>5 DEF PutBinding
  <2>5. CASE admin' = Idle /\ admin.kind = "handler"
    <3>1. Pending' = {}
      BY <1>3, <2>5 DEF Pending
    <3> QED BY <2>1, <2>3, <2>5, <3>1
  <2>6. ASSUME NEW s \in {"new", "bump"}, admin' = [admin EXCEPT !.pc = s]
        PROVE  Pending' = Pending /\ admin'.kind = admin.kind
    <3>1. /\ admin'.i = admin.i /\ admin'.names = admin.names
          /\ admin'.kind = admin.kind
      BY <1>1, <2>6, AdminTo
    <3> QED BY <3>1 DEF Pending
  <2> QED BY <2>1, <2>3, <2>4, <2>5, <2>6
<1>6. CASE Bump
  BY <1>1, <1>6 DEF Bump, Later
<1>7. ASSUME NEW kind \in {"bound", "handler"}, NEW i, NEW ms, NEW o,
             Expose(kind, i, ms, o)
      PROVE  /\ Later(reg, reg', Pending)
             /\ \/ revision < revision'
                \/ revision' = revision /\ Pending = {} /\ admin'.kind = "bound"
  BY <1>1, <1>2, <1>7 DEF Expose, Begin, Later
<1>8. ASSUME \/ \E x \in Sites : RemoveBinding(x)
             \/ \E i \in Interfaces : RemoveInterface(i)
             \/ \E t \in Types : \/ SetupGlobalInjection(t)
                                 \/ \E x \in Sites : AddInjection(x, t)
      PROVE  /\ Later(reg, reg', Pending) /\ revision' = revision
             /\ Pending = {} /\ Pending' = {}
  <2>1. revision' = revision /\ admin' = admin /\ admin.pc = "idle"
    BY <1>8 DEF RemoveBinding, RemoveInterface, SetupGlobalInjection, AddInjection, Begin
  <2>2. Pending = {} /\ Pending' = {}
    BY <1>2, <2>1 DEF Pending
  <2>3. ASSUME NEW x \in Sites, RemoveBinding(x) PROVE Later(reg, reg', Pending)
    BY <1>1, <2>3, EntryTypes DEF RemoveBinding, Later
  <2>4. ASSUME NEW i \in Interfaces, RemoveInterface(i) PROVE Later(reg, reg', Pending)
    BY <1>1, <2>4, EntryTypes DEF RemoveInterface, Later
  <2>5. ASSUME NEW t \in Types,
               SetupGlobalInjection(t) \/ \E x \in Sites : AddInjection(x, t)
        PROVE  Later(reg, reg', Pending)
    <3> DEFINE d(x) == [reg[x] EXCEPT !.inj = @ \cup {t}]
    <3>1. \A x \in Sites : d(x).obj = reg[x].obj /\ (Real(d(x)) <=> Real(reg[x]))
      BY <1>1, MoreInjections
    <3>2. \A x \in Sites : reg'[x] \in {reg[x], d(x)}
      <4>1. CASE SetupGlobalInjection(t)
        BY <4>1 DEF SetupGlobalInjection
      <4>2. ASSUME NEW x \in Sites, AddInjection(x, t)
            PROVE  \A z \in Sites : reg'[z] \in {reg[z], d(z)}
        <5>1. reg' = [reg EXCEPT ![x] = d(x)]
          BY <4>2 DEF AddInjection
        <5> HIDE DEF d
        <5> QED BY <1>1, <5>1
      <4> QED BY <2>5, <4>1, <4>2
    <3> HIDE DEF d
    <3> QED BY <3>1, <3>2 DEF Later
  <2> QED BY <1>8, <2>1, <2>2, <2>3, <2>4, <2>5
<1> QED BY <1>4, <1>5, <1>6, <1>7, <1>8 DEF RegistryNext

LEMMA AdminPending ==
  ASSUME Typed, AdminMoves
  PROVE  /\ Later(reg, reg', Pending)
         /\ \/ revision < revision'
            \/ /\ revision' = revision /\ Pending' = {}
               /\ Pending = {} \/ admin.kind = "handler"
            \/ revision' = revision /\ Pending = {} /\ admin'.kind = "bound"
            \/ /\ revision' = revision /\ Pending' = Pending
               /\ admin'.kind = admin.kind
         /\ \E ch \in SUBSET Changes, cl \in BOOLEAN :
              /\ Witness(ch, cl) /\ cache' = IF cl THEN Cleared ELSE cache
              /\ Pending \subseteq ch /\ Pending' \subseteq ch
<1>1. RegistryInv /\ admin \in Admins
  BY DEF Typed, RegistryInv, RegistryTypeOK
<1>2. CASE ChangeRegistry
  <2>1. RegistryInv'
    BY <1>1, <1>2, RegistryNextInv DEF ChangeRegistry
  <2>2. Pending \cup Pending' \in SUBSET Changes
    BY <1>1, <2>1, PendingSites
  <2>3. Witness(Pending \cup Pending', FALSE) /\ cache' = cache
    BY <1>2 DEF ChangeRegistry
  <2>4. \E ch \in SUBSET Changes, cl \in BOOLEAN :
              /\ Witness(ch, cl) /\ cache' = IF cl THEN Cleared ELSE cache
              /\ Pending \subseteq ch /\ Pending' \subseteq ch
    BY <2>2, <2>3
  <2> QED BY <1>1, <1>2, <2>4, PendingStep DEF ChangeRegistry
<1>3. CASE ClearCache \/ FlagsClear \/ FlagsSet
  <2>1. reg' = reg /\ revision' = revision /\ admin.pc \in {"idle", "flags"}
    BY <1>3 DEF ClearCache, FlagsClear, FlagsSet, Begin
  <2>2. admin.names = {} /\ admin'.names = {}
    <3>1. admin.names = {}
      BY <1>1, <2>1 DEF RegistryInv, AdminOK
    <3>2. CASE ClearCache
      BY <3>1, <3>2 DEF ClearCache
    <3>3. CASE FlagsClear
      BY <1>1, <3>1, <3>3, AdminTo DEF FlagsClear
    <3>4. CASE FlagsSet
      BY <3>1, <3>4, IdleAdmin DEF FlagsSet
    <3> QED BY <1>3, <3>1, <3>2, <3>3, <3>4
  <2>3. Pending = {} /\ Pending' = {}
    BY <2>2 DEF Pending
  <2>4. Later(reg, reg', Pending)
    BY <2>1 DEF Later
  <2>5. \E ch \in SUBSET Changes, cl \in BOOLEAN :
              Witness(ch, cl) /\ cache' = IF cl THEN Cleared ELSE cache
    BY <1>3, AdminStep DEF AdminMoves
  <2> QED BY <2>1, <2>3, <2>4, <2>5
<1> QED BY <1>2, <1>3 DEF AdminMoves

LEMMA AdminKeepsEntry ==
  ASSUME Typed, AdminMoves, NEW e \in CacheEntries,
         GoodEntry(e, reg, admin.kind, Pending, revision)
  PROVE  GoodEntry(e, reg', admin'.kind, Pending', revision')
<1>1. /\ e.revision <= revision /\ e.revision \in Nat /\ revision \in Nat
      /\ admin.kind \in {"bound", "handler"}
  BY DEF CacheEntries, Typed, RegistryInv, RegistryTypeOK, Admins
<1>2. revision' \in Nat
  BY TypedNext DEF Typed, RegistryInv, RegistryTypeOK, Next, AdminMoves
<1>3. CASE e.engine = NoEngine \/ e.revision < revision'
  BY <1>3 DEF GoodEntry
<1>4. CASE e.engine # NoEngine /\ ~(e.revision < revision')
  <2> DEFINE l == e.engine.lists
             o == e.engine.over
  <2>1. /\ Later(reg, reg', Pending) /\ revision' = revision
        /\ \/ Pending' = {} /\ (Pending = {} \/ admin.kind = "handler")
           \/ Pending = {} /\ admin'.kind = "bound"
           \/ Pending' = Pending /\ admin'.kind = admin.kind
    BY <1>1, <1>2, <1>4, AdminPending
  <2>2. IF admin.kind = "bound" THEN Covers(reg, l, o \cup Pending)
        ELSE Covers(reg, l, o) /\ Pending \subseteq o
    BY <1>4, <2>1 DEF GoodEntry
  <2>3. Covers(reg, l, o \cup Pending)
    BY <2>2, Zenon DEF Covers
  <2>4. Covers(reg', l, o \cup Pending)
    BY <2>1, <2>3, CoversLater
  <2>5. IF admin'.kind = "bound" THEN Covers(reg', l, o \cup Pending')
        ELSE Covers(reg', l, o) /\ Pending' \subseteq o
    <3>1. CASE Pending' = {} /\ (Pending = {} \/ admin.kind = "handler")
      <4>1. o \cup Pending = o /\ o \cup Pending' = o /\ Pending' \subseteq o
        BY <2>2, <3>1
      <4> HIDE DEF o
      <4> QED BY <2>4, <4>1
    <3>2. CASE Pending = {} /\ admin'.kind = "bound"
      BY <2>4, <3>2 DEF Covers
    <3>3. CASE Pending' = Pending /\ admin'.kind = admin.kind
      <4>1. CASE admin.kind = "bound"
        BY <2>4, <3>3, <4>1
      <4>2. CASE admin.kind # "bound"
        <5>1. Pending \subseteq o /\ o \cup Pending = o
          BY <2>2, <4>2
        <5> HIDE DEF o
        <5> QED BY <2>4, <3>3, <4>2, <5>1
      <4> QED BY <4>1, <4>2
    <3> QED BY <2>1, <3>1, <3>2, <3>3
  <2> QED BY <2>5 DEF GoodEntry
<1> QED BY <1>3, <1>4

LEMMA AdminComplete == Typed /\ CompleteInv /\ AdminMoves => CompleteInv'
<1> SUFFICES ASSUME Typed, CompleteInv, AdminMoves PROVE CompleteInv'
  OBVIOUS
<1>1. \A s \in Requests : CacheKey(req[s]) \in DOMAIN cache /\ req[s] \in Reqs
  BY DEF Typed, TypeOK
<1>2. cache \in [DOMAIN cache -> CacheEntries] /\ req \in [Requests -> Reqs]
  BY DEF Typed, TypeOK, CacheEntries
<1>3. Later(reg, reg', Pending)
  BY AdminPending
<1>4. PICK ch \in SUBSET Changes, cl \in BOOLEAN :
              /\ Witness(ch, cl) /\ cache' = IF cl THEN Cleared ELSE cache
              /\ Pending \subseteq ch /\ Pending' \subseteq ch
  BY AdminPending
<1>5. DOMAIN cache' = DOMAIN cache
      /\ \A k \in DOMAIN cache : cache'[k] \in {cache[k], NoEntry}
  BY <1>4 DEF Cleared
<1>6. \A k \in DOMAIN cache' : GoodEntry(cache'[k], reg', admin'.kind, Pending', revision')
  <2> TAKE k \in DOMAIN cache'
  <2>1. CASE cache'[k] = NoEntry
    BY <2>1, NoEntryTyped DEF GoodEntry
  <2>2. CASE cache'[k] = cache[k]
    BY <1>2, <1>5, <2>2, AdminKeepsEntry DEF CompleteInv
  <2> QED BY <1>5, <2>1, <2>2
<1>7. ASSUME NEW s \in Requests PROVE GoodReq(req'[s], cache', reg', Pending')
  <2>1. /\ SameAsker(req'[s], req[s])
        /\ req'[s].pc = req[s].pc
        /\ req'[s].ifs = req[s].ifs /\ req'[s].i = req[s].i
        /\ req'[s].ms = req[s].ms /\ req'[s].lists = req[s].lists
        /\ req'[s].over = IF Building(s) THEN req[s].over \cup ch ELSE req[s].over
    BY <1>2, <1>4, WitnessStep
  <2>2. CASE req[s].pc \in Unbuilt
    BY <2>1, <2>2 DEF GoodReq, Unbuilt
  <2>3. CASE req[s].pc \notin Unbuilt
    <3>1. req'[s].over = req[s].over \cup ch
      BY <2>1, <2>3 DEF Building, Unbuilt
    <3>2. req[s].over \subseteq req'[s].over /\ Pending \subseteq req'[s].over
          /\ Pending' \subseteq req'[s].over
      BY <1>4, <3>1
    <3>3. ASSUME req'[s].pc \in {"interface", "method"} PROVE Walks(reg', req'[s])
      <4>1. Walks(reg, req[s])
        BY <2>1, <3>3 DEF CompleteInv, GoodReq
      <4> QED BY <1>3, <2>1, <3>2, <4>1, WalksLater
    <3>4. ASSUME req'[s].pc = "stamp"
          PROVE  Covered(cache'[CacheKey(req'[s])].engine, reg', req'[s].over)
      <4> DEFINE g == cache[CacheKey(req[s])].engine
      <4>1. CacheKey(req'[s]) = CacheKey(req[s])
        BY <2>1, SameKey
      <4>2. \/ cache'[CacheKey(req'[s])].engine = NoEngine
            \/ cache'[CacheKey(req'[s])].engine = g
        BY <1>1, <1>5, <4>1, NoEntryTyped
      <4>3. Covered(g, reg, req[s].over)
        BY <2>1, <3>4 DEF CompleteInv, GoodReq
      <4> HIDE DEF g
      <4>4. CASE Covers(reg, g.lists, g.over \cup req[s].over)
        <5>1. /\ g.over \cup req[s].over \subseteq g.over \cup req'[s].over
              /\ Pending \subseteq g.over \cup req'[s].over
          BY <3>2
        <5>2. Covers(reg', g.lists, g.over \cup req'[s].over)
          BY <1>3, <4>4, <5>1, CoversLater
        <5> QED BY <4>2, <5>2 DEF Covered
      <4>5. CASE g = NoEngine
        BY <4>2, <4>5 DEF Covered
      <4> QED BY <4>3, <4>4, <4>5 DEF Covered
    <3> QED BY <3>2, <3>3, <3>4 DEF GoodReq
  <2> QED BY <2>2, <2>3
<1>8. \A s \in Requests : GoodReq(req'[s], cache', reg', Pending')
  BY <1>7
<1> QED BY <1>6, <1>8, Zenon DEF CompleteInv

\* A step of one request, whose cache keeps what others have covered.
LEMMA RequestComplete ==
  ASSUME Typed, CompleteInv, NEW r \in Requests, NEW q \in Reqs, To(r, q),
         UNCHANGED <<registry, flags>>,
         \A k \in DOMAIN cache' :
           GoodEntry(cache'[k], reg, admin.kind, Pending, revision),
         \A k \in DOMAIN cache : \A o :
           Covered(cache[k].engine, reg, o) => Covered(cache'[k].engine, reg, o),
         GoodReq(q, cache', reg, Pending)
  PROVE  CompleteInv'
<1>1. \A s \in Requests : req'[s] = IF s = r THEN q ELSE req[s]
  BY OthersKeep
<1>2. reg' = reg /\ admin' = admin /\ revision' = revision /\ Pending' = Pending
  BY DEF registry, Pending
<1>3. ASSUME NEW s \in Requests PROVE GoodReq(req'[s], cache', reg', Pending')
  <2>1. CASE s = r
    BY <1>1, <1>2, <2>1
  <2>2. CASE s # r
    <3>1. req'[s] = req[s] /\ CacheKey(req[s]) \in DOMAIN cache
      BY <1>1, <2>2 DEF Typed
    <3>2. GoodReq(req[s], cache, reg, Pending)
      BY DEF CompleteInv
    <3>3. GoodReq(req[s], cache', reg, Pending)
      BY <3>1, <3>2 DEF GoodReq
    <3> QED BY <1>2, <3>1, <3>3
  <2> QED BY <2>1, <2>2
<1>4. \A k \in DOMAIN cache' :
        GoodEntry(cache'[k], reg', admin'.kind, Pending', revision')
  BY <1>2
<1> QED BY <1>3, <1>4, Zenon DEF CompleteInv

\* Steps that leave the cache alone, and know what is pending.
LEMMA ReadComplete ==
  ASSUME Typed, CompleteInv, NEW r \in Requests, NEW q \in Reqs, To(r, q),
         UNCHANGED <<registry, cache, flags>>, q.pc # "stamp",
         \/ q.pc \in Unbuilt
         \/ SameBuild(q, req[r]) /\ req[r].pc \notin Unbuilt,
         q.pc \in {"interface", "method"} => Walks(reg, q)
  PROVE  CompleteInv'
<1>1. q.pc \notin Unbuilt => Pending \subseteq q.over
  <2>1. GoodReq(req[r], cache, reg, Pending)
    BY DEF CompleteInv
  <2> QED BY <2>1 DEF GoodReq, SameBuild
<1>2. GoodReq(q, cache', reg, Pending)
  BY <1>1 DEF GoodReq
<1>3. \A k \in DOMAIN cache' :
        GoodEntry(cache'[k], reg, admin.kind, Pending, revision)
  BY DEF CompleteInv
<1> QED BY <1>2, <1>3, RequestComplete

LEMMA WalkComplete ==
  ASSUME Typed, CompleteInv, NEW r \in Requests, Reads(r)
  PROVE  CompleteInv'
<1>1. /\ req \in [Requests -> Reqs] /\ flags \in BOOLEAN /\ RegistryInv
      /\ maps \subseteq Interfaces
  BY DEF Typed, TypeOK, RegistryInv, RegistryTypeOK
<1>2. UNCHANGED <<registry, cache, flags>>
  BY ReadStep
<1>3. GoodReq(req[r], cache, reg, Pending)
  BY DEF CompleteInv
<1>4. CASE Params(r)
  <2>1. PICK q \in Reqs : To(r, q) /\ SameBuild(q, req[r]) /\ q.pc = "names"
    BY <1>1, <1>4, ParamsStep
  <2>2. req[r].pc = "params"
    BY <1>4 DEF Params
  <2> QED BY <1>2, <2>1, <2>2, ReadComplete DEF Unbuilt
<1>5. CASE ListInterfaces(r)
  <2>1. PICK q \in Reqs : /\ To(r, q) /\ SameBuild(q, req[r])
                          /\ q.pc = "interface" /\ q.ifs = maps
    BY <1>1, <1>5, InterfacesStep
  <2>2. req[r].pc = "names"
    BY <1>5 DEF ListInterfaces
  <2>3. Walks(reg, q)
    BY <1>1, <2>1 DEF Walks, RegistryInv, RegistryTypeOK, Real
  <2> QED BY <1>2, <2>1, <2>2, <2>3, ReadComplete DEF Unbuilt
<1>6. CASE ListMethods(r)
  <2>1. PICK q \in Reqs, i \in Interfaces :
           /\ To(r, q) /\ SameBuild(q, req[r]) /\ i \in req[r].ifs
           /\ q.pc = After(BindingNames(i)) /\ q.i = i
           /\ q.ifs = req[r].ifs \ {i} /\ q.ms = BindingNames(i)
           /\ q.lists = req[r].lists
    BY <1>1, <1>6, MethodsStep
  <2>2. req[r].pc = "interface"
    BY <1>6 DEF ListMethods
  <2>3. Walks(reg, q)
    <3>1. Walks(reg, req[r])
      BY <1>3, <2>2 DEF GoodReq
    <3>2. \A x \in Sites : Real(reg[x]) => x[2] \in BindingNames(x[1])
      BY SitePair DEF BindingNames, Real
    <3>3. q.ms # {} => q.pc = "method"
      BY <2>1 DEF After
    <3>4. q.over = req[r].over
      BY <2>1 DEF SameBuild
    <3> QED BY <2>1, <2>2, <3>1, <3>2, <3>3, <3>4 DEF Walks
  <2>4. q.pc # "stamp"
    BY <2>1 DEF After
  <2> QED BY <1>2, <2>1, <2>2, <2>3, <2>4, ReadComplete DEF Unbuilt
<1>7. CASE AddMethod(r)
  <2>1. req[r].pc = "method" /\ req[r].i \in Interfaces
    BY <1>7 DEF AddMethod, Typed
  <2>2. CASE To(r, [NoReq EXCEPT !.pc = "failed"])
    <3> DEFINE q == [NoReq EXCEPT !.pc = "failed"]
    <3>1. q \in Reqs /\ q.pc = "failed" /\ To(r, q)
      BY <2>2, NoReqTyped
    <3> HIDE DEF q
    <3> QED BY <1>2, <3>1, ReadComplete DEF Unbuilt
  <2>3. CASE ~To(r, [NoReq EXCEPT !.pc = "failed"])
    <3>1. PICK q \in Reqs, m \in Names, x \in Sites :
              /\ To(r, q) /\ SameBuild(q, req[r]) /\ m \in req[r].ms
              /\ x = <<req[r].i, m>> /\ Real(reg[x])
              /\ q.pc = After(req[r].ms \ {m}) /\ q.i = req[r].i
              /\ q.ifs = req[r].ifs /\ q.ms = req[r].ms \ {m}
              /\ q.lists = req[r].lists \cup {<<x, reg[x].obj>>}
              /\ q.val = req[r].val
      BY <1>1, <1>7, <2>1, <2>3, MethodStep
    <3>2. Walks(reg, q)
      <4>1. Walks(reg, req[r])
        BY <1>3, <2>1 DEF GoodReq
      <4>2. \A z \in Sites : z[1] = req[r].i /\ z[2] = m => z = x
        BY <3>1, SitePair
      <4>3. q.ms # {} => q.pc = "method"
        BY <3>1 DEF After
      <4>4. q.over = req[r].over
        BY <3>1 DEF SameBuild
      <4> QED BY <2>1, <3>1, <4>1, <4>2, <4>3, <4>4 DEF Walks
    <3>3. q.pc # "stamp"
      BY <3>1 DEF After
    <3> QED BY <1>2, <2>1, <3>1, <3>2, <3>3, ReadComplete DEF Unbuilt
  <2> QED BY <2>2, <2>3
<1>8. CASE Leave(r)
  <2>1. To(r, NoReq)
    BY <1>8 DEF Leave
  <2> QED BY <1>2, <2>1, NoReqTyped, ReadComplete DEF Unbuilt
<1> QED BY <1>4, <1>5, <1>6, <1>7, <1>8 DEF Reads

LEMMA LookComplete ==
  ASSUME Typed, CompleteInv, NEW r \in Requests, NEW ask \in Asks, Look(r, ask)
  PROVE  CompleteInv'
<1>1. PICK q \in Reqs, e \in CacheEntries : Looked(r, ask, q, e)
  BY LookCache
<1>2. \A k \in DOMAIN cache' : \/ k \in DOMAIN cache /\ cache'[k] = cache[k]
                               \/ cache'[k] = NoEntry
  BY <1>1 DEF Looked
<1>3. \A k \in DOMAIN cache : cache'[k] = cache[k]
  BY <1>1 DEF Looked
<1>4. \A k \in DOMAIN cache' :
        GoodEntry(cache'[k], reg, admin.kind, Pending, revision)
  BY <1>2, NoEntryTyped DEF CompleteInv, GoodEntry
<1>5. /\ To(r, q) /\ UNCHANGED <<registry, flags>> /\ q.pc \in {"params", "serve"}
      /\ q.pc = "params" => Pending \subseteq q.over
  BY <1>1 DEF Looked, Changing
<1>6. GoodReq(q, cache', reg, Pending)
  BY <1>5 DEF GoodReq, Unbuilt
<1> QED BY <1>3, <1>4, <1>5, <1>6, RequestComplete

LEMMA SetComplete ==
  ASSUME Typed, CompleteInv, NEW r \in Requests, SetEngine(r)
  PROVE  CompleteInv'
<1>1. PICK g \in Engines : Placed(r, g)
  BY Places
<1>2. PICK q \in Reqs : To(r, q) /\ q.pc = "stamp" /\ SameBuild(q, req[r])
  BY SetStep DEF Typed, TypeOK
<1>3. /\ UNCHANGED <<registry, flags>> /\ req[r].pc = "interface" /\ req[r].ifs = {}
      /\ CacheKey(req[r]) \in DOMAIN cache
  BY DEF SetEngine, Typed
<1>4. Walks(reg, req[r]) /\ Pending \subseteq req[r].over
  BY <1>3 DEF CompleteInv, GoodReq, Unbuilt
<1>5. \A o : Covers(reg, g.lists, g.over \cup o)
  BY <1>1, <1>3, <1>4 DEF Walks, Covers, Placed
<1>6. Covers(reg, g.lists, g.over) /\ Pending \subseteq g.over
  BY <1>1, <1>3, <1>4 DEF Walks, Covers, Placed
<1>7. /\ DOMAIN cache' = DOMAIN cache
      /\ \A k \in DOMAIN cache :
           \/ cache'[k] = cache[k]
           \/ k = CacheKey(req[r]) /\ cache'[k].engine = g
  BY <1>1 DEF Placed
<1>8. cache'[CacheKey(req[r])].engine = g
  BY <1>1, <1>3 DEF Placed
<1>9. \A k \in DOMAIN cache' :
        GoodEntry(cache'[k], reg, admin.kind, Pending, revision)
  BY <1>5, <1>6, <1>7 DEF CompleteInv, GoodEntry
<1>10. \A k \in DOMAIN cache : \A o :
         Covered(cache[k].engine, reg, o) => Covered(cache'[k].engine, reg, o)
  BY <1>5, <1>7 DEF Covered
<1>11. GoodReq(q, cache', reg, Pending)
  <2>1. CacheKey(q) = CacheKey(req[r]) /\ q.over = req[r].over
    BY <1>2, SameKey DEF SameBuild
  <2> QED BY <1>2, <1>4, <1>5, <1>8, <2>1 DEF GoodReq, Covered
<1> QED BY <1>2, <1>3, <1>9, <1>10, <1>11, RequestComplete

LEMMA StampComplete ==
  ASSUME Typed, CompleteInv, NEW r \in Requests, Stamp(r)
  PROVE  CompleteInv'
<1>1. PICK g \in Engines, e \in CacheEntries : Stamped(r, g, e)
  BY Stamps
<1>2. PICK q \in Reqs : To(r, q) /\ q.pc = "serve"
  BY StampStep DEF Typed, TypeOK
<1>3. /\ UNCHANGED <<registry, flags>> /\ req[r].pc = "stamp"
      /\ CacheKey(req[r]) \in DOMAIN cache
  BY DEF Stamp, Typed
<1>4. Covered(e.engine, reg, req[r].over) /\ Pending \subseteq req[r].over
  BY <1>1, <1>3 DEF CompleteInv, GoodReq, Unbuilt, Stamped
<1>5. \/ g = NoEngine /\ e.engine = NoEngine
      \/ /\ Covers(reg, g.lists, g.over) /\ Pending \subseteq g.over
         /\ \A o : Covers(reg, g.lists, g.over \cup o)
  <2>1. \/ e.engine = NoEngine /\ g = NoEngine
        \/ /\ e.engine # NoEngine /\ g.lists = e.engine.lists
           /\ g.over = e.engine.over \cup req[r].over
    BY <1>1 DEF Stamped
  <2> QED BY <1>4, <2>1 DEF Covered, Covers
<1>6. /\ DOMAIN cache' = DOMAIN cache
      /\ \A k \in DOMAIN cache :
           \/ cache'[k] = cache[k]
           \/ cache[k] = e /\ cache'[k].engine = g
  BY <1>1 DEF Stamped
<1>7. ASSUME NEW k \in DOMAIN cache'
      PROVE  GoodEntry(cache'[k], reg, admin.kind, Pending, revision)
  <2>1. CASE cache'[k] = cache[k]
    BY <1>6, <2>1 DEF CompleteInv
  <2>2. CASE cache'[k].engine = g
    <3>1. g # NoEngine => /\ Covers(reg, g.lists, g.over \cup Pending)
                          /\ Covers(reg, g.lists, g.over) /\ Pending \subseteq g.over
      BY <1>5
    <3> QED BY <2>2, <3>1, Zenon DEF GoodEntry
  <2> QED BY <1>6, <2>1, <2>2
<1>8. \A k \in DOMAIN cache : \A o :
        Covered(cache[k].engine, reg, o) => Covered(cache'[k].engine, reg, o)
  BY <1>5, <1>6 DEF Covered
<1>9. GoodReq(q, cache', reg, Pending)
  BY <1>2 DEF GoodReq, Unbuilt
<1> QED BY <1>2, <1>3, <1>7, <1>8, <1>9, RequestComplete

LEMMA CompleteStep == Typed /\ CompleteInv /\ [Next]_vars => CompleteInv'
<1> SUFFICES ASSUME Typed, CompleteInv, [Next]_vars PROVE CompleteInv'
  OBVIOUS
<1>1. CASE UNCHANGED vars
  BY <1>1 DEF CompleteInv, vars, registry, engineVars, Pending
<1>2. ASSUME NEW r \in Requests, Serve(r) PROVE CompleteInv'
  <2>1. PICK q \in Reqs : To(r, q) /\ q.pc = "done"
    BY <1>2, ServeStep
  <2>2. UNCHANGED <<registry, cache, flags>>
    BY <1>2 DEF Serve
  <2> QED BY <2>1, <2>2, ReadComplete DEF Unbuilt
<1> QED BY <1>1, <1>2, AdminComplete, LookComplete, WalkComplete, SetComplete,
           StampComplete, Moves

\* An engine that is served as current misses no binding but those whose
\* exposure its build overlapped: each walk over the registry is behind by
\* no more than what was pending, and the revision outdates the rest.
THEOREM EngineIsComplete == Spec => []EngineComplete
<1>1. Init => CompleteInv
  <2> SUFFICES ASSUME Init PROVE CompleteInv
    OBVIOUS
  <2>1. \A k \in DOMAIN cache : cache[k] = NoEntry
    BY DEF Init, EngineInit
  <2>2. \A r \in Requests : req[r].pc = "idle"
    BY NoReqTyped DEF Init, EngineInit
  <2> QED BY <2>1, <2>2, NoEntryTyped DEF CompleteInv, GoodEntry, GoodReq, Unbuilt
<1>2. Typed /\ CompleteInv => EngineComplete
  <2> SUFFICES ASSUME Typed, CompleteInv, admin.pc \in {"idle", "flags"},
                      NEW k \in DOMAIN cache, ~MustBuild(cache[k]),
                      NEW x \in Sites, Real(reg[x])
               PROVE  \/ <<x, reg[x].obj>> \in cache[k].engine.lists
                      \/ x \in cache[k].engine.over
    BY DEF EngineComplete
  <2>1. Pending = {}
    BY DEF Typed, RegistryInv, AdminOK, Pending
  <2>2. Covers(reg, cache[k].engine.lists, cache[k].engine.over \cup Pending)
    BY <2>1 DEF CompleteInv, GoodEntry, MustBuild, Covers
  <2> QED BY <2>1, <2>2 DEF Covers
<1> QED BY <1>1, <1>2, CompleteStep, TypedAlways, PTL DEF Spec
=============================================================================
