------------------------------- MODULE Engine -------------------------------
(***************************************************************************)
(* The engine cache of a Container (frontend.go): requests for the engine, *)
(* the JavaScript that has a proxy for each binding, run beside the        *)
(* goroutine that changes the Registry.  build reads the registry, flags   *)
(* and cache in turn without a lock, so each read is a step of its own.    *)
(*                                                                         *)
(* An engine is what a client can tell of it: the base URL it calls, the   *)
(* bindings it lists and whether it validates arguments.  Libraries,       *)
(* template texts and minifying are left out; they change no other state.  *)
(*                                                                         *)
(* Two fields are history: over, what changed while an engine was built,   *)
(* and cleared, whether the cache was cleared during a request.            *)
(***************************************************************************)
EXTENDS Registry, Sequences

CONSTANTS Requests,    \* HTTP goroutines that serve engine requests
          Hosts,       \* schemes and hosts that reach the container
          Queries,     \* raw queries, None if there is none
          Asks,        \* the requests: platform, host and query
          ExtUrl       \* the external URL's host if configured, else None

Platforms == {"web", "nodejs"}

ASSUME EngineAssumption ==
  /\ Asks \subseteq [plat : Platforms, host : Hosts, query : Queries]
  /\ ExtUrl \in Hosts \cup {None} /\ None \notin Hosts

VARIABLES cache,  \* Container.cache
          flags,  \* whether F_VALIDATE_ARGS is among Container.flags
          req     \* per goroutine: the request it serves

engineVars == <<cache, flags, req>>
vars == <<registry, engineVars>>

\* What a change of the flags is called in over.
FlagsChange == <<"flags">>

NoEngine == [base |-> <<None>>, lists |-> {}, val |-> FALSE, over |-> {}]
NoEntry == [engine |-> NoEngine, revision |-> 0]

\* The URL of the container for this request: a query comes with it.
ExternalUrl(r) ==
  IF ExtUrl # None THEN [host |-> ExtUrl, query |-> None]
  ELSE [host |-> r.host, query |-> r.query]

\* Mutant of CacheKey: the engine of the first host is good for all.
CacheKeyNoHost(r) == <<r.plat>>

\* engineCacheKey: nodejs clients call by full URL, so theirs is per host.
CacheKey(r) ==
  IF r.plat = "web" THEN <<"web">> ELSE <<"nodejs", ExternalUrl(r).host>>

\* The base URL the templates get: the context alone for a web page that is
\* served by this host anyway.
BaseUrl(r) ==
  IF r.plat = "web" /\ ExtUrl = None THEN << >>
  ELSE <<ExternalUrl(r).host, ExternalUrl(r).query>>

NoReq == [pc |-> "idle", plat |-> "web", host |-> None, query |-> None,
          val |-> FALSE, ifs |-> {}, i |-> None, ms |-> {}, lists |-> {},
          out |-> << >>, over |-> {}, cleared |-> FALSE]

Building(r) == req[r].pc \notin {"idle", "serve", "done", "failed"}

EngineInit ==
  /\ cache = [k \in {<<p>> : p \in Platforms} |-> NoEntry]
  /\ flags = TRUE
  /\ req = [r \in Requests |-> NoReq]

\* What is changing now: an engine built meanwhile may miss it.
Changing == Pending \cup (IF admin.pc = "flags" THEN {FlagsChange} ELSE {})

\* The requests under way see the administrator change ch.
Witness(ch, cl) ==
  req' = [r \in Requests |->
    [req[r] EXCEPT
       !.over = IF Building(r) THEN @ \cup ch ELSE @,
       !.cleared = @ \/ (cl /\ (Building(r) \/ req[r].pc = "serve"))]]

ChangeRegistry ==
  /\ RegistryNext
  /\ Witness(Pending \cup Pending', FALSE)
  /\ UNCHANGED <<cache, flags>>

\* Mutant of Cleared: the entries made for hosts are overlooked.
ClearedPlatforms ==
  [k \in DOMAIN cache |-> IF k[1] \in Platforms /\ Len(k) = 1
                          THEN NoEntry ELSE cache[k]]

Cleared == [k \in DOMAIN cache |-> NoEntry]

ClearCache ==
  /\ Begin
  /\ cache' = Cleared
  /\ Witness({}, TRUE)
  /\ UNCHANGED <<maps, reg, globals, revision, admin, flags>>

\* Flags clears the cache, then sets the flags.
FlagsClear ==
  /\ Begin
  /\ admin' = [admin EXCEPT !.pc = "flags"]
  /\ cache' = Cleared
  /\ Witness({FlagsChange}, TRUE)
  /\ UNCHANGED <<maps, reg, globals, revision, flags>>

FlagsSet ==
  /\ admin.pc = "flags"
  /\ flags' \in BOOLEAN
  /\ admin' = Idle
  /\ Witness({FlagsChange}, FALSE)
  /\ UNCHANGED <<maps, reg, globals, revision, ops, cache>>

-----------------------------------------------------------------------------
(* One request for the engine: build, lines 677-767.                       *)

\* The request without what it has read so far.
Asked(r) == [NoReq EXCEPT !.plat = req[r].plat, !.host = req[r].host,
                          !.query = req[r].query, !.cleared = req[r].cleared]
Entry(r) == cache[CacheKey(req[r])]
To(r, q) == req' = [req EXCEPT ![r] = q]

\* Mutant of MustBuild: an engine never built passes for one of revision 0.
MustBuildByRevision(e) == e.revision < revision

MustBuild(e) == e.engine = NoEngine \/ e.revision < revision

\* The entry is made if need be; is the engine in it still good?
Look(r, ask) ==
  LET q == [NoReq EXCEPT !.plat = ask.plat, !.host = ask.host,
                         !.query = ask.query]
      k == CacheKey(q)
      e == IF k \in DOMAIN cache THEN cache[k] ELSE NoEntry
  IN /\ req[r].pc = "idle"
     /\ cache' = [j \in DOMAIN cache \cup {k} |->
                    IF j = k THEN e ELSE cache[j]]
     /\ To(r, IF MustBuild(e)
              THEN [q EXCEPT !.pc = "params", !.over = Changing]
              ELSE [q EXCEPT !.pc = "serve"])
     /\ UNCHANGED <<registry, flags>>

\* The parameters of the templates.
Params(r) ==
  /\ req[r].pc = "params"
  /\ To(r, [req[r] EXCEPT !.pc = "names", !.val = flags])
  /\ UNCHANGED <<registry, cache, flags>>

ListInterfaces(r) ==
  /\ req[r].pc = "names"
  /\ To(r, [req[r] EXCEPT !.pc = "interface", !.ifs = maps])
  /\ UNCHANGED <<registry, cache, flags>>

\* Where the loops over interfaces and methods go on.
After(ms) == IF ms = {} THEN "interface" ELSE "method"

ListMethods(r) ==
  /\ req[r].pc = "interface"
  /\ \E i \in req[r].ifs :
       To(r, [req[r] EXCEPT !.pc = After(BindingNames(i)), !.i = i,
                            !.ifs = @ \ {i}, !.ms = BindingNames(i)])
  /\ UNCHANGED <<registry, cache, flags>>

\* Each method is looked up by its name; a binding that is empty or gone by
\* now has no signature, and the request panics.
AddMethod(r) ==
  /\ req[r].pc = "method"
  /\ \E m \in req[r].ms :
       LET x == <<req[r].i, m>>
       IN To(r, IF Real(reg[x])
                THEN [req[r] EXCEPT !.pc = After(req[r].ms \ {m}),
                                    !.ms = @ \ {m},
                                    !.lists = @ \cup {<<x, reg[x].obj>>}]
                ELSE [NoReq EXCEPT !.pc = "failed"])
  /\ UNCHANGED <<registry, cache, flags>>

SetEngine(r) ==
  /\ req[r].pc = "interface" /\ req[r].ifs = {}
  /\ cache' = [cache EXCEPT ![CacheKey(req[r])].engine =
       [base |-> BaseUrl(req[r]), lists |-> req[r].lists,
        val |-> req[r].val, over |-> req[r].over]]
  /\ To(r, [Asked(r) EXCEPT !.pc = "stamp", !.over = req[r].over])
  /\ UNCHANGED <<registry, flags>>

\* The revision is the one of now, on whatever engine is there now.
Stamp(r) ==
  LET e == Entry(r).engine
  IN /\ req[r].pc = "stamp"
     /\ cache' = [cache EXCEPT ![CacheKey(req[r])] =
          [engine |-> IF e = NoEngine THEN e
                      ELSE [e EXCEPT !.over = @ \cup req[r].over],
           revision |-> revision]]
     /\ To(r, [Asked(r) EXCEPT !.pc = "serve"])
     /\ UNCHANGED <<registry, flags>>

Serve(r) ==
  /\ req[r].pc = "serve"
  /\ To(r, [Asked(r) EXCEPT !.pc = "done", !.out = Entry(r).engine.base])
  /\ UNCHANGED <<registry, cache, flags>>

\* The goroutine is free for another request.
Leave(r) ==
  /\ req[r].pc \in {"done", "failed"}
  /\ To(r, NoReq)
  /\ UNCHANGED <<registry, cache, flags>>

Build(r) ==
  \/ Params(r) \/ ListInterfaces(r) \/ ListMethods(r) \/ AddMethod(r)
  \/ SetEngine(r) \/ Stamp(r) \/ Serve(r)

Init == RegistryInit /\ EngineInit

Next ==
  \/ ChangeRegistry \/ ClearCache \/ FlagsClear \/ FlagsSet
  \/ \E r \in Requests, ask \in Asks : Look(r, ask)
  \/ \E r \in Requests : Build(r) \/ Leave(r)

Spec == Init /\ [][Next]_vars

-----------------------------------------------------------------------------
Bases == {<< >>, <<None>>} \cup (Hosts \X (Queries \cup {None}))
Changes == Sites \cup {FlagsChange}

Engines == [base : Bases, lists : SUBSET (Sites \X Objs), val : BOOLEAN,
            over : SUBSET Changes]

Pcs == {"idle", "params", "names", "interface", "method", "stamp", "serve",
        "done", "failed"}

Reqs == [pc : Pcs, plat : Platforms, host : Hosts \cup {None},
         query : Queries \cup {None}, val : BOOLEAN, ifs : SUBSET Interfaces,
         i : Interfaces \cup {None}, ms : SUBSET Names,
         lists : SUBSET (Sites \X Objs), out : Bases, over : SUBSET Changes,
         cleared : BOOLEAN]

TypeOK ==
  /\ RegistryTypeOK
  /\ DOMAIN cache \subseteq {<<p>> : p \in Platforms} \cup ({"nodejs"} \X Hosts)
  /\ cache \in [DOMAIN cache -> [engine : Engines, revision : 0 .. revision]]
  /\ flags \in BOOLEAN
  /\ req \in [Requests -> Reqs]

\* An engine that counts as current misses no binding, but for those whose
\* exposure overlapped its build: with them it is stamped as current too,
\* because the stamp is the revision at the end of the build (763).
EngineComplete ==
  admin.pc \in {"idle", "flags"} =>
    \A k \in DOMAIN cache :
      ~MustBuild(cache[k]) =>
        \A x \in Sites :
          Real(reg[x]) => \/ <<x, reg[x].obj>> \in cache[k].engine.lists
                          \/ x \in cache[k].engine.over

\* An engine in the cache was built under the flags of now, unless they were
\* changed during its build: setting them clears every entry.
FlagsHonoured ==
  admin.pc # "flags" =>
    \A k \in DOMAIN cache :
      LET e == cache[k].engine
      IN e # NoEngine => e.val = flags \/ FlagsChange \in e.over

\* A client gets an engine that calls the host the client asked.
OwnHost ==
  \A r \in Requests :
    req[r].pc = "done" /\ req[r].out \notin {NoEngine.base, << >>} =>
      req[r].out[1] = ExternalUrl(req[r]).host

\* Without a ClearCache during the request no client gets an empty engine:
\* the cache is read again and again, and no build takes an engine away.
NeverEmpty ==
  \A r \in Requests :
    req[r].pc = "done" /\ req[r].out = NoEngine.base => req[r].cleared
=============================================================================
