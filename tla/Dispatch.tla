------------------------------ MODULE Dispatch ------------------------------
(***************************************************************************)
(* One HTTP request through Container.serveHTTP (frontend.go) and the      *)
(* binding it calls (backend.go, binding_types.go, filters.go): session    *)
(* from the cookie, parameters, filters, injections, conversions, the      *)
(* deferred flush of the session, the response.  Requests of several       *)
(* browsers run at once; a remote binding hands a request on through a     *)
(* proxy client (client.go) whose http.Client others may use as well.      *)
(*                                                                         *)
(* What is bound does not change here (Registry has that): Table gives for *)
(* each name the kind of its binding, its parameters, filters and what     *)
(* invoking it does.  A parameter is a value that has a kind and comes     *)
(* from one place of the request, so that no two are equal; a session is   *)
(* the set of facts it keeps, each about a browser.  CRID, MIME types and  *)
(* the bytes of a response are left out.                                   *)
(***************************************************************************)
EXTENDS Naturals, SequencesExt

CONSTANTS Requests,    \* goroutines, each serves one request
          Browsers,    \* each with its cookie
          Calls,       \* what is requested
          Values,      \* the parameters a request can have
          Table,       \* the bindings by name
          Statuses,    \* HTTP status codes
          Keys,        \* application keys
          BadKeys,     \* those AES refuses for their length
          Default,     \* http.DefaultClient; also what is injected by default
          OwnClient,   \* has each request a http.Client of its own?
          None

Filters == {"pass", "visit", "uninjectable", "panic", "login"}
Injected == {"context", "session", "binary"}
Types == Injected \cup {"string", "int", "bool", "struct"}

ASSUME DispatchAssumption ==
  /\ BadKeys \subseteq Keys /\ None \notin Keys
  /\ OwnClient \in BOOLEAN
  /\ None \notin Requests /\ Default \notin Requests
  /\ {200, 400, 403, 404, 500} \subseteq Statuses
  /\ \A n \in DOMAIN Table : /\ Table[n].status \in Statuses
                             /\ Table[n].filters \in Seq(Filters)
                             /\ Table[n].params \in Seq(Types)
  /\ Values \cap (Requests \cup {Default}) = {}
  /\ \A c \in Calls : /\ c.path \in Seq(Values) /\ c.body \in Seq(Values)
                       /\ c.query \in Seq([name : STRING, value : Values])
                       /\ c.parses \in BOOLEAN

VARIABLES key,     \* Container.key
          cookie,  \* the session cookie each browser holds
          jar,     \* http.Client.Jar: the request whose session it is
          req,     \* per goroutine: the request and where it stands
          logins   \* history: whom a login was granted, under which key

vars == <<key, cookie, jar, req, logins>>

NoCookie == [key |-> None, props |-> {}]

NoReq == [pc |-> "new", b |-> None, call |-> None, sess |-> {}, dirty |-> FALSE,
          args |-> << >>, f |-> 1, called |-> FALSE, sent |-> {},
          status |-> 200, committed |-> FALSE, out |-> NoCookie]

Binding(r) == Table[req[r].call.to]

\* The client a context has: with NewHTTPContext the default one, with the
\* constructor of the App Engine adapter one of its own.
ClientOf(r) == IF OwnClient THEN r ELSE Default

Init ==
  /\ key \in Keys
  /\ cookie = [b \in Browsers |-> NoCookie]
  /\ jar = [c \in Requests \cup {Default} |-> None]
  /\ req = [r \in Requests |-> NoReq]
  /\ logins = {}

\* HTTPContext.Session: any cookie that does not open gives a fresh session.
OpenSession(c) == IF c.key = key /\ key \notin BadKeys THEN c.props ELSE {}

Step(r, q) == req' = [req EXCEPT ![r] = q]

\* A panic: the recovering function answers with the context's ErrorStatus,
\* unless the handler or a filter has sent a status already.
Fail(r, s) == Step(r, [req[r] EXCEPT !.pc = "flush", !.status =
                         IF req[r].committed THEN @ ELSE s])

Arrive(r, b, c) ==
  /\ req[r].pc = "new"
  /\ Step(r, [NoReq EXCEPT !.pc = "route", !.b = b, !.call = c,
                           !.sess = OpenSession(cookie[b])])
  /\ UNCHANGED <<key, cookie, jar, logins>>

\* Mutant of NoContext: recovering needs the context there is not.
NoContextDies(r, b, c) ==
  /\ req[r].pc = "new"
  /\ Step(r, [NoReq EXCEPT !.pc = "died", !.b = b, !.call = c])
  /\ UNCHANGED <<key, cookie, jar, logins>>

\* The context constructor panics: there is no session to flush yet.
NoContext(r, b, c) ==
  /\ req[r].pc = "new"
  /\ Step(r, [NoReq EXCEPT !.pc = "respond", !.b = b, !.call = c,
                           !.status = 500])
  /\ UNCHANGED <<key, cookie, jar, logins>>

-----------------------------------------------------------------------------
(* Parameters and their conversion.                                        *)

\* Which of those outside X the i-th element of s is, if it is one.
Nth(s, X, i) == Cardinality({j \in 1 .. i : s[j] \notin X})

\* Those outside X, in their order.
Without(s, X) ==
  [n \in 1 .. Nth(s, X, Len(s)) |->
     s[CHOOSE i \in 1 .. Len(s) : s[i] \notin X /\ Nth(s, X, i) = n]]

JsonBody(c) == c.method = "POST" /\ c.json
BodyArgs(c) == IF JsonBody(c) THEN c.body ELSE << >>

\* Mutant of Query: the error of ParseQuery is not looked at.
QueryUnchecked(c) == c.query

\* url.ParseQuery: of a query with a part that does not parse nothing is
\* taken, and the call goes on without.
Query(c) == IF c.parses THEN c.query ELSE << >>

Names(q) == {p.name : p \in ToSet(q)}

\* url.Values[n]: the values of one name, in their order.
Named(q, n) ==
  LET ps == Without(q, {p \in ToSet(q) : p.name # n})
  IN [i \in 1 .. Len(ps) |-> ps[i].value]

\* From the path, from the query name by name, and from the body.  The names
\* come in the order a map has them in, that is in any.
Arguments(c) ==
  {c.path \o FlattenSeq([i \in DOMAIN ns |-> Named(Query(c), ns[i])])
     \o BodyArgs(c) : ns \in SetToSeqs(Names(Query(c)))}

\* convertParameterValue, with the converter for strings.
Converts(v, t) ==
  CASE t = "string" -> v.k # "null"
    [] t = "int" -> v.k \in {"digits", "number"}
    [] t = "bool" -> v.k = "bool"
    [] t = "struct" -> v.k = "object"

Plain(b) == Without(b.params, Injected)

\* What ValidationString is compared with.
ArgCount(b) == Len(Plain(b))

\* MergeInjections: what the request has goes before what is registered by
\* default; a GET request has no binary content.
Provided(r, t) ==
  IF t = "binary" /\ req[r].call.method = "GET" THEN Default ELSE r

\* callValuesI: each parameter is injected or takes the next argument.
CallValues(r) ==
  LET ps == Binding(r).params
  IN [i \in 1 .. Len(ps) |-> IF ps[i] \in Injected THEN Provided(r, ps[i])
                             ELSE req[r].args[Nth(ps, Injected, i)]]

Convertible(r) ==
  \A i \in 1 .. ArgCount(Binding(r)) :
    Converts(req[r].args[i], Plain(Binding(r))[i])

-----------------------------------------------------------------------------
(* serveHTTP, lines 1008-1060.                                             *)

\* To the engine, to a binding, or nowhere.  An entry that is still empty
\* has no signature, and a body that is no JSON array does not decode.
Route(r) ==
  LET c == req[r].call
  IN /\ req[r].pc = "route"
     /\ \/ /\ c.to \notin DOMAIN Table \cup {"engine"}
           /\ Fail(r, 404)
        \/ /\ c.to = "engine"
           /\ \/ Step(r, [req[r] EXCEPT !.pc = "flush"])
              \/ Fail(r, 500)
        \/ /\ c.to \in DOMAIN Table
           /\ \/ Binding(r).kind = "blank"
              \/ JsonBody(c) /\ c.malformed
           /\ Fail(r, 500)
        \/ /\ c.to \in DOMAIN Table
           /\ Binding(r).kind # "blank"
           /\ ~(JsonBody(c) /\ c.malformed)
           /\ \E a \in Arguments(c) :
                IF Len(a) # ArgCount(Binding(r)) THEN Fail(r, 400)
                ELSE Step(r, [req[r] EXCEPT !.pc = "invoke", !.args = a])
     /\ UNCHANGED <<key, cookie, jar, logins>>

\* What a filter makes of the request.  One that asks for a login sends 403
\* itself if there is none; AutoInjectF blocks what it cannot inject.
Filtered(r, f) ==
  LET q == [req[r] EXCEPT !.f = @ + 1]
      Blocked == [q EXCEPT !.pc = "flush"]
  IN CASE f = "pass" -> q
       [] f = "visit" -> [q EXCEPT !.sess = @ \cup {<<"visit", q.b>>},
                                   !.dirty = TRUE]
       [] f = "uninjectable" -> Blocked
       [] f = "panic" -> [Blocked EXCEPT !.status = 500]
       [] f = "login" -> IF <<"login", q.b>> \in q.sess THEN q
                         ELSE [Blocked EXCEPT !.status = 403,
                                              !.committed = TRUE]

\* Mutant of Filter: its answer is ignored.
FilterIgnored(r) ==
  /\ req[r].pc = "invoke" /\ req[r].f <= Len(Binding(r).filters)
  /\ Step(r, [Filtered(r, Binding(r).filters[req[r].f]) EXCEPT !.pc = "invoke"])
  /\ UNCHANGED <<key, cookie, jar, logins>>

Filter(r) ==
  /\ req[r].pc = "invoke" /\ req[r].f <= Len(Binding(r).filters)
  /\ Step(r, Filtered(r, Binding(r).filters[req[r].f]))
  /\ UNCHANGED <<key, cookie, jar, logins>>

Invokes(r, kind) ==
  /\ req[r].pc = "invoke" /\ req[r].f > Len(Binding(r).filters)
  /\ Binding(r).kind = kind

\* The session after a function that logs the user in or out.
After(r, does) ==
  CASE does = "login" -> req[r].sess \cup {<<"login", req[r].b>>}
    [] does = "logout" -> req[r].sess \ {<<"login", req[r].b>>}
    [] OTHER -> req[r].sess

\* A function, method or attribute: it returns, or ends in Errorf or a panic
\* after what it did to the session.
InvokeCall(r) ==
  LET b == Binding(r)
  IN /\ Invokes(r, "call")
     /\ IF Convertible(r)
        THEN /\ Step(r, [req[r] EXCEPT !.pc = "flush", !.called = TRUE,
                                       !.sess = After(r, b.does),
                                       !.dirty = @ \/ b.does # "keep",
                                       !.status = b.status])
             /\ logins' = IF b.does = "login"
                          THEN logins \cup {<<req[r].b, key>>} ELSE logins
        ELSE Fail(r, 500) /\ UNCHANGED logins
     /\ UNCHANGED <<key, cookie, jar>>

\* A http.Handler writes the response itself, or nothing at all.
InvokeHandler(r) ==
  /\ Invokes(r, "handler")
  /\ \E w \in BOOLEAN :
       Step(r, [req[r] EXCEPT !.pc = "flush", !.committed = w,
                              !.status = IF w THEN @ ELSE Binding(r).status])
  /\ UNCHANGED <<key, cookie, jar, logins>>

\* A remote binding: NewProxyClient makes the session the client's jar.
InvokeRemote(r) ==
  /\ Invokes(r, "remote")
  /\ jar' = [jar EXCEPT ![ClientOf(r)] = r]
  /\ Step(r, [req[r] EXCEPT !.pc = "send"])
  /\ UNCHANGED <<key, cookie, logins>>

Owner(r) == jar[ClientOf(r)]

\* The session in the jar is sent as cookies.
Send(r) ==
  /\ req[r].pc = "send"
  /\ Step(r, [req[r] EXCEPT !.pc = "receive", !.sent = req[Owner(r)].sess])
  /\ UNCHANGED <<key, cookie, jar, logins>>

\* The remote side's cookies go into the jar; its error is ours.
Receive(r) ==
  /\ req[r].pc = "receive"
  /\ \E set, ok \in BOOLEAN :
       LET news == {<<"remote", p[2]>> : p \in req[r].sent}
                     \cup {<<"remote", req[r].b>>}
           stored == IF set
                     THEN [req EXCEPT ![Owner(r)].sess = @ \cup news,
                                      ![Owner(r)].dirty = TRUE]
                     ELSE req
       IN req' = [stored EXCEPT ![r].pc = "flush",
                                ![r].status = IF ok THEN 200 ELSE 500]
  /\ UNCHANGED <<key, cookie, jar, logins>>

-----------------------------------------------------------------------------
(* The deferred calls and the response.                                    *)

\* Mutant of Flush: the session is flushed after success only.
FlushOnSuccess(r) ==
  LET q == req[r]
  IN /\ q.pc = "flush"
     /\ IF q.dirty /\ q.status = 200 /\ key \in BadKeys THEN
          Step(r, [q EXCEPT !.pc = "respond",
                            !.status = IF q.committed THEN @ ELSE 500])
        ELSE Step(r, [q EXCEPT !.pc = "respond", !.out =
                        IF q.dirty /\ q.status = 200 /\ ~q.committed
                        THEN [key |-> key, props |-> q.sess] ELSE NoCookie])
     /\ UNCHANGED <<key, cookie, jar, logins>>

\* Mutant of Flush: any key is taken to work.
FlushAnyKey(r) ==
  LET q == req[r]
  IN /\ q.pc = "flush"
     /\ Step(r, [q EXCEPT !.pc = "respond", !.out =
                   IF q.dirty /\ ~q.committed
                   THEN [key |-> key, props |-> q.sess] ELSE NoCookie])
     /\ UNCHANGED <<key, cookie, jar, logins>>

\* session.Flush sets the cookie if the session changed, in whatever way the
\* request ended; with a bad key it panics.  A header set after the response
\* was begun is lost.
Flush(r) ==
  LET q == req[r]
  IN /\ q.pc = "flush"
     /\ IF q.dirty /\ key \in BadKeys THEN
          Step(r, [q EXCEPT !.pc = "respond", !.status =
                     IF q.committed \/ q.status # 200 THEN @ ELSE 500])
        ELSE Step(r, [q EXCEPT !.pc = "respond", !.out =
                        IF q.dirty /\ ~q.committed
                        THEN [key |-> key, props |-> q.sess] ELSE NoCookie])
     /\ UNCHANGED <<key, cookie, jar, logins>>

\* The response reaches the browser.
Respond(r) ==
  /\ req[r].pc = "respond"
  /\ Step(r, [req[r] EXCEPT !.pc = "done"])
  /\ cookie' = IF req[r].out = NoCookie THEN cookie
               ELSE [cookie EXCEPT ![req[r].b] = req[r].out]
  /\ UNCHANGED <<key, jar, logins>>

\* The process starts again, with a key that is configured or made up, and
\* with none of the requests it served.
Restart ==
  /\ key' \in Keys
  /\ req' = [r \in Requests |-> IF req[r].pc \in {"new", "done"} THEN req[r]
                                ELSE [NoReq EXCEPT !.pc = "lost"]]
  /\ jar' = [c \in DOMAIN jar |-> None]
  /\ UNCHANGED <<cookie, logins>>

Serve(r) ==
  \/ Route(r) \/ Filter(r)
  \/ InvokeCall(r) \/ InvokeHandler(r) \/ InvokeRemote(r)
  \/ Send(r) \/ Receive(r) \/ Flush(r) \/ Respond(r)

Next ==
  \/ \E r \in Requests, b \in Browsers, c \in Calls :
       Arrive(r, b, c) \/ NoContext(r, b, c)
  \/ \E r \in Requests : Serve(r)
  \/ Restart

Spec == Init /\ [][Next]_vars
FairSpec == Spec /\ \A r \in Requests : WF_vars(Serve(r))

-----------------------------------------------------------------------------
Pcs == {"new", "route", "invoke", "send", "receive", "flush", "respond",
        "done", "lost"}
Facts == {"login", "visit", "remote"} \X Browsers
Cookies == {NoCookie} \cup [key : Keys \ BadKeys, props : SUBSET Facts]

Reqs == [pc : Pcs, b : Browsers \cup {None}, call : Calls \cup {None},
         sess : SUBSET Facts, dirty : BOOLEAN,
         args : {<< >>} \cup UNION {Arguments(c) : c \in Calls},
         f : Nat \ {0}, called : BOOLEAN, sent : SUBSET Facts,
         status : Statuses, committed : BOOLEAN, out : Cookies]

\* Types; a cookie is only ever made with a key that works.
TypeOK ==
  /\ key \in Keys
  /\ cookie \in [Browsers -> Cookies]
  /\ jar \in [Requests \cup {Default} -> Requests \cup {None}]
  /\ logins \subseteq Browsers \X Keys
  /\ req \in [Requests -> Reqs]
  /\ \A r \in Requests :
       /\ req[r].pc \notin {"new", "lost"} =>
            req[r].b \in Browsers /\ req[r].call \in Calls
       /\ req[r].pc \in {"invoke", "send", "receive"} =>
            req[r].call.to \in DOMAIN Table
       /\ req[r].pc \in {"send", "receive"} => jar[ClientOf(r)] # None

\* The parameters of a call that are not injected.
Passed(r) == Without(CallValues(r), Requests \cup {Default})

\* A bound function gets the parameters of its request: path before query
\* before body, path and body in their order, of the query the values of one
\* name next to each other and in their order, nothing of a query that does
\* not parse, each at a parameter it converts to, and at the injected ones
\* the objects of this request and of no other.  The order among the names
\* of a query is left open here; InGivenOrder is about it.
InvokedAsAsked ==
  \A r \in Requests :
    req[r].called =>
      LET c == req[r].call
          ps == Binding(r).params
          got == CallValues(r)
          plain == Passed(r)
          Whole(s) == \E i \in 0 .. Len(plain) - Len(s) :
                        SubSeq(plain, i + 1, i + Len(s)) = s
      IN /\ IsPrefix(c.path, plain) /\ IsSuffix(BodyArgs(c), plain)
         /\ IF c.parses THEN \A n \in Names(c.query) : Whole(Named(c.query, n))
            ELSE plain = c.path \o BodyArgs(c)
         /\ \A i \in 1 .. Len(ps) :
              CASE ps[i] = "binary" -> got[i] \in {r, Default}
                [] ps[i] \in Injected \ {"binary"} -> got[i] = r
                [] OTHER -> got[i] \notin Requests \cup {Default}
                            /\ Converts(got[i], ps[i])

\* What the comment of serveHTTP says: a binding that is called by GET gets
\* the url-parameters in the given order, whatever their names.  The code
\* takes them name by name from a map.
InGivenOrder ==
  \A r \in Requests :
    LET c == req[r].call
    IN req[r].called /\ c.method = "GET" /\ c.parses =>
         Passed(r) = c.path \o [i \in DOMAIN c.query |-> c.query[i].value]

\* What the comment of Session says: a session is one user's.  Nothing that
\* one user's session holds gets into the session of a request of another
\* user, with its cookies to a remote side in his name, or into his browser.
\* So it is with a http.Client for each context; NewHTTPContext gives all of
\* them http.DefaultClient, and NewProxyClient changes its jar.
SessionsStaySeparate ==
  /\ \A r \in Requests : \A p \in req[r].sess \cup req[r].sent \cup req[r].out.props :
       p[2] = req[r].b
  /\ \A b \in Browsers : \A p \in cookie[b].props : p[2] = b

\* A change of the session reaches the browser with the response, in the
\* state the session has by then and also if the request failed after it;
\* it is lost only if the key does not work or the response was begun before.
\* With a client that others use, too, a remote answer to one of them may
\* change the session after the flush: then it does not hold.
CookieFollowsChange ==
  [][\A r \in Requests :
       /\ req[r].pc = "respond" /\ req'[r].pc = "done"
       /\ req[r].dirty /\ ~req[r].committed /\ key \notin BadKeys
       => cookie'[req[r].b] = [key |-> key, props |-> req[r].sess]]_vars

\* A function behind a filter that asks for a login runs only for a browser
\* to which a login was granted under the key of now: the filter's refusal
\* stands, a cookie of an older key does not open, and a remote answer that
\* gets into the wrong session makes no login.
PrivateAfterLogin ==
  \A r \in Requests :
    req[r].called /\ req[r].pc = "flush"
      /\ Contains(Binding(r).filters, "login") =>
        <<req[r].b, key>> \in logins

\* Every request that is accepted is answered, unless the process restarts:
\* panics of the context constructor, of filters, functions and of the flush
\* included.  The remote side is assumed to answer or to fail.
Answered ==
  \A r \in Requests : req[r].pc # "new" ~> req[r].pc \in {"done", "lost"}
=============================================================================
