----------------------------- MODULE MCDispatch -----------------------------
(***************************************************************************)
(* An instance of Dispatch for TLC: a table with a binding of each kind    *)
(* and the calls that take each way through serveHTTP.                     *)
(***************************************************************************)
EXTENDS Dispatch

B(kind, ps, fs, does, s) ==
  [kind |-> kind, params |-> ps, filters |-> fs, does |-> does, status |-> s]

MCTable ==
  [main |-> B("call", <<"session", "int", "binary", "string", "struct">>,
              << >>, "login", 200),
   private |-> B("call", <<"string">>, <<"pass", "login">>, "keep", 200),
   pair |-> B("call", <<"string", "string", "session", "string">>, << >>,
              "keep", 200),
   leave |-> B("call", <<"context">>, << >>, "logout", 403),
   proxy |-> B("remote", <<"bool">>, <<"visit">>, "keep", 200),
   page |-> B("handler", << >>, <<"visit">>, "keep", 200),
   never |-> B("call", << >>, <<"uninjectable">>, "keep", 200),
   broken |-> B("call", << >>, <<"visit", "panic">>, "keep", 200),
   blank |-> B("blank", << >>, << >>, "keep", 200)]

V(k, n) == [k |-> k, n |-> n]
MCValues ==
  {V("digits", 1), V("word", 1), V("word", 2), V("word", 3), V("object", 3),
   V("bool", 1)}

P(name, v) == [name |-> name, value |-> v]

Get(to, path, query) ==
  [to |-> to, path |-> path, query |-> query, parses |-> TRUE, json |-> FALSE,
   body |-> << >>, malformed |-> FALSE, method |-> "GET"]
Post(to, path, query, body) ==
  [Get(to, path, query) EXCEPT !.json = TRUE, !.body = body, !.method = "POST"]
Unparsable(c) == [c EXCEPT !.parses = FALSE]

\* The second one has one name twice and another between: the values of "p"
\* come together, before or after that of "q".  Of the two whose query does
\* not parse one has as many parameters as it needs without, one with.
MCCalls ==
  {Post("main", <<V("digits", 1)>>, <<P("p", V("word", 2))>>,
        <<V("object", 3)>>),
   Get("pair", << >>, <<P("p", V("word", 1)), P("q", V("word", 2)),
                        P("p", V("word", 3))>>),
   Get("private", << >>, <<P("p", V("word", 1))>>),
   Unparsable(Get("private", <<V("word", 1)>>, <<P("p", V("word", 2))>>)),
   Unparsable(Get("private", << >>, <<P("p", V("word", 2))>>)),
   [Post("private", << >>, << >>, << >>) EXCEPT !.malformed = TRUE],
   Get("leave", << >>, << >>), Post("proxy", << >>, << >>, <<V("bool", 1)>>),
   Get("page", << >>, << >>), Get("never", << >>, << >>),
   Get("broken", << >>, << >>), Get("blank", << >>, << >>),
   Get("engine", << >>, << >>), Get("nothing", << >>, << >>)}
=============================================================================
