--------------------------- MODULE DispatchProofs ---------------------------
(***************************************************************************)
(* Proofs about Dispatch, for any number of requests and browsers, any     *)
(* table of bindings and any restarts: types, logins before what is        *)
(* private, cookies that follow the session, functions that get the        *)
(* parameters of their request.                                            *)
(***************************************************************************)
EXTENDS Dispatch, TLAPS, FiniteSetTheorems, WellFoundedInduction

\* Before the bound function has run.
Early == {"route", "invoke", "send", "receive"}

\* Types, and what a request has not done yet.
Typed ==
  /\ TypeOK
  /\ \A r \in Requests :
       /\ req[r].pc \in Early => ~req[r].called
       /\ req[r].pc \in Early \cup {"flush"} => req[r].out = NoCookie
       /\ req[r].pc = "route" => req[r].f = 1

\* What stays: of every step, and of one that does not touch the session.
SameRequest(q, p) == q.b = p.b /\ q.call = p.call
SameCall(q, p) == SameRequest(q, p) /\ q.args = p.args
Moved(q, p) == /\ SameRequest(q, p) /\ q.sess = p.sess /\ q.sent = p.sent
               /\ q.out = p.out /\ q.called = p.called
Kept(q, p) == Moved(q, p) /\ q.args = p.args

LEMMA Codes == {200, 400, 403, 404, 500} \subseteq Statuses
  BY DispatchAssumption DEF DispatchAssumption

LEMMA NoReqTyped ==
  /\ NoReq \in Reqs /\ NoReq.pc = "new" /\ NoReq.sess = {} /\ NoReq.sent = {}
  /\ NoReq.out = NoCookie /\ ~NoReq.called /\ NoReq.f = 1 /\ ~NoReq.dirty
<1>1. NoCookie \in Cookies
  BY DEF Cookies
<1>2. /\ NoReq.pc = "new" /\ NoReq.sess = {} /\ NoReq.sent = {}
      /\ NoReq.out = NoCookie /\ ~NoReq.called /\ NoReq.f = 1
      /\ ~NoReq.dirty
  BY DEF NoReq
<1>3. 200 \in Statuses
  BY Codes
<1>4. NoReq \in Reqs
  BY <1>1, <1>3 DEF NoReq, Reqs, Pcs
<1> QED BY <1>2, <1>4

-----------------------------------------------------------------------------
(* The steps of a request, field by field.                                 *)

LEMMA SessionTyped ==
  ASSUME TypeOK, NEW b \in Browsers
  PROVE  OpenSession(cookie[b]) \in SUBSET Facts
<1>1. cookie[b] \in Cookies
  BY DEF TypeOK
<1> QED BY <1>1 DEF OpenSession, Cookies, NoCookie

LEMMA ArriveStep ==
  ASSUME TypeOK, NEW r \in Requests, NEW b \in Browsers, NEW c \in Calls, Arrive(r, b, c)
  PROVE  \E q \in Reqs : /\ Step(r, q) /\ q.pc = "route" /\ q.b = b /\ q.call = c
                         /\ q.sess = OpenSession(cookie[b]) /\ q.sent = {}
                         /\ q.out = NoCookie /\ ~q.called /\ q.f = 1
<1>1. PICK n \in Reqs : n = NoReq
  BY NoReqTyped
<1> DEFINE s == OpenSession(cookie[b])
           q == [n EXCEPT !.pc = "route", !.b = b, !.call = c, !.sess = s]
<1>2. s \in SUBSET Facts
  BY SessionTyped
<1>3. Step(r, q)
  BY <1>1 DEF Arrive
<1> HIDE DEF s
<1>4. q \in Reqs
  BY <1>2 DEF Reqs, Pcs
<1>5. /\ q.pc = "route" /\ q.b = b /\ q.call = c /\ q.sess = s /\ q.sent = n.sent
      /\ q.out = n.out /\ q.called = n.called /\ q.f = n.f
  BY DEF Reqs
<1> HIDE DEF q
<1> QED BY <1>1, <1>3, <1>4, <1>5, NoReqTyped DEF s

LEMMA NoContextStep ==
  ASSUME NEW r \in Requests, NEW b \in Browsers, NEW c \in Calls, NoContext(r, b, c)
  PROVE  \E q \in Reqs : /\ Step(r, q) /\ q.pc = "respond" /\ q.b = b /\ q.call = c
                         /\ q.sess = {} /\ q.sent = {} /\ ~q.dirty
                         /\ q.out = NoCookie /\ ~q.called
<1>1. PICK n \in Reqs : n = NoReq
  BY NoReqTyped
<1>2. PICK s \in Statuses : s = 500
  BY Codes
<1> DEFINE q == [n EXCEPT !.pc = "respond", !.b = b, !.call = c, !.status = s]
<1>3. Step(r, q)
  BY <1>1, <1>2 DEF NoContext
<1>4. q \in Reqs
  BY DEF Reqs, Pcs
<1>5. /\ q.pc = "respond" /\ q.b = b /\ q.call = c /\ q.sess = n.sess
      /\ q.sent = n.sent /\ q.out = n.out /\ q.called = n.called /\ q.dirty = n.dirty
  BY DEF Reqs
<1> HIDE DEF q
<1> QED BY <1>1, <1>3, <1>4, <1>5, NoReqTyped

LEMMA FailStep ==
  ASSUME TypeOK, NEW r \in Requests, NEW s \in Statuses, Fail(r, s)
  PROVE  \E q \in Reqs : Step(r, q) /\ q.pc = "flush" /\ Kept(q, req[r])
<1>1. PICK p \in Reqs : p = req[r]
  BY DEF TypeOK
<1> DEFINE t == IF p.committed THEN p.status ELSE s
           q == [p EXCEPT !.pc = "flush", !.status = t]
<1>2. t \in Statuses
  BY DEF Reqs
<1>3. Step(r, q)
  BY <1>1, Zenon DEF Fail
<1> HIDE DEF t
<1>4. q \in Reqs
  BY <1>2 DEF Reqs, Pcs
<1>5. q.pc = "flush" /\ Kept(q, p)
  BY DEF Reqs, Kept, Moved, SameCall, SameRequest
<1> HIDE DEF q
<1> QED BY <1>1, <1>3, <1>4, <1>5

LEMMA PcStep ==
  ASSUME NEW p \in Reqs, NEW s \in Pcs
  PROVE  LET q == [p EXCEPT !.pc = s]
         IN /\ q \in Reqs /\ q.pc = s /\ Kept(q, p)
            /\ q.dirty = p.dirty /\ q.committed = p.committed
  BY DEF Reqs, Kept, Moved, SameCall, SameRequest

LEMMA RouteStep ==
  ASSUME TypeOK, NEW r \in Requests, Route(r)
  PROVE  \E q \in Reqs :
           /\ Step(r, q) /\ Moved(q, req[r]) /\ req[r].pc = "route"
           /\ \/ q.pc = "flush"
              \/ /\ q.pc = "invoke" /\ q.call.to \in DOMAIN Table /\ q.f = req[r].f
                 /\ q.args \in Arguments(q.call)
                 /\ Len(q.args) = ArgCount(Table[q.call.to])
<1>1. PICK p \in Reqs : p = req[r]
  BY DEF TypeOK
<1>2. req[r].pc = "route" /\ p.call \in Calls
  BY <1>1 DEF Route, TypeOK
<1>3. ASSUME NEW s \in {404, 500, 400}, Fail(r, s)
      PROVE  \E q \in Reqs : Step(r, q) /\ q.pc = "flush" /\ Moved(q, req[r])
  BY <1>3, FailStep, Codes DEF Kept
<1>4. CASE Step(r, [req[r] EXCEPT !.pc = "flush"])
  <2> DEFINE q == [p EXCEPT !.pc = "flush"]
  <2>1. q \in Reqs /\ q.pc = "flush" /\ Moved(q, p)
    BY PcStep DEF Pcs, Kept
  <2>2. Step(r, q)
    BY <1>1, <1>4
  <2> HIDE DEF q
  <2> QED BY <1>1, <1>2, <2>1, <2>2
<1>5. ASSUME req[r].call.to \in DOMAIN Table, NEW a \in Arguments(req[r].call),
             Len(a) = ArgCount(Binding(r)),
             Step(r, [req[r] EXCEPT !.pc = "invoke", !.args = a])
      PROVE  \E q \in Reqs :
               /\ Step(r, q) /\ Moved(q, req[r])
               /\ q.pc = "invoke" /\ q.call.to \in DOMAIN Table /\ q.f = req[r].f
               /\ q.args \in Arguments(q.call)
               /\ Len(q.args) = ArgCount(Table[q.call.to])
  <2> DEFINE q == [p EXCEPT !.pc = "invoke", !.args = a]
  <2>1. a \in {<< >>} \cup UNION {Arguments(c) : c \in Calls}
    BY <1>1, <1>2, <1>5
  <2>2. q \in Reqs
    BY <2>1 DEF Reqs, Pcs
  <2>3. /\ q.pc = "invoke" /\ Moved(q, p) /\ q.call = p.call /\ q.f = p.f
        /\ q.args = a
    BY DEF Reqs, Moved, SameRequest
  <2>4. Step(r, q)
    BY <1>1, <1>5
  <2> HIDE DEF q
  <2> QED BY <1>1, <1>5, <2>2, <2>3, <2>4 DEF Binding
<1> DEFINE fl == [req[r] EXCEPT !.pc = "flush"]
           go(a) == [req[r] EXCEPT !.pc = "invoke", !.args = a]
<1>6. \/ Fail(r, 404) \/ Fail(r, 500) \/ Step(r, fl)
      \/ /\ req[r].call.to \in DOMAIN Table
         /\ \E a \in Arguments(req[r].call) :
              IF Len(a) # ArgCount(Binding(r)) THEN Fail(r, 400) ELSE Step(r, go(a))
  BY DEF Route
<1>7. \/ Fail(r, 404) \/ Fail(r, 500) \/ Fail(r, 400) \/ Step(r, fl)
      \/ /\ req[r].call.to \in DOMAIN Table
         /\ \E a \in Arguments(req[r].call) :
              Len(a) = ArgCount(Binding(r)) /\ Step(r, go(a))
  <2> HIDE DEF fl, go
  <2> QED BY <1>6
<1>8. CASE Fail(r, 404) \/ Fail(r, 500) \/ Fail(r, 400)
  <2>1. \E q \in Reqs : Step(r, q) /\ q.pc = "flush" /\ Moved(q, req[r])
    BY <1>3, <1>8
  <2> QED BY <1>2, <2>1
<1>9. CASE Step(r, fl)
  BY <1>4, <1>9
<1>10. CASE /\ req[r].call.to \in DOMAIN Table
            /\ \E a \in Arguments(req[r].call) :
                 Len(a) = ArgCount(Binding(r)) /\ Step(r, go(a))
  <2>1. \E q \in Reqs :
          /\ Step(r, q) /\ Moved(q, req[r])
          /\ q.pc = "invoke" /\ q.call.to \in DOMAIN Table /\ q.f = req[r].f
          /\ q.args \in Arguments(q.call)
          /\ Len(q.args) = ArgCount(Table[q.call.to])
    BY <1>5, <1>10
  <2> QED BY <1>2, <2>1
<1> QED BY <1>7, <1>8, <1>9, <1>10

LEMMA FilterStep ==
  ASSUME TypeOK, NEW r \in Requests, Filter(r)
  PROVE  \E q \in Reqs :
           /\ Step(r, q) /\ SameCall(q, req[r]) /\ req[r].pc = "invoke"
           /\ q.sent = req[r].sent /\ q.out = req[r].out /\ q.called = req[r].called
           /\ q.sess \in {req[r].sess, req[r].sess \cup {<<"visit", req[r].b>>}}
           /\ \/ q.pc = "flush"
              \/ /\ q.pc = "invoke" /\ q.f = req[r].f + 1
                 /\ Binding(r).filters[req[r].f] = "login" =>
                      <<"login", req[r].b>> \in req[r].sess
<1>1. PICK p \in Reqs : p = req[r]
  BY DEF TypeOK
<1>2. /\ p.pc = "invoke" /\ p.b \in Browsers /\ p.call \in Calls
      /\ p.call.to \in DOMAIN Table
  BY <1>1 DEF Filter, TypeOK
<1>3. PICK f \in Filters : f = Binding(r).filters[req[r].f]
  <2>1. Binding(r).filters \in Seq(Filters)
    BY <1>1, <1>2, DispatchAssumption DEF DispatchAssumption, Binding
  <2>2. p.f \in Nat \ {0} /\ p.f <= Len(Binding(r).filters)
    BY <1>1 DEF Reqs, Filter
  <2>3. p.f \in 1 .. Len(Binding(r).filters)
    BY <2>1, <2>2
  <2> QED BY <1>1, <2>1, <2>3
<1> DEFINE g == p.f + 1
           q == [p EXCEPT !.f = g]
<1>4. g \in Nat \ {0}
  BY DEF Reqs
<1> HIDE DEF g
<1>5. q \in Reqs
  BY <1>4 DEF Reqs
<1>6. /\ Kept(q, p) /\ q.f = g /\ q.pc = p.pc /\ q.status = p.status
      /\ q.committed = p.committed /\ q.b = p.b
  BY DEF Reqs, Kept, Moved, SameCall, SameRequest
<1>7. Step(r, CASE f = "pass" -> q
       [] f = "visit" -> [q EXCEPT !.sess = q.sess \cup {<<"visit", q.b>>},
                                   !.dirty = TRUE]
       [] f = "uninjectable" -> [q EXCEPT !.pc = "flush"]
       [] f = "panic" -> [[q EXCEPT !.pc = "flush"] EXCEPT !.status = 500]
       [] f = "login" -> IF <<"login", q.b>> \in q.sess THEN q
                         ELSE [[q EXCEPT !.pc = "flush"] EXCEPT !.status = 403,
                                              !.committed = TRUE])
  BY <1>1, <1>3 DEF Filter, Filtered, g
<1> HIDE DEF q
<1>8. q \in Reqs /\ q.sess \in SUBSET Facts /\ <<"visit", q.b>> \in Facts
  BY <1>2, <1>5, <1>6 DEF Reqs, Facts
<1>9. ASSUME Step(r, q), f = "login" => <<"login", q.b>> \in q.sess
      PROVE  \E d \in Reqs : /\ Step(r, d) /\ Kept(d, p) /\ d.pc = "invoke" /\ d.f = g
                             /\ f = "login" => <<"login", p.b>> \in p.sess
  BY <1>2, <1>6, <1>8, <1>9 DEF Kept, Moved, SameCall
<1>10. CASE f = "pass"
  BY <1>1, <1>2, <1>3, <1>7, <1>9, <1>10 DEF Kept, Moved, SameCall, SameRequest, g
<1>11. CASE f = "visit"
  <2> DEFINE S == q.sess \cup {<<"visit", q.b>>}
             d == [q EXCEPT !.sess = S, !.dirty = TRUE]
  <2>1. Step(r, d)
    BY <1>7, <1>11
  <2>2. S \in SUBSET Facts
    BY <1>8
  <2>3. S = p.sess \cup {<<"visit", p.b>>}
    BY <1>6 DEF Kept, Moved, SameCall
  <2> HIDE DEF S
  <2>4. d \in Reqs
    BY <1>8, <2>2 DEF Reqs
  <2>5. /\ SameCall(d, q) /\ d.sent = q.sent /\ d.out = q.out /\ d.called = q.called
        /\ d.sess = S /\ d.pc = q.pc /\ d.f = q.f
    BY <1>8 DEF Reqs, SameCall, SameRequest
  <2> HIDE DEF d
  <2> QED BY <1>1, <1>2, <1>3, <1>6, <1>11, <2>1, <2>3, <2>4, <2>5
          DEF Kept, Moved, SameCall, SameRequest, g
<1>12. ASSUME NEW d \in Reqs, Step(r, d), d.pc = "flush", Kept(d, q)
       PROVE  \E z \in Reqs : Step(r, z) /\ z.pc = "flush" /\ Kept(z, p)
  BY <1>6, <1>12 DEF Kept, Moved, SameCall, SameRequest
<1>13. [q EXCEPT !.pc = "flush"] \in Reqs /\ Kept([q EXCEPT !.pc = "flush"], q)
        /\ [q EXCEPT !.pc = "flush"].pc = "flush"
  BY <1>8, PcStep DEF Pcs
<1>14. CASE f = "uninjectable"
  <2>1. Step(r, [q EXCEPT !.pc = "flush"])
    BY <1>7, <1>14
  <2> QED BY <1>1, <1>2, <1>12, <1>13, <2>1 DEF Kept, Moved, SameCall
<1> DEFINE z == [q EXCEPT !.pc = "flush"]
<1>15. z \in Reqs /\ Kept(z, q) /\ z.pc = "flush"
  BY <1>13
<1>16. CASE f = "panic"
  <2> DEFINE d == [z EXCEPT !.status = 500]
  <2>1. Step(r, d)
    BY <1>7, <1>16
  <2> HIDE DEF z
  <2>2. d \in Reqs
    BY <1>15, Codes DEF Reqs
  <2>3. d.pc = z.pc /\ Kept(d, z)
    BY <1>15 DEF Reqs, Kept, Moved, SameCall, SameRequest
  <2> HIDE DEF d
  <2>4. Kept(d, q)
    BY <1>15, <2>3 DEF Kept, Moved, SameCall, SameRequest
  <2> QED BY <1>1, <1>2, <1>12, <1>15, <2>1, <2>2, <2>3, <2>4 DEF Kept, Moved, SameCall
<1>17. CASE f = "login" /\ <<"login", q.b>> \in q.sess
  <2>1. Step(r, q)
    BY <1>7, <1>17
  <2> QED BY <1>1, <1>2, <1>3, <1>9, <1>17, <2>1 DEF Kept, Moved, SameCall, SameRequest, g
<1>18. CASE f = "login" /\ <<"login", q.b>> \notin q.sess
  <2>0. PICK y \in Reqs : y = z
    BY <1>15
  <2>5. PICK s \in Statuses : s = 403
    BY Codes
  <2> DEFINE d == [y EXCEPT !.status = s, !.committed = TRUE]
  <2>1. Step(r, d)
    BY <1>7, <1>18, <2>0, <2>5
  <2>2. d \in Reqs
    BY DEF Reqs
  <2>6. d.pc = y.pc /\ Kept(d, y)
    BY DEF Reqs, Kept, Moved, SameCall, SameRequest
  <2> HIDE DEF d, z
  <2>3. d.pc = z.pc /\ Kept(d, z)
    BY <2>0, <2>6
  <2>4. Kept(d, q)
    BY <1>15, <2>3 DEF Kept, Moved, SameCall, SameRequest
  <2> QED BY <1>1, <1>2, <1>12, <1>15, <2>1, <2>2, <2>3, <2>4 DEF Kept, Moved, SameCall
<1> QED BY <1>3, <1>10, <1>11, <1>14, <1>16, <1>17, <1>18 DEF Filters

LEMMA Invoking ==
  ASSUME TypeOK, NEW r \in Requests, NEW kind, Invokes(r, kind)
  PROVE  /\ req[r].pc = "invoke" /\ req[r].f > Len(Binding(r).filters)
         /\ Binding(r).status \in Statuses
  BY DispatchAssumption DEF DispatchAssumption, Invokes, Binding, TypeOK

LEMMA CallStep ==
  ASSUME TypeOK, NEW r \in Requests, InvokeCall(r)
  PROVE  /\ req[r].pc = "invoke" /\ req[r].f > Len(Binding(r).filters)
         /\ \/ /\ \E q \in Reqs : /\ Step(r, q) /\ q.pc = "flush" /\ Kept(q, req[r])
               /\ logins' = logins
            \/ /\ \E q \in Reqs : \E d :
                    /\ Step(r, q) /\ q.pc = "flush" /\ SameCall(q, req[r])
                    /\ q.sess = After(r, d) /\ Convertible(r)
                    /\ q.sent = req[r].sent /\ q.out = req[r].out
                    /\ logins' = IF d = "login" THEN logins \cup {<<req[r].b, key>>}
                                 ELSE logins
<1>1. PICK p \in Reqs : p = req[r]
  BY DEF TypeOK
<1>2. /\ req[r].pc = "invoke" /\ req[r].f > Len(Binding(r).filters)
      /\ Binding(r).status \in Statuses
  BY Invoking DEF InvokeCall
<1>3. CASE Convertible(r)
  <2> DEFINE d == Binding(r).does
             S == After(r, d)
             t == p.dirty \/ d # "keep"
             u == Binding(r).status
             q == [p EXCEPT !.pc = "flush", !.called = TRUE, !.sess = S,
                            !.dirty = t, !.status = u]
  <2>1. Step(r, q)
    BY <1>1, <1>3, Zenon DEF InvokeCall
  <2>2. logins' = IF d = "login" THEN logins \cup {<<req[r].b, key>>} ELSE logins
    BY <1>3 DEF InvokeCall
  <2>3. S \in SUBSET Facts
    <3>1. p.sess \in SUBSET Facts /\ p.b \in Browsers
      BY <1>1, <1>2 DEF Reqs, TypeOK
    <3> QED BY <1>1, <3>1 DEF After, Facts
  <2>4. t \in BOOLEAN /\ u \in Statuses
    BY <1>2
  <2> HIDE DEF S, t, u
  <2>5. q \in Reqs
    BY <2>3, <2>4 DEF Reqs, Pcs
  <2>6. /\ q.pc = "flush" /\ SameCall(q, p) /\ q.sess = S
        /\ q.sent = p.sent /\ q.out = p.out
    BY DEF Reqs, SameCall, SameRequest
  <2> HIDE DEF q
  <2> QED BY <1>1, <1>2, <1>3, <2>1, <2>2, <2>5, <2>6 DEF S
<1>4. CASE ~Convertible(r)
  <2>1. Fail(r, 500) /\ logins' = logins
    BY <1>4 DEF InvokeCall
  <2>2. 500 \in Statuses
    BY Codes
  <2> QED BY <1>2, <2>1, <2>2, FailStep
<1> QED BY <1>3, <1>4

LEMMA HandlerStep ==
  ASSUME TypeOK, NEW r \in Requests, InvokeHandler(r)
  PROVE  /\ req[r].pc = "invoke"
         /\ \E q \in Reqs : Step(r, q) /\ q.pc = "flush" /\ Kept(q, req[r])
<1>1. PICK p \in Reqs : p = req[r]
  BY DEF TypeOK
<1>2. req[r].pc = "invoke" /\ Binding(r).status \in Statuses
  BY Invoking DEF InvokeHandler
<1>3. PICK w \in BOOLEAN :
       Step(r, [p EXCEPT !.pc = "flush", !.committed = w,
                         !.status = IF w THEN p.status ELSE Binding(r).status])
  BY <1>1 DEF InvokeHandler
<1> DEFINE u == IF w THEN p.status ELSE Binding(r).status
           q == [p EXCEPT !.pc = "flush", !.committed = w, !.status = u]
<1>4. u \in Statuses
  BY <1>2 DEF Reqs
<1>5. Step(r, q)
  BY <1>3
<1> HIDE DEF u
<1>6. q \in Reqs
  BY <1>4 DEF Reqs, Pcs
<1>7. q.pc = "flush" /\ Kept(q, p)
  BY DEF Reqs, Kept, Moved, SameCall, SameRequest
<1> HIDE DEF q
<1> QED BY <1>1, <1>2, <1>5, <1>6, <1>7

LEMMA RemoteStep ==
  ASSUME TypeOK, NEW r \in Requests, InvokeRemote(r)
  PROVE  /\ req[r].pc = "invoke"
         /\ \E q \in Reqs : Step(r, q) /\ q.pc = "send" /\ Kept(q, req[r])
<1>1. PICK p \in Reqs : p = req[r]
  BY DEF TypeOK
<1> DEFINE q == [p EXCEPT !.pc = "send"]
<1>2. Step(r, q) /\ req[r].pc = "invoke"
  BY <1>1 DEF InvokeRemote, Invokes
<1>3. q \in Reqs /\ q.pc = "send" /\ Kept(q, p)
  BY PcStep DEF Pcs
<1> HIDE DEF q
<1> QED BY <1>1, <1>2, <1>3

LEMMA OwnerThere ==
  ASSUME TypeOK, NEW r \in Requests, req[r].pc \in {"send", "receive"}
  PROVE  Owner(r) \in Requests
<1>1. jar[ClientOf(r)] # None /\ ClientOf(r) \in Requests \cup {Default}
  BY DEF TypeOK, ClientOf
<1> QED BY <1>1 DEF TypeOK, Owner

LEMMA SendStep ==
  ASSUME TypeOK, NEW r \in Requests, Send(r)
  PROVE  /\ req[r].pc = "send"
         /\ \E q \in Reqs : /\ Step(r, q) /\ q.pc = "receive" /\ SameCall(q, req[r])
                            /\ q.sess = req[r].sess /\ q.out = req[r].out
                            /\ q.called = req[r].called
                            /\ q.sent = req[Owner(r)].sess
<1>1. PICK p \in Reqs : p = req[r]
  BY DEF TypeOK
<1>2. req[r].pc = "send"
  BY DEF Send
<1> DEFINE S == req[Owner(r)].sess
           q == [p EXCEPT !.pc = "receive", !.sent = S]
<1>3. S \in SUBSET Facts
  <2>1. req[Owner(r)] \in Reqs
    BY <1>2, OwnerThere DEF TypeOK
  <2> QED BY <2>1 DEF Reqs
<1>4. Step(r, q)
  BY <1>1 DEF Send
<1> HIDE DEF S
<1>5. q \in Reqs
  BY <1>3 DEF Reqs, Pcs
<1>6. /\ q.pc = "receive" /\ SameCall(q, p) /\ q.sess = p.sess /\ q.out = p.out
      /\ q.called = p.called /\ q.sent = S
  BY DEF Reqs, SameCall, SameRequest
<1> HIDE DEF q
<1> QED BY <1>1, <1>2, <1>4, <1>5, <1>6 DEF S

\* What the remote side may add to a session.
Remote(r) == {<<"remote", p[2]>> : p \in req[r].sent} \cup {<<"remote", req[r].b>>}

LEMMA ReceiveStep ==
  ASSUME TypeOK, NEW r \in Requests, Receive(r)
  PROVE  /\ req[r].pc = "receive" /\ req' \in [Requests -> Reqs]
         /\ \A s \in Requests :
              /\ req'[s].pc = IF s = r THEN "flush" ELSE req[s].pc
              /\ SameCall(req'[s], req[s]) /\ req'[s].sent = req[s].sent
              /\ req'[s].out = req[s].out /\ req'[s].called = req[s].called
              /\ req'[s].f = req[s].f
              /\ s # Owner(r) => /\ req'[s].sess = req[s].sess
                                 /\ req'[s].dirty = req[s].dirty
                                 /\ req'[s].committed = req[s].committed
              /\ req'[s].sess \in {req[s].sess, req[s].sess \cup Remote(r)}
<1>1. /\ req[r].pc = "receive" /\ req \in [Requests -> Reqs]
      /\ req[r].b \in Browsers
  BY DEF Receive, TypeOK
<1>2. PICK o \in Requests : o = Owner(r)
  BY <1>1, OwnerThere
<1> DEFINE N == Remote(r)
<1>3. N \in SUBSET Facts
  BY <1>1 DEF Remote, Facts, Reqs
<1>4. PICK set \in BOOLEAN, ok \in BOOLEAN :
       req' = [(IF set THEN [req EXCEPT ![Owner(r)].sess = @ \cup Remote(r),
                                        ![Owner(r)].dirty = TRUE]
                ELSE req) EXCEPT ![r].pc = "flush",
                                 ![r].status = IF ok THEN 200 ELSE 500]
  BY Zenon DEF Receive, Remote
<1> HIDE DEF N
<1>5. PICK t \in Statuses : t = IF ok THEN 200 ELSE 500
  BY Codes
<1>6. PICK p \in Reqs : p = req[o]
  BY <1>1
<1> DEFINE S == p.sess \cup N
           q == [p EXCEPT !.sess = S, !.dirty = TRUE]
           stored == IF set THEN [req EXCEPT ![o] = q] ELSE req
<1>7. q \in Reqs
  <2>1. S \in SUBSET Facts
    BY <1>3 DEF Reqs
  <2> HIDE DEF S
  <2> QED BY <2>1 DEF Reqs
<1>8. /\ q.pc = p.pc /\ SameCall(q, p) /\ q.sent = p.sent /\ q.out = p.out
      /\ q.called = p.called /\ q.f = p.f /\ q.sess = p.sess \cup N
  BY DEF Reqs, SameCall, SameRequest
<1>9. req' = [stored EXCEPT ![r].pc = "flush", ![r].status = t]
  <2>1. [req EXCEPT ![o].sess = @ \cup N, ![o].dirty = TRUE] = [req EXCEPT ![o] = q]
    BY <1>1, <1>6
  <2> DEFINE d == [req EXCEPT ![o].sess = @ \cup N, ![o].dirty = TRUE]
  <2>2. req' = [(IF set THEN d ELSE req) EXCEPT ![r].pc = "flush", ![r].status = t]
    BY <1>2, <1>4, <1>5 DEF N
  <2> HIDE DEF q, d
  <2>3. d = [req EXCEPT ![o] = q]
    BY <2>1 DEF d
  <2> QED BY <2>2, <2>3
<1> HIDE DEF q
<1>10. /\ stored \in [Requests -> Reqs]
       /\ \A s \in Requests :
            /\ stored[s].pc = req[s].pc /\ SameCall(stored[s], req[s])
            /\ stored[s].sent = req[s].sent /\ stored[s].out = req[s].out
            /\ stored[s].called = req[s].called /\ stored[s].f = req[s].f
            /\ s # o => stored[s] = req[s]
            /\ stored[s].sess \in {req[s].sess, req[s].sess \cup N}
  BY <1>1, <1>6, <1>7, <1>8 DEF SameCall, SameRequest
<1> HIDE DEF stored
<1>11. PICK y \in Reqs : y = stored[r]
  BY <1>10
<1> DEFINE z == [y EXCEPT !.pc = "flush", !.status = t]
<1>12. z \in Reqs
  BY DEF Reqs, Pcs
<1>13. z.pc = "flush" /\ Kept(z, y) /\ z.f = y.f /\ z.dirty = y.dirty
       /\ z.committed = y.committed
  BY DEF Reqs, Kept, Moved, SameCall, SameRequest
<1>14. req' = [stored EXCEPT ![r] = z]
  BY <1>9, <1>10, <1>11
<1> HIDE DEF z
<1>15. req' \in [Requests -> Reqs]
       /\ \A s \in Requests : req'[s] = IF s = r THEN z ELSE stored[s]
  BY <1>10, <1>12, <1>14
<1> QED BY <1>1, <1>2, <1>10, <1>11, <1>13, <1>15
        DEF Kept, Moved, SameCall, SameRequest, N

LEMMA FlushStep ==
  ASSUME TypeOK, NEW r \in Requests, Flush(r)
  PROVE  /\ req[r].pc = "flush"
         /\ \E q \in Reqs :
              /\ Step(r, q) /\ q.pc = "respond" /\ SameCall(q, req[r])
              /\ q.sess = req[r].sess /\ q.sent = req[r].sent
              /\ q.called = req[r].called
              /\ q.out \in {req[r].out, NoCookie, [key |-> key, props |-> req[r].sess]}
              /\ q.dirty /\ ~q.committed /\ key \notin BadKeys =>
                   q.out = [key |-> key, props |-> req[r].sess]
<1>1. PICK p \in Reqs : p = req[r]
  BY DEF TypeOK
<1>2. req[r].pc = "flush" /\ key \in Keys
  BY DEF Flush, TypeOK
<1>3. CASE p.dirty /\ key \in BadKeys
  <2> DEFINE t == IF p.committed \/ p.status # 200 THEN p.status ELSE 500
             q == [p EXCEPT !.pc = "respond", !.status = t]
  <2>1. t \in Statuses
    BY Codes DEF Reqs
  <2>2. Step(r, q)
    BY <1>1, <1>3, Zenon DEF Flush
  <2> HIDE DEF t
  <2>3. q \in Reqs
    BY <2>1 DEF Reqs, Pcs
  <2>4. q.pc = "respond" /\ Kept(q, p)
    BY DEF Reqs, Kept, Moved, SameCall, SameRequest
  <2> HIDE DEF q
  <2> QED BY <1>1, <1>2, <1>3, <2>2, <2>3, <2>4 DEF Kept, Moved, SameCall
<1>4. CASE ~(p.dirty /\ key \in BadKeys)
  <2> DEFINE c == [key |-> key, props |-> p.sess]
             o == IF p.dirty /\ ~p.committed THEN c ELSE NoCookie
             q == [p EXCEPT !.pc = "respond", !.out = o]
  <2>1. o \in Cookies
    BY <1>2, <1>4 DEF Reqs, Cookies
  <2>2. Step(r, q)
    BY <1>1, <1>4, Zenon DEF Flush
  <2>3. o \in {NoCookie, c} /\ (p.dirty /\ ~p.committed => o = c)
    OBVIOUS
  <2> HIDE DEF o, c
  <2>4. q \in Reqs
    BY <2>1 DEF Reqs, Pcs
  <2>5. /\ q.pc = "respond" /\ SameCall(q, p) /\ q.sess = p.sess /\ q.sent = p.sent
        /\ q.called = p.called /\ q.out = o
        /\ q.dirty = p.dirty /\ q.committed = p.committed
    BY DEF Reqs, SameCall, SameRequest
  <2> HIDE DEF q
  <2>6. q.dirty /\ ~q.committed => q.out = c
    BY <2>3, <2>5
  <2> QED BY <1>1, <1>2, <2>2, <2>3, <2>4, <2>5, <2>6 DEF c
<1> QED BY <1>3, <1>4

LEMMA RespondStep ==
  ASSUME TypeOK, NEW r \in Requests, Respond(r)
  PROVE  /\ req[r].pc = "respond" /\ cookie' \in [Browsers -> Cookies]
         /\ \A b \in Browsers :
              cookie'[b] = IF b = req[r].b /\ req[r].out # NoCookie THEN req[r].out
                           ELSE cookie[b]
         /\ req[r].b \in Browsers
         /\ \E q \in Reqs : Step(r, q) /\ q.pc = "done" /\ Kept(q, req[r])
<1>1. PICK p \in Reqs : p = req[r]
  BY DEF TypeOK
<1>2. req[r].pc = "respond" /\ req[r].b \in Browsers
  BY DEF Respond, TypeOK
<1> DEFINE q == [p EXCEPT !.pc = "done"]
<1>3. q \in Reqs /\ q.pc = "done" /\ Kept(q, p)
  BY PcStep DEF Pcs
<1>4. Step(r, q)
  BY <1>1 DEF Respond
<1> HIDE DEF q
<1>5. p.out \in Cookies
  BY DEF Reqs
<1>6. cookie' = IF p.out = NoCookie THEN cookie ELSE [cookie EXCEPT ![p.b] = p.out]
  BY <1>1 DEF Respond
<1> QED BY <1>1, <1>2, <1>3, <1>4, <1>5, <1>6 DEF TypeOK

LEMMA RestartStep ==
  ASSUME TypeOK, Restart
  PROVE  /\ key' \in Keys /\ req' \in [Requests -> Reqs]
         /\ \A s \in Requests :
              \/ req[s].pc \in {"new", "done"} /\ req'[s] = req[s]
              \/ /\ req'[s].pc = "lost" /\ req'[s].sess = {} /\ req'[s].sent = {}
                 /\ req'[s].out = NoCookie /\ ~req'[s].called
         /\ \A c \in Requests \cup {Default} : jar'[c] = None
         /\ jar' \in [Requests \cup {Default} -> Requests \cup {None}]
         /\ UNCHANGED <<cookie, logins>>
<1>1. PICK n \in Reqs : n = NoReq
  BY NoReqTyped
<1> DEFINE q == [n EXCEPT !.pc = "lost"]
<1>2. q \in Reqs /\ q.pc = "lost" /\ Kept(q, n)
  BY PcStep DEF Pcs
<1>3. q.sess = {} /\ q.sent = {} /\ q.out = NoCookie /\ ~q.called
  BY <1>1, <1>2, NoReqTyped DEF Kept, Moved, SameCall
<1>4. req' = [s \in Requests |-> IF req[s].pc \in {"new", "done"} THEN req[s] ELSE q]
  BY <1>1 DEF Restart
<1> HIDE DEF q
<1> QED BY <1>2, <1>3, <1>4 DEF Restart, TypeOK

-----------------------------------------------------------------------------
(* Types.                                                                  *)

LEMMA OneStep ==
  ASSUME Typed, NEW r \in Requests, NEW q \in Reqs, Step(r, q)
  PROVE  \A s \in Requests : req'[s] = IF s = r THEN q ELSE req[s]
  BY DEF Typed, TypeOK, Step

LEMMA OneStepTyped ==
  ASSUME Typed, NEW r \in Requests, NEW q \in Reqs, Step(r, q),
         UNCHANGED key, cookie' \in [Browsers -> Cookies],
         logins' \subseteq Browsers \X Keys,
         \/ jar' = jar /\ (q.pc \in {"send", "receive"} => req[r].pc \in {"send", "receive"})
         \/ jar' = [jar EXCEPT ![ClientOf(r)] = r],
         q.b \in Browsers /\ q.call \in Calls,
         q.pc \in {"invoke", "send", "receive"} => q.call.to \in DOMAIN Table,
         q.pc \in Early => ~q.called,
         q.pc \in Early \cup {"flush"} => q.out = NoCookie,
         q.pc = "route" => q.f = 1
  PROVE  Typed'
<1>1. /\ req' \in [Requests -> Reqs] /\ key \in Keys
      /\ jar \in [Requests \cup {Default} -> Requests \cup {None}]
  BY DEF Typed, TypeOK, Step
<1>2. \A s \in Requests : req'[s] = IF s = r THEN q ELSE req[s]
  BY OneStep
<1>3. \A s \in Requests : ClientOf(s) \in Requests \cup {Default}
  BY DEF ClientOf
<1>4. /\ jar' \in [Requests \cup {Default} -> Requests \cup {None}]
      /\ \A c \in Requests \cup {Default} : jar[c] # None => jar'[c] # None
      /\ q.pc \in {"send", "receive"} => jar'[ClientOf(r)] # None
  <2>1. CASE jar' = jar /\ (q.pc \in {"send", "receive"} =>
                              req[r].pc \in {"send", "receive"})
    BY <1>1, <2>1 DEF Typed, TypeOK
  <2>2. CASE jar' = [jar EXCEPT ![ClientOf(r)] = r]
    BY <1>1, <1>3, <2>2, DispatchAssumption DEF DispatchAssumption
  <2> QED BY <2>1, <2>2
<1>5. \A s \in Requests :
       /\ req'[s].pc \notin {"new", "lost"} =>
            req'[s].b \in Browsers /\ req'[s].call \in Calls
       /\ req'[s].pc \in {"invoke", "send", "receive"} =>
            req'[s].call.to \in DOMAIN Table
       /\ req'[s].pc \in {"send", "receive"} => jar'[ClientOf(s)] # None
  BY <1>2, <1>3, <1>4 DEF Typed, TypeOK
<1>6. \A s \in Requests :
       /\ req'[s].pc \in Early => ~req'[s].called
       /\ req'[s].pc \in Early \cup {"flush"} => req'[s].out = NoCookie
       /\ req'[s].pc = "route" => req'[s].f = 1
  BY <1>2 DEF Typed
<1>7. TypeOK'
  <2>1. \A s : ClientOf(s)' = ClientOf(s)
    BY DEF ClientOf
  <2> QED BY <1>1, <1>4, <1>5, <2>1 DEF TypeOK, ClientOf
<1> QED BY <1>6, <1>7 DEF Typed

\* Where a request that keeps its call and cookie goes on.
LEMMA KeepsTyped ==
  ASSUME Typed, NEW r \in Requests, NEW q \in Reqs, Step(r, q),
         UNCHANGED <<key, cookie>>, SameRequest(q, req[r]), q.out = req[r].out,
         logins' \subseteq Browsers \X Keys, req[r].pc \in Early,
         \/ q.pc = "flush"
         \/ /\ q.pc \in {"invoke", "send", "receive"} /\ q.called = req[r].called
            /\ q.call.to \in DOMAIN Table,
         \/ jar' = jar /\ (q.pc \in {"send", "receive"} => req[r].pc \in {"send", "receive"})
         \/ jar' = [jar EXCEPT ![ClientOf(r)] = r]
  PROVE  Typed'
<1>1. q.b \in Browsers /\ q.call \in Calls
  BY DEF Typed, TypeOK, SameCall, SameRequest, Early
<1>2. /\ q.pc \in Early => ~q.called
      /\ q.pc \in Early \cup {"flush"} => q.out = NoCookie
      /\ q.pc # "route"
  BY DEF Typed, Early
<1>3. cookie' \in [Browsers -> Cookies]
  BY DEF Typed, TypeOK
<1>4. q.pc \in {"invoke", "send", "receive"} => q.call.to \in DOMAIN Table
  OBVIOUS
<1> QED BY <1>1, <1>2, <1>3, <1>4, OneStepTyped

LEMMA TypedInit == Init => Typed
<1> SUFFICES ASSUME Init PROVE Typed
  OBVIOUS
<1>1. PICK n \in Reqs : n = NoReq
  BY NoReqTyped
<1>2. \A r \in Requests : req[r] = n
  BY <1>1 DEF Init
<1>3. /\ n.pc = "new" /\ n.out = NoCookie /\ ~n.called /\ n.f = 1
  BY <1>1, NoReqTyped
<1>4. TypeOK
  BY <1>1, <1>2, <1>3 DEF Init, TypeOK, Cookies
<1> QED BY <1>2, <1>3, <1>4 DEF Typed, Early

LEMMA TypedNext == Typed /\ [Next]_vars => Typed'
<1> SUFFICES ASSUME Typed, [Next]_vars PROVE Typed'
  OBVIOUS
<1>0. /\ TypeOK /\ cookie \in [Browsers -> Cookies] /\ logins \subseteq Browsers \X Keys
      /\ key \in Keys
  BY DEF Typed, TypeOK
<1>1. CASE UNCHANGED vars
  BY <1>1 DEF vars, Typed, TypeOK, ClientOf, Binding
<1>2. ASSUME NEW r \in Requests, NEW b \in Browsers, NEW c \in Calls, Arrive(r, b, c)
      PROVE  Typed'
  <2>1. PICK q \in Reqs : /\ Step(r, q) /\ q.pc = "route" /\ q.b = b /\ q.call = c
                          /\ q.sess = OpenSession(cookie[b]) /\ q.sent = {}
                          /\ q.out = NoCookie /\ ~q.called /\ q.f = 1
    BY <1>0, <1>2, ArriveStep
  <2>2. UNCHANGED <<key, cookie, jar, logins>>
    BY <1>2 DEF Arrive
  <2> QED BY <1>0, <2>1, <2>2, OneStepTyped
<1>3. ASSUME NEW r \in Requests, NEW b \in Browsers, NEW c \in Calls, NoContext(r, b, c)
      PROVE  Typed'
  <2>1. PICK q \in Reqs : /\ Step(r, q) /\ q.pc = "respond" /\ q.b = b /\ q.call = c
                          /\ q.sess = {} /\ q.sent = {} /\ ~q.dirty
                          /\ q.out = NoCookie /\ ~q.called
    BY <1>3, NoContextStep
  <2>2. UNCHANGED <<key, cookie, jar, logins>>
    BY <1>3 DEF NoContext
  <2>3. q.pc \notin Early \cup {"flush"}
    BY <2>1 DEF Early
  <2> QED BY <1>0, <2>1, <2>2, <2>3, OneStepTyped
<1>4. ASSUME NEW r \in Requests, Route(r) PROVE Typed'
  <2>1. PICK q \in Reqs :
           /\ Step(r, q) /\ Moved(q, req[r]) /\ req[r].pc = "route"
           /\ \/ q.pc = "flush"
              \/ q.pc = "invoke" /\ q.call.to \in DOMAIN Table
    BY <1>0, <1>4, RouteStep
  <2>2. UNCHANGED <<key, cookie, jar, logins>>
    BY <1>4 DEF Route
  <2> QED BY <1>0, <2>1, <2>2, KeepsTyped DEF Kept, Moved, SameCall, Early
<1>5. ASSUME NEW r \in Requests, Filter(r) PROVE Typed'
  <2>1. PICK q \in Reqs :
           /\ Step(r, q) /\ SameCall(q, req[r]) /\ req[r].pc = "invoke"
           /\ q.out = req[r].out /\ q.called = req[r].called
           /\ q.pc \in {"flush", "invoke"}
    BY <1>0, <1>5, FilterStep
  <2>2. UNCHANGED <<key, cookie, jar, logins>>
    BY <1>5 DEF Filter
  <2>3. q.call.to \in DOMAIN Table
    BY <1>0, <2>1 DEF TypeOK, SameCall, SameRequest
  <2> QED BY <1>0, <2>1, <2>2, <2>3, KeepsTyped DEF Early, SameCall
<1>6. ASSUME NEW r \in Requests, InvokeCall(r) PROVE Typed'
  <2>1. req[r].pc = "invoke" /\ \/ logins' = logins
                                \/ logins' = logins \cup {<<req[r].b, key>>}
    BY <1>0, <1>6, CallStep
  <2>2. PICK q \in Reqs : /\ Step(r, q) /\ q.pc = "flush" /\ SameCall(q, req[r])
                          /\ q.out = req[r].out
    BY <1>0, <1>6, CallStep DEF Kept, Moved, SameCall
  <2>3. UNCHANGED <<key, cookie, jar>>
    BY <1>6 DEF InvokeCall
  <2>4. req[r].b \in Browsers
    BY <1>0, <2>1 DEF TypeOK
  <2> QED BY <1>0, <2>1, <2>2, <2>3, <2>4, KeepsTyped DEF Early, SameCall
<1>7. ASSUME NEW r \in Requests, InvokeHandler(r) PROVE Typed'
  <2>1. req[r].pc = "invoke"
        /\ \E q \in Reqs : Step(r, q) /\ q.pc = "flush" /\ Kept(q, req[r])
    BY <1>0, <1>7, HandlerStep
  <2>2. UNCHANGED <<key, cookie, jar, logins>>
    BY <1>7 DEF InvokeHandler
  <2> QED BY <1>0, <2>1, <2>2, KeepsTyped DEF Early, Kept, Moved, SameCall
<1>8. ASSUME NEW r \in Requests, InvokeRemote(r) PROVE Typed'
  <2>1. PICK q \in Reqs : Step(r, q) /\ q.pc = "send" /\ Kept(q, req[r])
                          /\ req[r].pc = "invoke"
    BY <1>0, <1>8, RemoteStep
  <2>2. UNCHANGED <<key, cookie, logins>> /\ jar' = [jar EXCEPT ![ClientOf(r)] = r]
    BY <1>8 DEF InvokeRemote
  <2>3. q.call.to \in DOMAIN Table
    BY <1>0, <2>1 DEF TypeOK, Kept, Moved, SameCall, SameRequest
  <2> QED BY <1>0, <2>1, <2>2, <2>3, KeepsTyped DEF Early, Kept, Moved, SameCall
<1>9. ASSUME NEW r \in Requests, Send(r) PROVE Typed'
  <2>1. PICK q \in Reqs : /\ Step(r, q) /\ q.pc = "receive" /\ SameCall(q, req[r])
                          /\ q.out = req[r].out /\ q.called = req[r].called
                          /\ req[r].pc = "send"
    BY <1>0, <1>9, SendStep
  <2>2. UNCHANGED <<key, cookie, jar, logins>>
    BY <1>9 DEF Send
  <2>3. q.call.to \in DOMAIN Table
    BY <1>0, <2>1 DEF TypeOK, SameCall, SameRequest
  <2> QED BY <1>0, <2>1, <2>2, <2>3, KeepsTyped DEF Early, SameCall
<1>10. ASSUME NEW r \in Requests, Receive(r) PROVE Typed'
  <2>1. /\ req[r].pc = "receive" /\ req' \in [Requests -> Reqs]
        /\ \A s \in Requests :
              /\ req'[s].pc = IF s = r THEN "flush" ELSE req[s].pc
              /\ SameCall(req'[s], req[s])
              /\ req'[s].out = req[s].out /\ req'[s].called = req[s].called
              /\ req'[s].f = req[s].f
    BY <1>0, <1>10, ReceiveStep
  <2>2. UNCHANGED <<key, cookie, jar, logins>>
    BY <1>10 DEF Receive
  <2>3. \A s \in Requests :
         /\ req'[s].pc \notin {"new", "lost"} =>
              req'[s].b \in Browsers /\ req'[s].call \in Calls
         /\ req'[s].pc \in {"invoke", "send", "receive"} =>
              req'[s].call.to \in DOMAIN Table
         /\ req'[s].pc \in {"send", "receive"} => jar'[ClientOf(s)] # None
    BY <1>0, <2>1, <2>2 DEF TypeOK, SameCall, SameRequest
  <2>4. \A s \in Requests :
         /\ req'[s].pc \in Early => ~req'[s].called
         /\ req'[s].pc \in Early \cup {"flush"} => req'[s].out = NoCookie
         /\ req'[s].pc = "route" => req'[s].f = 1
    BY <2>1 DEF Typed, Early
  <2>5. TypeOK'
    BY <1>0, <2>1, <2>2, <2>3 DEF TypeOK, ClientOf
  <2> QED BY <2>4, <2>5 DEF Typed
<1>11. ASSUME NEW r \in Requests, Flush(r) PROVE Typed'
  <2>1. PICK q \in Reqs : /\ Step(r, q) /\ q.pc = "respond" /\ SameCall(q, req[r])
                          /\ req[r].pc = "flush"
    BY <1>0, <1>11, FlushStep
  <2>2. UNCHANGED <<key, cookie, jar, logins>>
    BY <1>11 DEF Flush
  <2>3. q.b \in Browsers /\ q.call \in Calls /\ q.pc \notin Early \cup {"flush"}
    BY <1>0, <2>1 DEF TypeOK, SameCall, SameRequest, Early
  <2> QED BY <1>0, <2>1, <2>2, <2>3, OneStepTyped
<1>12. ASSUME NEW r \in Requests, Respond(r) PROVE Typed'
  <2>1. PICK q \in Reqs : /\ Step(r, q) /\ q.pc = "done" /\ SameCall(q, req[r])
                          /\ req[r].pc = "respond" /\ cookie' \in [Browsers -> Cookies]
    BY <1>0, <1>12, RespondStep DEF Kept, Moved, SameCall
  <2>2. UNCHANGED <<key, jar, logins>>
    BY <1>12 DEF Respond
  <2>3. q.b \in Browsers /\ q.call \in Calls /\ q.pc \notin Early \cup {"flush"}
    BY <1>0, <2>1 DEF TypeOK, SameCall, SameRequest, Early
  <2> QED BY <1>0, <2>1, <2>2, <2>3, OneStepTyped
<1>13. CASE Restart
  <2>1. /\ key' \in Keys /\ req' \in [Requests -> Reqs]
        /\ \A s \in Requests :
              \/ req[s].pc \in {"new", "done"} /\ req'[s] = req[s]
              \/ /\ req'[s].pc = "lost"
                 /\ req'[s].out = NoCookie /\ ~req'[s].called
        /\ jar' \in [Requests \cup {Default} -> Requests \cup {None}]
        /\ UNCHANGED <<cookie, logins>>
    BY <1>0, <1>13, RestartStep
  <2>2. \A s \in Requests :
         /\ req'[s].pc \notin {"new", "lost"} =>
              req'[s].b \in Browsers /\ req'[s].call \in Calls
         /\ req'[s].pc \notin Early \cup {"flush"}
    BY <1>0, <2>1 DEF TypeOK, Early
  <2>3. TypeOK'
    BY <1>0, <2>1, <2>2 DEF TypeOK, Early
  <2> QED BY <2>2, <2>3 DEF Typed, Early
<1> QED
  BY <1>1, <1>2, <1>3, <1>4, <1>5, <1>6, <1>7, <1>8, <1>9, <1>10, <1>11, <1>12, <1>13
  DEF Next, Serve

LEMMA TypedAlways == Spec => []Typed
  BY TypedInit, TypedNext, PTL DEF Spec

\* Every variable has its type, a cookie is only ever made with a key that
\* works, and a request that is sent on has a session in its client's jar.
THEOREM TypeCorrect == Spec => []TypeOK
<1>1. Typed => TypeOK
  BY DEF Typed
<1> QED BY <1>1, TypedAlways, PTL

-----------------------------------------------------------------------------
(* What is private is called after a login.                                *)

\* Every login a set of facts claims was granted under key k.
Granted(S, k, L) == \A x : <<"login", x>> \in S => <<x, k>> \in L

\* At each stage: the session, the filters that are passed, the cookie made.
GrantedReq(q, k, L) ==
  /\ q.pc \in Early \cup {"flush"} => Granted(q.sess, k, L)
  /\ q.pc = "invoke" =>
       \A j \in 1 .. Len(Table[q.call.to].filters) :
         j < q.f /\ Table[q.call.to].filters[j] = "login" => <<q.b, k>> \in L
  /\ q.pc = "flush" /\ q.called /\ Contains(Table[q.call.to].filters, "login") =>
       <<q.b, k>> \in L
  /\ q.pc = "respond" => q.out = NoCookie \/ Granted(q.out.props, q.out.key, L)

GrantedInv ==
  /\ \A b \in Browsers : cookie[b] = NoCookie
                         \/ Granted(cookie[b].props, cookie[b].key, logins)
  /\ \A r \in Requests : GrantedReq(req[r], key, logins)

LEMMA GrantedGrows ==
  ASSUME NEW L, NEW M, L \subseteq M
  PROVE  /\ \A S, k : Granted(S, k, L) => Granted(S, k, M)
         /\ \A q, k : GrantedReq(q, k, L) => GrantedReq(q, k, M)
<1>1. \A S, k : Granted(S, k, L) => Granted(S, k, M)
  BY DEF Granted
<1> QED BY <1>1 DEF GrantedReq

LEMMA GrantedStep ==
  ASSUME Typed, GrantedInv, NEW r \in Requests, NEW q \in Reqs, Step(r, q),
         UNCHANGED <<key, cookie>>, logins \subseteq logins',
         GrantedReq(q, key, logins')
  PROVE  GrantedInv'
<1>1. \A s \in Requests : req'[s] = IF s = r THEN q ELSE req[s]
  BY OneStep
<1>2. \A s \in Requests : GrantedReq(req'[s], key, logins')
  BY <1>1, GrantedGrows DEF GrantedInv
<1>3. \A b \in Browsers : cookie'[b] = NoCookie
                          \/ Granted(cookie'[b].props, cookie'[b].key, logins')
  BY GrantedGrows DEF GrantedInv
<1>4. key' = key
  OBVIOUS
<1> QED BY <1>2, <1>3, <1>4 DEF GrantedInv, GrantedReq, Granted

\* A request that was not called yet and goes straight to its end.
LEMMA FlushGranted ==
  ASSUME Typed, GrantedInv, NEW r \in Requests, NEW q, q.pc = "flush",
         req[r].pc \in Early, q.called = req[r].called,
         Granted(q.sess, key, logins)
  PROVE  GrantedReq(q, key, logins)
  BY DEF Typed, GrantedReq, Early

LEMMA GrantedInit == Init => GrantedInv
  BY NoReqTyped DEF Init, GrantedInv, GrantedReq, Early

LEMMA GrantedNext ==
  ASSUME Typed, GrantedInv, [Next]_vars
  PROVE  GrantedInv'
<1>0. TypeOK /\ logins \subseteq logins
  BY DEF Typed
<1>1. CASE UNCHANGED vars
  BY <1>1 DEF vars, GrantedInv, GrantedReq, Granted
<1>2. ASSUME NEW r \in Requests, NEW b \in Browsers, NEW c \in Calls, Arrive(r, b, c)
      PROVE  GrantedInv'
  <2>1. PICK q \in Reqs : /\ Step(r, q) /\ q.pc = "route" /\ q.b = b /\ q.call = c
                          /\ q.sess = OpenSession(cookie[b]) /\ q.sent = {}
                          /\ q.out = NoCookie /\ ~q.called /\ q.f = 1
    BY <1>0, <1>2, ArriveStep
  <2>2. UNCHANGED <<key, cookie, logins>>
    BY <1>2 DEF Arrive
  <2>3. Granted(OpenSession(cookie[b]), key, logins)
    BY DEF GrantedInv, OpenSession, Granted, NoCookie
  <2>4. GrantedReq(q, key, logins)
    BY <2>1, <2>3 DEF GrantedReq
  <2> QED BY <2>1, <2>2, <2>4, GrantedStep
<1>3. ASSUME NEW r \in Requests, NEW b \in Browsers, NEW c \in Calls, NoContext(r, b, c)
      PROVE  GrantedInv'
  <2>1. PICK q \in Reqs : /\ Step(r, q) /\ q.pc = "respond" /\ q.b = b /\ q.call = c
                          /\ q.sess = {} /\ q.sent = {} /\ ~q.dirty
                          /\ q.out = NoCookie /\ ~q.called
    BY <1>3, NoContextStep
  <2>2. UNCHANGED <<key, cookie, logins>>
    BY <1>3 DEF NoContext
  <2>3. GrantedReq(q, key, logins)
    BY <2>1 DEF GrantedReq, Early
  <2> QED BY <2>1, <2>2, <2>3, GrantedStep
<1>4. ASSUME NEW r \in Requests, Route(r) PROVE GrantedInv'
  <2>1. PICK q \in Reqs :
           /\ Step(r, q) /\ Moved(q, req[r]) /\ req[r].pc = "route"
           /\ \/ q.pc = "flush"
              \/ q.pc = "invoke" /\ q.call.to \in DOMAIN Table /\ q.f = req[r].f
    BY <1>0, <1>4, RouteStep
  <2>2. UNCHANGED <<key, cookie, logins>>
    BY <1>4 DEF Route
  <2>3. Granted(q.sess, key, logins) /\ req[r].f = 1 /\ ~req[r].called
    BY <2>1 DEF GrantedInv, GrantedReq, Typed, Early, Kept, Moved, SameCall
  <2>4. GrantedReq(q, key, logins)
    BY <2>1, <2>3 DEF GrantedReq, Kept, Moved, SameCall, Early
  <2> QED BY <2>1, <2>2, <2>4, GrantedStep
<1>5. ASSUME NEW r \in Requests, Filter(r) PROVE GrantedInv'
  <2>1. PICK q \in Reqs :
           /\ Step(r, q) /\ SameCall(q, req[r]) /\ req[r].pc = "invoke"
           /\ q.sent = req[r].sent /\ q.out = req[r].out /\ q.called = req[r].called
           /\ q.sess \in {req[r].sess, req[r].sess \cup {<<"visit", req[r].b>>}}
           /\ \/ q.pc = "flush"
              \/ /\ q.pc = "invoke" /\ q.f = req[r].f + 1
                 /\ Binding(r).filters[req[r].f] = "login" =>
                      <<"login", req[r].b>> \in req[r].sess
    BY <1>0, <1>5, FilterStep
  <2>2. UNCHANGED <<key, cookie, logins>>
    BY <1>5 DEF Filter
  <2>3. Granted(req[r].sess, key, logins)
    BY <2>1 DEF GrantedInv, GrantedReq, Early
  <2>4. Granted(q.sess, key, logins)
    BY <2>1, <2>3 DEF Granted
  <2>5. CASE q.pc = "flush"
    BY <2>1, <2>2, <2>4, <2>5, FlushGranted, GrantedStep DEF Early
  <2>6. CASE /\ q.pc = "invoke" /\ q.f = req[r].f + 1
             /\ Binding(r).filters[req[r].f] = "login" =>
                  <<"login", req[r].b>> \in req[r].sess
    <3>1. req[r].f \in Nat
      BY <1>0 DEF TypeOK, Reqs
    <3> DEFINE F == Table[q.call.to].filters
    <3>2. \A j \in 1 .. Len(F) :
            j < req[r].f /\ F[j] = "login" => <<q.b, key>> \in logins
      BY <2>1 DEF GrantedInv, GrantedReq, SameCall, SameRequest
    <3>3. F[req[r].f] = "login" => <<q.b, key>> \in logins
      BY <2>1, <2>3, <2>6 DEF Granted, Binding, SameCall, SameRequest
    <3> HIDE DEF F
    <3>4. \A j \in 1 .. Len(F) : j < q.f /\ F[j] = "login" => <<q.b, key>> \in logins
      <4> SUFFICES ASSUME NEW j \in 1 .. Len(F), j < q.f, F[j] = "login"
                   PROVE  <<q.b, key>> \in logins
        OBVIOUS
      <4>1. j = req[r].f \/ j < req[r].f
        BY <2>6, <3>1
      <4> QED BY <3>2, <3>3, <4>1
    <3>5. GrantedReq(q, key, logins)
      BY <2>4, <2>6, <3>4 DEF GrantedReq, F
    <3> QED BY <2>1, <2>2, <3>5, GrantedStep
  <2> QED BY <2>1, <2>5, <2>6
<1>6. ASSUME NEW r \in Requests, InvokeCall(r) PROVE GrantedInv'
  <2>1. /\ req[r].pc = "invoke" /\ req[r].f > Len(Binding(r).filters)
        /\ \/ /\ \E q \in Reqs : Step(r, q) /\ q.pc = "flush" /\ Kept(q, req[r])
              /\ logins' = logins
           \/ \E q \in Reqs : \E d :
                   /\ Step(r, q) /\ q.pc = "flush" /\ SameCall(q, req[r])
                   /\ q.sess = After(r, d)
                   /\ q.sent = req[r].sent /\ q.out = req[r].out
                   /\ logins' = IF d = "login" THEN logins \cup {<<req[r].b, key>>}
                                ELSE logins
    BY <1>0, <1>6, CallStep
  <2>2. UNCHANGED <<key, cookie>>
    BY <1>6 DEF InvokeCall
  <2>3. Granted(req[r].sess, key, logins)
    BY <2>1 DEF GrantedInv, GrantedReq, Early
  <2>4. CASE /\ \E q \in Reqs : Step(r, q) /\ q.pc = "flush" /\ Kept(q, req[r])
             /\ logins' = logins
    <3>1. PICK q \in Reqs : Step(r, q) /\ q.pc = "flush" /\ Kept(q, req[r])
      BY <2>4
    <3>2. GrantedReq(q, key, logins)
      BY <2>1, <2>3, <3>1, FlushGranted DEF Kept, Moved, SameCall, Early
    <3> QED BY <2>2, <2>4, <3>1, <3>2, GrantedStep
  <2>5. ASSUME NEW q \in Reqs, NEW d,
               /\ Step(r, q) /\ q.pc = "flush" /\ SameCall(q, req[r])
               /\ q.sess = After(r, d)
               /\ logins' = IF d = "login" THEN logins \cup {<<req[r].b, key>>}
                            ELSE logins
        PROVE  GrantedInv'
    <3>1. Granted(q.sess, key, logins')
      BY <2>3, <2>5 DEF Granted, After
    <3> DEFINE F == Table[q.call.to].filters
    <3>2. /\ \A j \in 1 .. Len(F) :
               j < req[r].f /\ F[j] = "login" => <<q.b, key>> \in logins
          /\ Len(F) < req[r].f
      BY <2>1, <2>5 DEF GrantedInv, GrantedReq, SameCall, SameRequest, Binding
    <3>3. req[r].f \in Nat /\ F \in Seq(Filters)
      <4>1. req[r].call.to \in DOMAIN Table
        BY <1>0, <2>1 DEF TypeOK
      <4> QED BY <1>0, <2>5, <4>1, DispatchAssumption
              DEF TypeOK, Reqs, SameCall, SameRequest, DispatchAssumption
    <3> HIDE DEF F
    <3>4. Contains(F, "login") => <<q.b, key>> \in logins
      BY <3>2, <3>3 DEF Contains
    <3>5. GrantedReq(q, key, logins')
      BY <2>5, <3>1, <3>4 DEF GrantedReq, F
    <3> QED BY <2>2, <2>5, <3>5, GrantedStep
  <2> QED BY <2>1, <2>4, <2>5
<1>7. ASSUME NEW r \in Requests, InvokeHandler(r) PROVE GrantedInv'
  <2>1. PICK q \in Reqs : /\ Step(r, q) /\ q.pc = "flush" /\ Kept(q, req[r])
                          /\ req[r].pc = "invoke"
    BY <1>0, <1>7, HandlerStep
  <2>2. UNCHANGED <<key, cookie, logins>>
    BY <1>7 DEF InvokeHandler
  <2>3. Granted(q.sess, key, logins)
    BY <2>1 DEF GrantedInv, GrantedReq, Early, Kept, Moved, SameCall
  <2> QED BY <2>1, <2>2, <2>3, FlushGranted, GrantedStep DEF Kept, Moved, SameCall, Early
<1>8. ASSUME NEW r \in Requests, InvokeRemote(r) PROVE GrantedInv'
  <2>1. PICK q \in Reqs : Step(r, q) /\ q.pc = "send" /\ Kept(q, req[r])
                          /\ req[r].pc = "invoke"
    BY <1>0, <1>8, RemoteStep
  <2>2. UNCHANGED <<key, cookie, logins>>
    BY <1>8 DEF InvokeRemote
  <2>3. GrantedReq(q, key, logins)
    BY <2>1 DEF GrantedInv, GrantedReq, Early, Kept, Moved, SameCall
  <2> QED BY <2>1, <2>2, <2>3, GrantedStep
<1>9. ASSUME NEW r \in Requests, Send(r) PROVE GrantedInv'
  <2>1. PICK q \in Reqs : /\ Step(r, q) /\ q.pc = "receive" /\ q.sess = req[r].sess
                          /\ req[r].pc = "send"
    BY <1>0, <1>9, SendStep
  <2>2. UNCHANGED <<key, cookie, logins>>
    BY <1>9 DEF Send
  <2>3. GrantedReq(q, key, logins)
    BY <2>1 DEF GrantedInv, GrantedReq, Early
  <2> QED BY <2>1, <2>2, <2>3, GrantedStep
<1>10. ASSUME NEW r \in Requests, Receive(r) PROVE GrantedInv'
  <2>1. /\ req[r].pc = "receive"
        /\ \A s \in Requests :
              /\ req'[s].pc = IF s = r THEN "flush" ELSE req[s].pc
              /\ SameCall(req'[s], req[s]) /\ req'[s].sent = req[s].sent
              /\ req'[s].out = req[s].out /\ req'[s].called = req[s].called
              /\ req'[s].f = req[s].f
              /\ req'[s].sess \in {req[s].sess, req[s].sess \cup Remote(r)}
    BY <1>0, <1>10, ReceiveStep
  <2>2. UNCHANGED <<key, cookie, logins>>
    BY <1>10 DEF Receive
  <2>3. ASSUME NEW s \in Requests PROVE GrantedReq(req'[s], key, logins)
    <3>1. GrantedReq(req[s], key, logins)
      BY DEF GrantedInv
    <3>2. \A x : <<"login", x>> \notin Remote(r)
      BY DEF Remote
    <3>3. Granted(req[s].sess, key, logins) => Granted(req'[s].sess, key, logins)
      BY <2>1, <3>2 DEF Granted
    <3>4. CASE s = r
      BY <2>1, <3>1, <3>3, <3>4 DEF GrantedReq, Early, Typed
    <3>5. CASE s # r
      BY <2>1, <3>1, <3>3, <3>5 DEF GrantedReq, SameCall, SameRequest
    <3> QED BY <3>4, <3>5
  <2> QED BY <2>2, <2>3 DEF GrantedInv, GrantedReq, Granted
<1>11. ASSUME NEW r \in Requests, Flush(r) PROVE GrantedInv'
  <2>1. PICK q \in Reqs :
              /\ Step(r, q) /\ q.pc = "respond" /\ req[r].pc = "flush"
              /\ q.out \in {req[r].out, NoCookie, [key |-> key, props |-> req[r].sess]}
    BY <1>0, <1>11, FlushStep
  <2>2. UNCHANGED <<key, cookie, logins>>
    BY <1>11 DEF Flush
  <2>3. Granted(req[r].sess, key, logins) /\ req[r].out = NoCookie
    BY <2>1 DEF GrantedInv, GrantedReq, Typed
  <2>4. q.out = NoCookie \/ Granted(q.out.props, q.out.key, logins)
    BY <2>1, <2>3
  <2>5. GrantedReq(q, key, logins)
    BY <2>1, <2>4 DEF GrantedReq, Early
  <2> QED BY <2>1, <2>2, <2>5, GrantedStep
<1>12. ASSUME NEW r \in Requests, Respond(r) PROVE GrantedInv'
  <2>1. PICK q \in Reqs : Step(r, q) /\ q.pc = "done"
    BY <1>0, <1>12, RespondStep
  <2>2. /\ req[r].pc = "respond"
        /\ \A b \in Browsers :
              cookie'[b] = IF b = req[r].b /\ req[r].out # NoCookie THEN req[r].out
                           ELSE cookie[b]
    BY <1>0, <1>12, RespondStep
  <2>3. UNCHANGED <<key, logins>>
    BY <1>12 DEF Respond
  <2>4. \A b \in Browsers : cookie'[b] = NoCookie
                            \/ Granted(cookie'[b].props, cookie'[b].key, logins)
    BY <2>2 DEF GrantedInv, GrantedReq
  <2>5. GrantedReq(q, key, logins)
    BY <2>1 DEF GrantedReq, Early
  <2>6. \A s \in Requests : GrantedReq(req'[s], key, logins)
    BY <2>1, <2>5, OneStep DEF GrantedInv
  <2> QED BY <2>3, <2>4, <2>6 DEF GrantedInv, GrantedReq, Granted
<1>13. CASE Restart
  <2>1. /\ \A s \in Requests :
              \/ req[s].pc \in {"new", "done"} /\ req'[s] = req[s]
              \/ req'[s].pc = "lost"
        /\ UNCHANGED <<cookie, logins>>
    BY <1>0, <1>13, RestartStep
  <2>2. \A s \in Requests : GrantedReq(req'[s], key', logins)
    BY <2>1 DEF GrantedReq, Early
  <2> QED BY <2>1, <2>2 DEF GrantedInv, GrantedReq, Granted
<1> QED
  BY <1>1, <1>2, <1>3, <1>4, <1>5, <1>6, <1>7, <1>8, <1>9, <1>10, <1>11, <1>12, <1>13
  DEF Next, Serve

\* A function behind a filter that asks for a login has run only for a
\* browser that was granted one under the key of now: no filter is skipped,
\* no cookie of an older key opens, no remote answer fakes a login, with any
\* number of requests and restarts and whoever shares a client.
THEOREM LoginFirst == Spec => []PrivateAfterLogin
<1> DEFINE Inv == Typed /\ GrantedInv
<1>1. Init => Inv
  BY TypedInit, GrantedInit
<1>2. Inv /\ [Next]_vars => Inv'
  BY TypedNext, GrantedNext
<1>3. Inv => PrivateAfterLogin
  BY DEF GrantedInv, GrantedReq, PrivateAfterLogin, Binding
<1> HIDE DEF Inv
<1> QED BY <1>1, <1>2, <1>3, PTL DEF Spec

-----------------------------------------------------------------------------
(* The cookie follows the session.                                         *)

\* A client that belongs to one request has its session in the jar, or none.
OwnJarInv == \A r \in Requests : jar[r] \in {r, None}

LEMMA OwnJar ==
  ASSUME OwnClient, Typed, OwnJarInv, NEW r \in Requests, req[r].pc \in {"send", "receive"}
  PROVE  Owner(r) = r
  BY DEF Typed, TypeOK, OwnJarInv, Owner, ClientOf

LEMMA OwnJarInit == Init => OwnJarInv
  BY DEF Init, OwnJarInv

\* Only a remote binding and a restart change a jar.
LEMMA OwnJarNext ==
  ASSUME OwnClient, Typed, OwnJarInv, [Next]_vars
  PROVE  OwnJarInv'
<1>1. \/ jar' = jar
      \/ \E r \in Requests : jar' = [jar EXCEPT ![ClientOf(r)] = r]
      \/ jar' = [c \in DOMAIN jar |-> None]
  BY DEF Next, Serve, vars, Arrive, NoContext, Route, Filter, InvokeCall,
         InvokeHandler, InvokeRemote, Send, Receive, Flush, Respond, Restart
<1> QED BY <1>1 DEF Typed, TypeOK, OwnJarInv, ClientOf

Changed(r) == req[r].dirty /\ ~req[r].committed /\ key \notin BadKeys

\* The cookie of a response is the session as it is by then.
ResponseInv ==
  \A r \in Requests : req[r].pc = "respond" /\ Changed(r) =>
    req[r].out = [key |-> key, props |-> req[r].sess]

Delivered(r) == cookie'[req[r].b] = [key |-> key, props |-> req[r].sess]

\* What CookieFollowsChange says of one step.
Follows ==
  \A r \in Requests :
    req[r].pc = "respond" /\ req'[r].pc = "done" /\ Changed(r) => Delivered(r)

LEMMA ResponseStep ==
  ASSUME Typed, ResponseInv, NEW r \in Requests, NEW q \in Reqs, Step(r, q),
         UNCHANGED key, q.pc # "done",
         q.pc = "respond" /\ q.dirty /\ ~q.committed /\ key \notin BadKeys =>
           q.out = [key |-> key, props |-> q.sess]
  PROVE  ResponseInv' /\ Follows
<1>1. \A s \in Requests : req'[s] = IF s = r THEN q ELSE req[s]
  BY OneStep
<1> QED BY <1>1 DEF ResponseInv, Changed, Follows

LEMMA ResponseInit == Init => ResponseInv
  BY NoReqTyped DEF Init, ResponseInv

LEMMA ResponseNext ==
  ASSUME OwnClient, Typed, OwnJarInv, ResponseInv, [Next]_vars
  PROVE  ResponseInv' /\ Follows
<1>0. TypeOK
  BY DEF Typed
<1>1. CASE UNCHANGED vars
  BY <1>1 DEF vars, ResponseInv, Changed, Follows
<1>2. ASSUME NEW r \in Requests, NEW b \in Browsers, NEW c \in Calls, Arrive(r, b, c)
      PROVE  ResponseInv' /\ Follows
  <2>1. PICK q \in Reqs : /\ Step(r, q) /\ q.pc = "route" /\ q.b = b /\ q.call = c
                          /\ q.sess = OpenSession(cookie[b]) /\ q.sent = {}
                          /\ q.out = NoCookie /\ ~q.called /\ q.f = 1
    BY <1>0, <1>2, ArriveStep
  <2>2. key' = key
    BY <1>2 DEF Arrive
  <2> QED BY <2>1, <2>2, ResponseStep
<1>3. ASSUME NEW r \in Requests, NEW b \in Browsers, NEW c \in Calls, NoContext(r, b, c)
      PROVE  ResponseInv' /\ Follows
  <2>1. PICK q \in Reqs : /\ Step(r, q) /\ q.pc = "respond" /\ q.b = b /\ q.call = c
                          /\ q.sess = {} /\ q.sent = {} /\ ~q.dirty
                          /\ q.out = NoCookie /\ ~q.called
    BY <1>3, NoContextStep
  <2>2. key' = key
    BY <1>3 DEF NoContext
  <2> QED BY <2>1, <2>2, ResponseStep
<1>4. ASSUME NEW r \in Requests, Route(r) PROVE ResponseInv' /\ Follows
  <2>1. PICK q \in Reqs : Step(r, q) /\ q.pc \in {"flush", "invoke"}
    BY <1>0, <1>4, RouteStep
  <2>2. key' = key
    BY <1>4 DEF Route
  <2> QED BY <2>1, <2>2, ResponseStep
<1>5. ASSUME NEW r \in Requests, Filter(r) PROVE ResponseInv' /\ Follows
  <2>1. PICK q \in Reqs : Step(r, q) /\ q.pc \in {"flush", "invoke"}
    BY <1>0, <1>5, FilterStep
  <2>2. key' = key
    BY <1>5 DEF Filter
  <2> QED BY <2>1, <2>2, ResponseStep
<1>6. ASSUME NEW r \in Requests, InvokeCall(r) PROVE ResponseInv' /\ Follows
  <2>1. PICK q \in Reqs : Step(r, q) /\ q.pc = "flush"
    BY <1>0, <1>6, CallStep
  <2>2. key' = key
    BY <1>6 DEF InvokeCall
  <2> QED BY <2>1, <2>2, ResponseStep
<1>7. ASSUME NEW r \in Requests, InvokeHandler(r) PROVE ResponseInv' /\ Follows
  <2>1. PICK q \in Reqs : Step(r, q) /\ q.pc = "flush"
    BY <1>0, <1>7, HandlerStep
  <2>2. key' = key
    BY <1>7 DEF InvokeHandler
  <2> QED BY <2>1, <2>2, ResponseStep
<1>8. ASSUME NEW r \in Requests, InvokeRemote(r) PROVE ResponseInv' /\ Follows
  <2>1. PICK q \in Reqs : Step(r, q) /\ q.pc = "send"
    BY <1>0, <1>8, RemoteStep
  <2>2. key' = key
    BY <1>8 DEF InvokeRemote
  <2> QED BY <2>1, <2>2, ResponseStep
<1>9. ASSUME NEW r \in Requests, Send(r) PROVE ResponseInv' /\ Follows
  <2>1. PICK q \in Reqs : Step(r, q) /\ q.pc = "receive"
    BY <1>0, <1>9, SendStep
  <2>2. key' = key
    BY <1>9 DEF Send
  <2> QED BY <2>1, <2>2, ResponseStep
\* The remote side's cookies reach no session but that of the request itself.
<1>10. ASSUME NEW r \in Requests, Receive(r) PROVE ResponseInv' /\ Follows
  <2>1. /\ req[r].pc = "receive"
        /\ \A s \in Requests :
              /\ req'[s].pc = IF s = r THEN "flush" ELSE req[s].pc
              /\ req'[s].out = req[s].out
              /\ s # Owner(r) => /\ req'[s].sess = req[s].sess
                                 /\ req'[s].dirty = req[s].dirty
                                 /\ req'[s].committed = req[s].committed
    BY <1>0, <1>10, ReceiveStep
  <2>2. key' = key
    BY <1>10 DEF Receive
  <2>3. Owner(r) = r
    BY <2>1, OwnJar
  <2> QED BY <2>1, <2>2, <2>3 DEF ResponseInv, Changed, Follows
<1>11. ASSUME NEW r \in Requests, Flush(r) PROVE ResponseInv' /\ Follows
  <2>1. PICK q \in Reqs :
              /\ Step(r, q) /\ q.pc = "respond"
              /\ q.sess = req[r].sess
              /\ q.dirty /\ ~q.committed /\ key \notin BadKeys =>
                   q.out = [key |-> key, props |-> req[r].sess]
    BY <1>0, <1>11, FlushStep
  <2>2. key' = key
    BY <1>11 DEF Flush
  <2> QED BY <2>1, <2>2, ResponseStep
<1>12. ASSUME NEW r \in Requests, Respond(r) PROVE ResponseInv' /\ Follows
  <2>1. PICK q \in Reqs : Step(r, q) /\ q.pc = "done"
    BY <1>0, <1>12, RespondStep
  <2>2. /\ req[r].pc = "respond" /\ req[r].b \in Browsers
        /\ \A b \in Browsers :
              cookie'[b] = IF b = req[r].b /\ req[r].out # NoCookie THEN req[r].out
                           ELSE cookie[b]
    BY <1>0, <1>12, RespondStep
  <2>3. key' = key
    BY <1>12 DEF Respond
  <2>4. \A s \in Requests : req'[s] = IF s = r THEN q ELSE req[s]
    BY <2>1, OneStep
  <2>5. ResponseInv'
    BY <2>1, <2>3, <2>4 DEF ResponseInv, Changed
  <2>6. [key |-> key, props |-> req[r].sess] # NoCookie
    BY <1>0, DispatchAssumption DEF TypeOK, DispatchAssumption, NoCookie
  <2>7. Changed(r) => Delivered(r)
    BY <2>2, <2>6 DEF ResponseInv, Delivered
  <2>8. \A s \in Requests : req[s].pc = "respond" /\ req'[s].pc = "done" => s = r
    BY <2>4
  <2> QED BY <2>5, <2>7, <2>8 DEF Follows
<1>13. CASE Restart
  <2>1. \A s \in Requests :
              \/ req[s].pc \in {"new", "done"} /\ req'[s] = req[s]
              \/ req'[s].pc = "lost"
    BY <1>0, <1>13, RestartStep
  <2> QED BY <2>1 DEF ResponseInv, Follows
<1> QED
  BY <1>1, <1>2, <1>3, <1>4, <1>5, <1>6, <1>7, <1>8, <1>9, <1>10, <1>11, <1>12, <1>13
  DEF Next, Serve

\* Whatever a request did to the session, and however it ended, its browser
\* has exactly that session after the response, unless the key does not work
\* or the response was begun before, if each context has its own client.
THEOREM CookieIsTheSession == OwnClient => (Spec => CookieFollowsChange)
<1> SUFFICES ASSUME OwnClient PROVE Spec => CookieFollowsChange
  OBVIOUS
<1> DEFINE Inv == Typed /\ OwnJarInv /\ ResponseInv
<1>1. Init => Inv
  BY TypedInit, OwnJarInit, ResponseInit
<1>2. Inv /\ [Next]_vars => Inv'
  BY TypedNext, OwnJarNext, ResponseNext
<1>3. Inv /\ [Next]_vars => Follows
  BY ResponseNext
<1>4. Follows =>
        [\A r \in Requests :
           /\ req[r].pc = "respond" /\ req'[r].pc = "done"
           /\ req[r].dirty /\ ~req[r].committed /\ key \notin BadKeys
           => cookie'[req[r].b] = [key |-> key, props |-> req[r].sess]]_vars
  BY DEF Follows, Changed, Delivered
<1> HIDE DEF Inv
<1> QED BY <1>1, <1>2, <1>3, <1>4, PTL DEF Spec, CookieFollowsChange

-----------------------------------------------------------------------------
(* The elements of a sequence outside a set.                               *)

\* A set of numbers that has a member has a least one.
LEMMA LeastNumber ==
  ASSUME NEW T, T \subseteq Nat, T # {}
  PROVE  \E n \in T : \A m \in T : n <= m
<1> DEFINE R == OpToRel(<, Nat)
<1>1. \A x, y \in Nat : <<x, y>> \in R <=> x < y
  BY DEF OpToRel
<1>2. IsWellFoundedOn(R, Nat)
  BY NatLessThanWellFounded
<1> HIDE DEF R
<1>3. PICK n \in T : \A m \in T : ~ (<<m, n>> \in R)
  BY <1>2, WFMin
<1>4. \A m \in T : n \in Nat /\ m \in Nat /\ ~ (m < n)
  BY <1>1, <1>3
<1> QED BY <1>4

\* The count goes up by one at each element outside X.
LEMMA NthStep ==
  ASSUME NEW s, NEW X, NEW i \in Nat
  PROVE  /\ Nth(s, X, i) \in Nat /\ Nth(s, X, 0) = 0
         /\ Nth(s, X, i + 1) = IF s[i + 1] \in X THEN Nth(s, X, i)
                               ELSE Nth(s, X, i) + 1
<1> DEFINE P(k) == {j \in 1 .. k : s[j] \notin X}
<1>1. \A k \in Nat : IsFiniteSet(P(k)) /\ Cardinality(P(k)) \in Nat
  <2> TAKE k \in Nat
  <2>1. IsFiniteSet(1 .. k)
    BY FS_Interval
  <2>2. P(k) \in SUBSET (1 .. k)
    OBVIOUS
  <2> HIDE DEF P
  <2>3. IsFiniteSet(P(k))
    BY <2>1, <2>2, FS_Subset
  <2> QED BY <2>3, FS_CardinalityType
<1>2. P(0) = {}
  OBVIOUS
<1>3. P(i + 1) = IF s[i + 1] \in X THEN P(i) ELSE P(i) \cup {i + 1}
  OBVIOUS
<1>4. i + 1 \notin P(i)
  OBVIOUS
<1>5. \A k : Nth(s, X, k) = Cardinality(P(k))
  BY DEF Nth
<1> HIDE DEF P
<1>6. Cardinality(P(i) \cup {i + 1}) = Cardinality(P(i)) + 1
  BY <1>1, <1>4, FS_AddElement
<1>7. Cardinality(P(0)) = 0
  BY <1>2, FS_EmptySet
<1> QED BY <1>1, <1>3, <1>5, <1>6, <1>7

\* The same, backwards.
LEMMA NthBack ==
  ASSUME NEW s, NEW X, NEW i \in Nat \ {0}
  PROVE  /\ Nth(s, X, i - 1) \in Nat
         /\ Nth(s, X, i) = IF s[i] \in X THEN Nth(s, X, i - 1)
                           ELSE Nth(s, X, i - 1) + 1
<1> DEFINE k == i - 1
<1>1. k \in Nat /\ k + 1 = i
  OBVIOUS
<1> HIDE DEF k
<1>2. /\ Nth(s, X, k) \in Nat
      /\ Nth(s, X, k + 1) = IF s[k + 1] \in X THEN Nth(s, X, k) ELSE Nth(s, X, k) + 1
  BY <1>1, NthStep
<1>3. /\ Nth(s, X, k) \in Nat
      /\ Nth(s, X, i) = IF s[i] \in X THEN Nth(s, X, k) ELSE Nth(s, X, k) + 1
  BY <1>1, <1>2
<1> QED BY <1>3 DEF k

\* Counting on never counts back, and the next one outside counts one more.
LEMMA NthGrows ==
  ASSUME NEW s, NEW X, NEW i \in Nat, NEW j \in Nat, i < j
  PROVE  /\ Nth(s, X, i) <= Nth(s, X, j)
         /\ s[j] \notin X => Nth(s, X, i) < Nth(s, X, j)
<1> DEFINE A == {k \in 1 .. i : s[k] \notin X}
           B == {k \in 1 .. j : s[k] \notin X}
<1>1. A \subseteq B /\ B \subseteq 1 .. j
  OBVIOUS
<1>2. s[j] \notin X => j \in B /\ j \notin A
  OBVIOUS
<1>3. Nth(s, X, i) = Cardinality(A) /\ Nth(s, X, j) = Cardinality(B)
  BY DEF Nth
<1>4. Nth(s, X, i) \in Nat /\ Nth(s, X, j) \in Nat
  BY NthStep
<1> HIDE DEF A, B
<1>5. IsFiniteSet(B)
  <2>1. IsFiniteSet(1 .. j)
    BY FS_Interval
  <2> QED BY <1>1, <2>1, FS_Subset
<1>6. Cardinality(A) <= Cardinality(B) /\ (Cardinality(B) = Cardinality(A) => A = B)
  BY <1>1, <1>5, FS_Subset
<1> QED BY <1>2, <1>3, <1>4, <1>6

\* Each number up to the count is that of one position.
LEMMA NthReaches ==
  ASSUME NEW s, NEW X, NEW N \in Nat, NEW n \in 1 .. Nth(s, X, N)
  PROVE  \E i \in 1 .. N : s[i] \notin X /\ Nth(s, X, i) = n
<1> DEFINE T == {i \in 0 .. N : n <= Nth(s, X, i)}
<1>0. \A i \in Nat : Nth(s, X, i) \in Nat
  BY NthStep
<1>1. n \in Nat /\ n >= 1 /\ n <= Nth(s, X, N)
  BY <1>0
<1>2. N \in T
  BY <1>1
<1>3. PICK i \in T : \A m \in T : i <= m
  <2>1. T \subseteq Nat
    OBVIOUS
  <2> HIDE DEF T
  <2> QED BY <1>2, <2>1, LeastNumber
<1>4. i \in 0 .. N /\ n <= Nth(s, X, i)
  OBVIOUS
<1>5. i # 0
  BY <1>1, <1>4, NthStep
<1>6. i - 1 \in Nat /\ i - 1 \in 0 .. N /\ (i - 1) + 1 = i /\ i \in 1 .. N
  BY <1>4, <1>5
<1>7. ~ (n <= Nth(s, X, i - 1))
  BY <1>3, <1>6
<1>8. Nth(s, X, i) = IF s[i] \in X THEN Nth(s, X, i - 1) ELSE Nth(s, X, i - 1) + 1
  BY <1>6, NthBack
<1>9. Nth(s, X, i - 1) \in Nat
  BY <1>0, <1>6
<1> HIDE DEF T
<1> QED BY <1>1, <1>4, <1>6, <1>7, <1>8, <1>9

\* Without has each element outside X where it is counted, and nothing else.
LEMMA WithoutAt ==
  ASSUME NEW S, NEW s \in Seq(S), NEW X
  PROVE  /\ Len(Without(s, X)) = Nth(s, X, Len(s)) /\ Without(s, X) \in Seq(S)
         /\ \A i \in 1 .. Len(s) : s[i] \notin X =>
              /\ Nth(s, X, i) \in 1 .. Nth(s, X, Len(s))
              /\ Without(s, X)[Nth(s, X, i)] = s[i]
<1> DEFINE N == Len(s)
           M == Nth(s, X, N)
           Is(i, n) == s[i] \notin X /\ Nth(s, X, i) = n
           at(n) == CHOOSE i \in 1 .. N : Is(i, n)
<1>1. N \in Nat /\ M \in Nat /\ \A i \in 1 .. N : s[i] \in S
  BY NthStep
<1>2. Without(s, X) = [n \in 1 .. M |-> s[at(n)]]
  BY DEF Without
<1>3. \A n \in 1 .. M : at(n) \in 1 .. N /\ Is(at(n), n)
  <2> SUFFICES ASSUME NEW n \in 1 .. M
               PROVE  at(n) \in 1 .. N /\ Is(at(n), n)
    OBVIOUS
  <2>1. n \in 1 .. Nth(s, X, N)
    OBVIOUS
  <2> HIDE DEF N, M
  <2>2. \E i \in 1 .. N : Is(i, n)
    BY <1>1, <2>1, NthReaches
  <2> HIDE DEF Is
  <2> QED BY <2>2
<1>4. ASSUME NEW i \in 1 .. N, s[i] \notin X
      PROVE  Nth(s, X, i) \in 1 .. M /\ at(Nth(s, X, i)) = i
  <2>0. i \in Nat \ {0}
    BY <1>1
  <2>1. Nth(s, X, i) \in Nat /\ i \in Nat
    BY <2>0, NthStep
  <2>2. Nth(s, X, i) = Nth(s, X, i - 1) + 1 /\ Nth(s, X, i - 1) \in Nat
    BY <1>4, <2>0, NthBack
  <2>3. i = N \/ i < N
    BY <1>1
  <2>4. Nth(s, X, i) <= M
    BY <1>1, <2>1, <2>3, NthGrows
  <2>5. Nth(s, X, i) \in 1 .. M
    BY <1>1, <2>1, <2>2, <2>4
  <2> DEFINE k == at(Nth(s, X, i))
  <2>6. k \in 1 .. N /\ s[k] \notin X /\ Nth(s, X, k) = Nth(s, X, i)
    BY <1>3, <2>5
  <2> HIDE DEF k
  <2>7. ~ (k < i)
    BY <1>1, <1>4, <2>1, <2>6, NthGrows
  <2>8. ~ (i < k)
    BY <1>1, <2>1, <2>6, NthGrows
  <2>9. k = i
    BY <1>1, <2>1, <2>6, <2>7, <2>8
  <2> QED BY <2>5, <2>9 DEF k
<1> HIDE DEF at, M, N
<1>5. \A n \in 1 .. M : s[at(n)] \in S
  BY <1>1, <1>3
<1>6. Without(s, X) \in [1 .. M -> S]
  BY <1>2, <1>5
<1>7. Without(s, X) \in Seq(S) /\ Len(Without(s, X)) = M
  BY <1>1, <1>6
<1>8. \A i \in 1 .. N : s[i] \notin X =>
        Nth(s, X, i) \in 1 .. M /\ Without(s, X)[Nth(s, X, i)] = s[i]
  BY <1>2, <1>4
<1> QED BY <1>7, <1>8 DEF M, N

-----------------------------------------------------------------------------
(* Sequences joined one after another.                                     *)

Associates(u, v, w, x) == (u \o v \o w) \o x = u \o v \o (w \o x)

\* What the sequences over a set have that the proofs about joining need.
Joins(V) ==
  /\ << >> \in V /\ \A v \in V : v = << >> \o v /\ v = v \o << >>
  /\ \A v, w \in V : v \o w \in V
  /\ \A u, v, w, x \in V : Associates(u, v, w, x)

\* There is the function that joins one more of q at each step: it exists up
\* to a least n where it does not, and there it is one join away.
LEMMA Chain ==
  ASSUME NEW V, NEW K \in Nat \ {0}, NEW q \in [1 .. K -> V], Joins(V)
  PROVE  \E f \in [1 .. K -> V] :
           \A i \in 1 .. K : f[i] = IF i = 1 THEN q[i] ELSE f[i - 1] \o q[i]
<1> DEFINE Sums(f, n) ==
             \A i \in 1 .. n : f[i] = IF i = 1 THEN q[i] ELSE f[i - 1] \o q[i]
           T == {n \in 1 .. K : ~ \E f \in [1 .. n -> V] : Sums(f, n)}
<1>1. SUFFICES ASSUME T # {} PROVE FALSE
  OBVIOUS
<1>2. PICK n \in T : \A m \in T : n <= m
  <2>1. T \subseteq Nat
    OBVIOUS
  <2> HIDE DEF T
  <2> QED BY <1>1, <2>1, LeastNumber
<1>3. n \in 1 .. K /\ ~ \E f \in [1 .. n -> V] : Sums(f, n)
  OBVIOUS
<1>4. CASE n = 1
  <2> DEFINE f == [i \in 1 .. n |-> q[i]]
  <2>1. f \in [1 .. n -> V] /\ Sums(f, n)
    BY <1>3, <1>4
  <2> QED BY <1>3, <2>1
<1>5. CASE n # 1
  <2>1. n - 1 \in 1 .. K /\ ~ (n <= n - 1)
    BY <1>3, <1>5
  <2>2. n - 1 \notin T
    BY <1>2, <2>1
  <2>3. PICK f \in [1 .. n - 1 -> V] : Sums(f, n - 1)
    BY <2>1, <2>2
  <2> DEFINE h == [i \in 1 .. n |-> IF i = n THEN f[n - 1] \o q[n] ELSE f[i]]
  <2>4. f[n - 1] \o q[n] \in V
    BY <1>3, <2>1 DEF Joins
  <2>5. h \in [1 .. n -> V]
    BY <1>3, <2>4
  <2>6. ASSUME NEW i \in 1 .. n
        PROVE  h[i] = IF i = 1 THEN q[i] ELSE h[i - 1] \o q[i]
    <3>1. CASE i = n
      <4>1. h[i - 1] = f[n - 1] /\ i # 1
        BY <1>3, <1>5, <3>1
      <4> QED BY <3>1, <4>1
    <3>2. CASE i # n
      <4>1. i \in 1 .. n - 1 /\ h[i] = f[i]
        BY <1>3, <3>2
      <4>2. i # 1 => h[i - 1] = f[i - 1]
        BY <1>3, <4>1
      <4> QED BY <2>3, <4>1, <4>2
    <3> QED BY <3>1, <3>2
  <2> QED BY <1>3, <2>5, <2>6
<1> QED BY <1>4, <1>5

\* q, all of it, is in s, in one piece after another.
Within(s, q, V) ==
  s \in V /\ \A k \in DOMAIN q : \E p, t \in V : s = p \o q[k] \o t

\* By the least n at which it fails, again.
LEMMA FlattenJoins ==
  ASSUME NEW V, Joins(V), NEW K \in Nat \ {0}, NEW q \in [1 .. K -> V],
         Len(q) = K
  PROVE  Within(FlattenSeq(q), q, V)
<1> DEFINE Is(f) == f = [i \in 1 .. K |->
                      IF i = 1 THEN q[i] ELSE f[i - 1] \o q[i]]
           h == CHOOSE f : Is(f)
<1>1. FlattenSeq(q) = h[K]
  BY DEF FlattenSeq
<1>2. /\ << >> \in V /\ \A v \in V : v = << >> \o v /\ v = v \o << >>
      /\ \A v, w \in V : v \o w \in V
  BY DEF Joins
<1>3. PICK f \in [1 .. K -> V] :
        \A i \in 1 .. K : f[i] = IF i = 1 THEN q[i] ELSE f[i - 1] \o q[i]
  BY Chain
<1>4. Is(f)
  <2>1. f = [i \in 1 .. K |-> f[i]]
    OBVIOUS
  <2> QED BY <1>3, <2>1
<1>5. Is(h)
  <2> HIDE DEF Is
  <2> QED BY <1>4
<1>6. \A i \in 1 .. K : h[i] = IF i = 1 THEN q[i] ELSE h[i - 1] \o q[i]
  <2> HIDE DEF h
  <2> QED BY <1>5
<1> HIDE DEF h, Is
<1> DEFINE Bad == {n \in 1 .. K : h[n] \notin V}
<1>7. Bad = {}
  <2>1. SUFFICES ASSUME Bad # {} PROVE FALSE
    OBVIOUS
  <2>2. Bad \subseteq Nat
    OBVIOUS
  <2>3. PICK n \in Bad : \A m \in Bad : n <= m
    <3> HIDE DEF Bad
    <3> QED BY <2>1, <2>2, LeastNumber
  <2>4. n \in 1 .. K /\ h[n] \notin V
    OBVIOUS
  <2>5. n # 1
    BY <1>6, <2>4
  <2>6. n - 1 \in 1 .. K /\ ~ (n <= n - 1)
    BY <2>4, <2>5
  <2>7. h[n - 1] \in V
    BY <2>3, <2>6
  <2>8. h[n] = h[n - 1] \o q[n]
    BY <1>6, <2>4, <2>5
  <2> QED BY <1>2, <2>4, <2>7, <2>8
<1>8. \A n \in 1 .. K : h[n] \in V
  BY <1>7
<1> HIDE DEF Bad
<1>9. ASSUME NEW k \in 1 .. K
       PROVE  \E p, t \in V : h[K] = p \o q[k] \o t
  <2> DEFINE Has(n) == \E p, t \in V : h[n] = p \o q[k] \o t
             T == {n \in k .. K : ~ Has(n)}
  <2>1. SUFFICES ASSUME T # {} PROVE FALSE
    <3>1. K \in k .. K
      OBVIOUS
    <3> QED BY <3>1
  <2>2. T \subseteq Nat
    OBVIOUS
  <2>3. PICK n \in T : \A m \in T : n <= m
    <3> HIDE DEF T
    <3> QED BY <2>1, <2>2, LeastNumber
  <2>4. n \in k .. K /\ n \in 1 .. K /\ ~ Has(n)
    <3> HIDE DEF Has
    <3> QED OBVIOUS
  <2>5. q[k] \in V /\ q[n] \in V
    BY <2>4
  <2>6. n # 1 => n - 1 \in 1 .. K /\ h[n - 1] \in V /\ h[n] = h[n - 1] \o q[n]
    <3>1. n \in 1 .. K
      BY <2>4
    <3>2. n # 1 => n - 1 \in 1 .. K
      BY <3>1
    <3>3. h[n] = IF n = 1 THEN q[n] ELSE h[n - 1] \o q[n]
      BY <1>6, <3>1
    <3> QED BY <1>8, <3>2, <3>3
  <2>7. CASE n = k /\ n = 1
    <3>1. h[n] = q[k]
      BY <1>6, <2>4, <2>7
    <3>2. h[n] = << >> \o q[k] \o << >>
      BY <1>2, <2>5, <3>1
    <3> QED BY <1>2, <2>4, <3>2
  <2>8. CASE n = k /\ n # 1
    <3>1. h[n] = h[n - 1] \o q[k] /\ h[n - 1] \in V
      BY <2>6, <2>8
    <3>2. h[n - 1] \o q[k] \in V
      BY <1>2, <2>5, <3>1
    <3>3. h[n] = h[n - 1] \o q[k] \o << >>
      BY <1>2, <3>1, <3>2
    <3> QED BY <1>2, <2>4, <3>1, <3>3
  <2>9. CASE n # k
    <3>1. n - 1 \in k .. K /\ ~ (n <= n - 1) /\ n # 1
      BY <2>4, <2>9
    <3>2. Has(n - 1)
      BY <2>3, <3>1
    <3>3. PICK p, t \in V : h[n - 1] = p \o q[k] \o t
      BY <3>2
    <3>4. h[n] = (p \o q[k] \o t) \o q[n]
      BY <2>6, <3>1, <3>3
    <3>5. (p \o q[k] \o t) \o q[n] = p \o q[k] \o (t \o q[n])
      <4>1. PICK y, z \in V : y = q[k] /\ z = q[n]
        BY <2>5
      <4>2. Associates(p, y, t, z)
        BY DEF Joins
      <4> QED BY <4>1, <4>2 DEF Associates
    <3>6. h[n] = p \o q[k] \o (t \o q[n])
      BY <3>4, <3>5
    <3>7. t \o q[n] \in V
      BY <1>2, <2>5
    <3> QED BY <2>4, <3>6, <3>7
  <2> QED BY <2>7, <2>8, <2>9
<1>10. h[K] \in V
  <2>1. K \in 1 .. K
    OBVIOUS
  <2> QED BY <1>8, <2>1
<1> QED BY <1>1, <1>9, <1>10 DEF Within

\* FlattenSeq(q) contains each sequence of q in one piece.
LEMMA FlattenHas ==
  ASSUME NEW S, NEW K \in Nat, NEW q \in [1 .. K -> Seq(S)]
  PROVE  Within(FlattenSeq(q), q, Seq(S))
<1>1. Len(q) = K /\ (K = 0 => q = << >>)
  OBVIOUS
<1>2. CASE K = 0
  BY <1>1, <1>2 DEF FlattenSeq, Within
<1>3. CASE K # 0
  <2>1. Joins(Seq(S))
    BY DEF Joins, Associates
  <2>2. K \in Nat \ {0}
    BY <1>3
  <2>3. PICK V : V = Seq(S)
    OBVIOUS
  <2>4. PICK r \in [1 .. K -> V] : r = q
    BY <2>3
  <2>5. Len(r) = K /\ Joins(V)
    BY <1>1, <2>1, <2>3, <2>4
  <2>6. Within(FlattenSeq(r), r, V)
    BY <2>2, <2>5, FlattenJoins
  <2> QED BY <2>3, <2>4, <2>6
<1> QED BY <1>2, <1>3

\* An ordering of a finite set has each of its members.
LEMMA OrdersAll ==
  ASSUME NEW S, IsFiniteSet(S), NEW q \in SetToSeqs(S)
  PROVE  \E K \in Nat : q \in [1 .. K -> S] /\ \A e \in S : \E k \in 1 .. K : q[k] = e
<1> DEFINE K == Cardinality(S)
<1>1. K \in Nat
  BY FS_CardinalityType
<1>2. q \in [1 .. K -> S] /\ \A i, j \in 1 .. K : i # j => q[i] # q[j]
  BY DEF SetToSeqs
<1>3. IsFiniteSet(1 .. K) /\ Cardinality(1 .. K) = K
  BY <1>1, FS_Interval
<1>4. q \in Injection(1 .. K, S)
  BY <1>2 DEF Injection, IsInjective
<1>5. q \in Surjection(1 .. K, S)
  BY <1>3, <1>4, FS_Injection
<1> QED BY <1>1, <1>2, <1>5 DEF Surjection

-----------------------------------------------------------------------------
(* Pieces of a sequence.                                                   *)

\* s is in a, in one piece.
Piece(s, a) == \E i \in 0 .. Len(a) - Len(s) : SubSeq(a, i + 1, i + Len(s)) = s

\* A piece of a sequence is where the pieces before it end.
LEMMA PieceAt ==
  ASSUME NEW S, NEW p \in Seq(S), NEW s \in Seq(S), NEW t \in Seq(S)
  PROVE  Piece(s, p \o s \o t)
<1> DEFINE a == p \o s \o t
           n == Len(p)
           m == Len(s)
<1>1. /\ n \in Nat /\ m \in Nat /\ Len(t) \in Nat /\ Len(a) = n + m + Len(t)
      /\ a \in Seq(S)
  OBVIOUS
<1>2. \A i \in 1 .. m : a[n + i] = s[i]
  OBVIOUS
<1> HIDE DEF a
<1>3. n + 1 >= 1 /\ n + m <= Len(a)
  BY <1>1
<1>4. SubSeq(a, n + 1, n + m) = [i \in 1 .. m |-> a[n + i]]
  <2>1. SubSeq(a, n + 1, n + m) =
          [i \in 1 .. ((n + m) - (n + 1)) + 1 |-> a[(i + (n + 1)) - 1]]
    BY <1>1, <1>3
  <2>2. ((n + m) - (n + 1)) + 1 = m /\ \A i \in 1 .. m : (i + (n + 1)) - 1 = n + i
    BY <1>1
  <2> QED BY <2>1, <2>2
<1>5. s = [i \in 1 .. m |-> s[i]]
  OBVIOUS
<1>6. SubSeq(a, n + 1, n + m) = s
  BY <1>2, <1>4, <1>5
<1>7. n \in 0 .. Len(a) - m
  BY <1>1
<1>8. Piece(s, a)
  BY <1>6, <1>7 DEF Piece
<1> QED BY <1>8 DEF a

\* What IsPrefix and IsSuffix say of two sequences joined.
LEMMA StartsWith ==
  ASSUME NEW S, NEW s \in Seq(S), NEW t \in Seq(S)
  PROVE  IsPrefix(s, s \o t)
<1> DEFINE a == s \o t
<1>1. Len(s) <= Len(a) /\ a \in Seq(S) /\ Len(s) \in Nat
  OBVIOUS
<1>2. \A i \in 1 .. Len(s) : a[i] = s[i]
  OBVIOUS
<1> HIDE DEF a
<1>3. SubSeq(s, 1, Len(s)) = SubSeq(a, 1, Len(s))
  BY <1>1, <1>2
<1> QED BY <1>1, <1>3 DEF IsPrefix, a

LEMMA EndsWith ==
  ASSUME NEW S, NEW s \in Seq(S), NEW t \in Seq(S)
  PROVE  IsSuffix(t, s \o t)
<1> DEFINE a == s \o t
           ra == Reverse(a)
           rt == Reverse(t)
<1>1. /\ Len(a) = Len(s) + Len(t) /\ a \in Seq(S)
      /\ Len(s) \in Nat /\ Len(t) \in Nat
  OBVIOUS
<1>2. \A i \in 1 .. Len(t) : a[(Len(a) - i) + 1] = t[(Len(t) - i) + 1]
  OBVIOUS
<1>3. ra = [i \in 1 .. Len(a) |-> a[(Len(a) - i) + 1]]
  BY DEF Reverse
<1>4. rt = [i \in 1 .. Len(t) |-> t[(Len(t) - i) + 1]]
  BY DEF Reverse
<1> HIDE DEF a
<1>5. \A i \in 1 .. Len(a) : a[(Len(a) - i) + 1] \in S
  BY <1>1
<1>6. \A i \in 1 .. Len(t) : t[(Len(t) - i) + 1] \in S
  BY <1>1
<1> HIDE DEF ra, rt
<1>7. ra \in Seq(S) /\ Len(ra) = Len(a)
  <2>1. ra \in [1 .. Len(a) -> S] /\ Len(a) \in Nat
    BY <1>1, <1>3, <1>5
  <2> QED BY <2>1
<1>8. rt \in Seq(S) /\ Len(rt) = Len(t)
  <2>1. rt \in [1 .. Len(t) -> S]
    BY <1>4, <1>6
  <2> QED BY <1>1, <2>1
<1>9. Len(t) <= Len(a)
  BY <1>1
<1>10. \A i \in 1 .. Len(t) : i \in 1 .. Len(a) /\ ra[i] = rt[i]
  BY <1>1, <1>2, <1>3, <1>4, <1>9
<1>11. SubSeq(rt, 1, Len(t)) = SubSeq(ra, 1, Len(t))
  BY <1>1, <1>7, <1>8, <1>9, <1>10
<1> QED BY <1>7, <1>8, <1>9, <1>11 DEF IsSuffix, IsPrefix, a, ra, rt

-----------------------------------------------------------------------------
(* From the request to the parameters of the function.                     *)

\* What is asked of the parameters of a call.
Asked(c, a) ==
  /\ a \in Seq(Values)
  /\ IsPrefix(c.path, a) /\ IsSuffix(BodyArgs(c), a)
  /\ IF c.parses THEN \A n \in Names(c.query) : Piece(Named(c.query, n), a)
     ELSE a = c.path \o BodyArgs(c)

\* A sequence that is made of three has each, and what the middle one has.
LEMMA Assembled ==
  ASSUME NEW S, NEW p \in Seq(S), NEW m \in Seq(S), NEW b \in Seq(S), NEW a,
         a = p \o m \o b
  PROVE  a \in Seq(S) /\ IsPrefix(p, a) /\ IsSuffix(b, a)
<1>1. a = p \o (m \o b) /\ m \o b \in Seq(S) /\ p \o m \in Seq(S) /\ a \in Seq(S)
  OBVIOUS
<1>2. IsPrefix(p, a)
  BY <1>1, StartsWith
<1>3. IsSuffix(b, a)
  BY <1>1, EndsWith
<1> QED BY <1>1, <1>2, <1>3

Joined(s, t) == s \o t

LEMMA JoinedIs ==
  ASSUME NEW S, NEW s \in Seq(S), NEW t \in Seq(S)
  PROVE  Joined(s, t) \in Seq(S)
  BY DEF Joined

LEMMA JoinedAssociates ==
  ASSUME NEW S, NEW s \in Seq(S), NEW t \in Seq(S), NEW u \in Seq(S)
  PROVE  Joined(Joined(s, t), u) = Joined(s, Joined(t, u))
  BY DEF Joined

Regrouped(u, p, s, t, v) == (u \o (p \o s \o t)) \o v = (u \o p) \o s \o (t \o v)

LEMMA Regroup ==
  ASSUME NEW S, NEW u \in Seq(S), NEW p \in Seq(S), NEW s \in Seq(S),
         NEW t \in Seq(S), NEW v \in Seq(S)
  PROVE  Regrouped(u, p, s, t, v)
<1> DEFINE ps == Joined(p, s)
           tv == Joined(t, v)
           stv == Joined(s, tv)
<1>1. /\ ps \in Seq(S) /\ tv \in Seq(S) /\ Joined(ps, t) \in Seq(S)
      /\ Joined(u, p) \in Seq(S) /\ stv \in Seq(S)
  BY JoinedIs
<1>2. Joined(Joined(u, Joined(ps, t)), v) = Joined(u, Joined(Joined(ps, t), v))
  BY <1>1, JoinedAssociates
<1>3. Joined(Joined(ps, t), v) = Joined(ps, tv)
  BY <1>1, JoinedAssociates
<1>4. Joined(ps, tv) = Joined(p, stv)
  BY <1>1, JoinedAssociates
<1>5. Joined(Joined(Joined(u, p), s), tv) = Joined(Joined(u, p), stv)
  BY <1>1, JoinedAssociates
<1>6. Joined(Joined(u, p), stv) = Joined(u, Joined(p, stv))
  BY <1>1, JoinedAssociates
<1>7. Joined(Joined(u, Joined(ps, t)), v) = Joined(Joined(Joined(u, p), s), tv)
  BY <1>2, <1>3, <1>4, <1>5, <1>6
<1> QED BY <1>7 DEF Joined, Regrouped

LEMMA PieceOf ==
  ASSUME NEW S, NEW p \in Seq(S), NEW b \in Seq(S), NEW a, NEW m,
         NEW l \in Seq(S), NEW s \in Seq(S), NEW t \in Seq(S),
         m = l \o s \o t, a = p \o m \o b
  PROVE  Piece(s, a)
<1> DEFINE u == p \o l
           v == t \o b
<1>1. u \in Seq(S) /\ v \in Seq(S)
  OBVIOUS
<1>2. Regrouped(p, l, s, t, b)
  BY Regroup
<1>3. a = u \o s \o v
  BY <1>2 DEF Regrouped
<1> HIDE DEF u, v
<1>4. Piece(s, u \o s \o v)
  BY <1>1, PieceAt
<1> QED BY <1>3, <1>4

\* A query has finitely many names, and parameters under each.
LEMMA QueryNamed ==
  ASSUME NEW q \in Seq([name : STRING, value : Values])
  PROVE  IsFiniteSet(Names(q)) /\ \A n : Named(q, n) \in Seq(Values)
<1>1. IsFiniteSet(Names(q))
  <2>1. IsFiniteSet(1 .. Len(q))
    BY FS_Interval
  <2>2. Names(q) = {q[i].name : i \in 1 .. Len(q)}
    BY DEF Names, ToSet
  <2> DEFINE f == [i \in 1 .. Len(q) |-> q[i].name]
  <2>3. f \in Surjection(1 .. Len(q), Names(q))
    BY <2>2 DEF Surjection
  <2> HIDE DEF f
  <2> QED BY <2>1, <2>3, FS_Surjection
<1>2. ASSUME NEW n PROVE Named(q, n) \in Seq(Values)
  <2> DEFINE ps == Without(q, {p \in ToSet(q) : p.name # n})
  <2>1. ps \in Seq([name : STRING, value : Values])
    BY WithoutAt
  <2>2. Named(q, n) = [i \in 1 .. Len(ps) |-> ps[i].value]
    BY DEF Named
  <2> HIDE DEF ps
  <2>3. Len(ps) \in Nat /\ \A i \in 1 .. Len(ps) : ps[i].value \in Values
    <3> DEFINE P == [name : STRING, value : Values]
    <3>1. \A p \in P : p.value \in Values
      OBVIOUS
    <3>2. ps \in Seq(P)
      BY <2>1
    <3> HIDE DEF P
    <3>3. Len(ps) \in Nat /\ \A i \in 1 .. Len(ps) : ps[i] \in P
      BY <3>2
    <3> QED BY <3>1, <3>3
  <2> QED BY <2>2, <2>3
<1> QED BY <1>1, <1>2

\* However the query's names are ordered.
LEMMA ArgumentsAsked ==
  ASSUME NEW c \in Calls, NEW a \in Arguments(c)
  PROVE  Asked(c, a)
<1> DEFINE Q == Query(c)
<1>1. /\ c.path \in Seq(Values) /\ BodyArgs(c) \in Seq(Values)
      /\ Q \in Seq([name : STRING, value : Values]) /\ c.parses \in BOOLEAN
      /\ Q = IF c.parses THEN c.query ELSE << >>
  <2>1. /\ c.path \in Seq(Values) /\ c.body \in Seq(Values) /\ c.parses \in BOOLEAN
        /\ c.query \in Seq([name : STRING, value : Values])
    BY DispatchAssumption DEF DispatchAssumption
  <2>2. BodyArgs(c) \in Seq(Values)
    BY <2>1 DEF BodyArgs
  <2> DEFINE P == [name : STRING, value : Values]
  <2> HIDE DEF P
  <2>3. << >> \in Seq(P)
    OBVIOUS
  <2>4. << >> \in Seq([name : STRING, value : Values])
    BY <2>3 DEF P
  <2> QED BY <2>1, <2>2, <2>4 DEF Query
<1>2. PICK ns \in SetToSeqs(Names(Q)) :
        a = c.path \o FlattenSeq([i \in DOMAIN ns |-> Named(Q, ns[i])]) \o BodyArgs(c)
  BY DEF Arguments
<1> HIDE DEF Q
<1>3. IsFiniteSet(Names(Q)) /\ \A n : Named(Q, n) \in Seq(Values)
  BY <1>1, QueryNamed
<1>4. PICK K \in Nat : /\ ns \in [1 .. K -> Names(Q)]
                       /\ \A e \in Names(Q) : \E k \in 1 .. K : ns[k] = e
  BY <1>3, OrdersAll
<1> DEFINE q == [i \in DOMAIN ns |-> Named(Q, ns[i])]
<1>5. q \in [1 .. K -> Seq(Values)] /\ \A k \in 1 .. K : q[k] = Named(Q, ns[k])
  BY <1>3, <1>4
<1>6. a = c.path \o FlattenSeq(q) \o BodyArgs(c)
  BY <1>2
<1> HIDE DEF q
<1>7. Within(FlattenSeq(q), q, Seq(Values))
  BY <1>5, FlattenHas
<1>8. FlattenSeq(q) \in Seq(Values)
  BY <1>7 DEF Within
<1>9. a \in Seq(Values) /\ IsPrefix(c.path, a) /\ IsSuffix(BodyArgs(c), a)
  BY <1>1, <1>6, <1>8, Assembled
<1>10. ASSUME NEW n \in Names(Q) PROVE Piece(Named(Q, n), a)
  <2>1. PICK k \in 1 .. K : q[k] = Named(Q, n)
    BY <1>4, <1>5
  <2>2. PICK l, t \in Seq(Values) : FlattenSeq(q) = l \o Named(Q, n) \o t
    BY <1>5, <1>7, <2>1 DEF Within
  <2> QED BY <1>1, <1>3, <1>6, <2>2, PieceOf
<1>11. ASSUME ~c.parses PROVE a = c.path \o BodyArgs(c)
  <2>1. Names(Q) = {}
    BY <1>1, <1>11 DEF Names, ToSet
  <2>2. K = 0
    BY <1>4, <2>1
  <2>3. q = << >>
    BY <1>5, <2>2
  <2>4. FlattenSeq(q) = << >>
    BY <2>3 DEF FlattenSeq
  <2> QED BY <1>1, <1>6, <2>4
<1> QED BY <1>1, <1>9, <1>10, <1>11 DEF Asked

\* What callValuesI hands over is injected where the binding says so, and
\* elsewhere the parameters of the request, all of them and in their order.
HandedOver(r, a, ps) ==
  /\ Without(CallValues(r), Requests \cup {Default}) = a
  /\ \A i \in 1 .. Len(ps) :
       IF ps[i] \in Injected THEN CallValues(r)[i] = Provided(r, ps[i])
       ELSE /\ Nth(ps, Injected, i) \in 1 .. Len(a)
            /\ CallValues(r)[i] = a[Nth(ps, Injected, i)]
            /\ CallValues(r)[i] \in Values
            /\ Plain(Binding(r))[Nth(ps, Injected, i)] = ps[i]

LEMMA HandsOver ==
  ASSUME NEW r \in Requests, NEW a \in Seq(Values), a = req[r].args,
         NEW ps \in Seq(Types), ps = Binding(r).params,
         Len(a) = ArgCount(Binding(r))
  PROVE  HandedOver(r, a, ps)
<1> DEFINE got == CallValues(r)
           N == Len(ps)
           Objects == Requests \cup {Default}
           nth(i) == Nth(ps, Injected, i)
<1>1. N \in Nat /\ got = [i \in 1 .. N |-> IF ps[i] \in Injected THEN Provided(r, ps[i])
                                          ELSE a[nth(i)]]
  BY DEF CallValues
<1>2. Len(a) = nth(N) /\ Plain(Binding(r)) = Without(ps, Injected)
  BY WithoutAt DEF ArgCount, Plain
<1>3. \A i \in 1 .. N : ps[i] \notin Injected =>
        nth(i) \in 1 .. Len(a) /\ Without(ps, Injected)[nth(i)] = ps[i]
  BY <1>2, WithoutAt
<1>4. \A t : Provided(r, t) \in Objects
  BY DEF Provided
<1>5. \A k \in 1 .. Len(a) : a[k] \in Values /\ a[k] \notin Objects
  BY DispatchAssumption DEF DispatchAssumption
<1> HIDE DEF got, nth
<1>6. \A i \in 1 .. N : /\ got[i] \in Values \cup Objects
                        /\ got[i] \in Objects <=> ps[i] \in Injected
  BY <1>1, <1>3, <1>4, <1>5
<1>7. got \in Seq(Values \cup Objects) /\ Len(got) = N
  <2>1. got \in [1 .. N -> Values \cup Objects]
    BY <1>1, <1>6
  <2> QED BY <1>1, <2>1
<1>8. \A i \in 0 .. N : Nth(got, Objects, i) = nth(i)
  <2> TAKE i \in 0 .. N
  <2>1. \A j \in 1 .. i : got[j] \notin Objects <=> ps[j] \notin Injected
    BY <1>1, <1>6
  <2>2. {j \in 1 .. i : got[j] \notin Objects} = {j \in 1 .. i : ps[j] \notin Injected}
    BY <2>1
  <2> QED BY <2>2 DEF Nth, nth
<1> DEFINE plain == Without(got, Objects)
           S == Values \cup Objects
<1> HIDE DEF S, Objects
<1>9. /\ Len(plain) = Nth(got, Objects, N) /\ plain \in Seq(S)
       /\ \A i \in 1 .. N : got[i] \notin Objects => plain[Nth(got, Objects, i)] = got[i]
  <2>1. got \in Seq(S) /\ Len(got) = N
    BY <1>7 DEF S
  <2> QED BY <2>1, WithoutAt
<1> HIDE DEF plain
<1>10. /\ Len(plain) = Len(a) /\ plain \in Seq(S)
      /\ \A i \in 1 .. N : got[i] \notin Objects => plain[Nth(got, Objects, i)] = got[i]
  <2>1. N \in 0 .. N
    BY <1>1
  <2> QED BY <1>2, <1>8, <1>9, <2>1
<1>11. ASSUME NEW n \in 1 .. Len(a) PROVE plain[n] = a[n]
  <2>1. n \in 1 .. Nth(ps, Injected, N)
    BY <1>2 DEF nth
  <2>2. PICK i \in 1 .. N : ps[i] \notin Injected /\ Nth(ps, Injected, i) = n
    BY <1>1, <2>1, NthReaches
  <2>3. nth(i) = n
    BY <2>2 DEF nth
  <2>4. got[i] = a[n] /\ got[i] \notin Objects
    BY <1>1, <1>6, <2>2, <2>3
  <2>5. Nth(got, Objects, i) = n
    BY <1>1, <1>8, <2>3
  <2> QED BY <1>10, <2>4, <2>5
<1>12. plain = a
  BY <1>10, <1>11
<1>13. ASSUME NEW i \in 1 .. N
       PROVE  IF ps[i] \in Injected THEN got[i] = Provided(r, ps[i])
              ELSE /\ nth(i) \in 1 .. Len(a) /\ got[i] = a[nth(i)] /\ got[i] \in Values
                   /\ Plain(Binding(r))[nth(i)] = ps[i]
  BY <1>1, <1>2, <1>3, <1>5
<1> QED BY <1>12, <1>13 DEF HandedOver, plain, Objects, got, nth

\* What InvokedAsAsked says of one request.
AsAsked(r) ==
  LET c == req[r].call
      ps == Binding(r).params
      got == CallValues(r)
      plain == Passed(r)
      Whole(s) == \E i \in 0 .. Len(plain) - Len(s) :
                    SubSeq(plain, i + 1, i + Len(s)) = s
  IN /\ IsPrefix(c.path, plain) /\ IsSuffix(BodyArgs(c), plain)
     /\ IF c.parses THEN \A n \in Names(c.query) : Whole(Named(c.query, n))
        ELSE plain = c.path \o BodyArgs(c)
     /\ \A i \in 1 .. Len(ps) :
          CASE ps[i] = "binary" -> got[i] \in {r, Default}
            [] ps[i] \in Injected \ {"binary"} -> got[i] = r
            [] OTHER -> got[i] \notin Requests \cup {Default}
                        /\ Converts(got[i], ps[i])

\* Parameters that fit and convert are handed over as asked.
LEMMA GetsAsAsked ==
  ASSUME NEW r \in Requests, req[r].call.to \in DOMAIN Table,
         Asked(req[r].call, req[r].args),
         Len(req[r].args) = ArgCount(Binding(r)), Convertible(r)
  PROVE  AsAsked(r)
<1>1. PICK a \in Seq(Values) : a = req[r].args
  BY DEF Asked
<1>2. PICK ps \in Seq(Types) : ps = Binding(r).params
  BY DispatchAssumption DEF DispatchAssumption, Binding
<1> DEFINE got == CallValues(r)
           Objects == Requests \cup {Default}
           plain == Without(got, Objects)
           Nr(i) == Nth(ps, Injected, i)
<1>3. /\ plain = a
      /\ \A i \in 1 .. Len(ps) :
              IF ps[i] \in Injected THEN got[i] = Provided(r, ps[i])
              ELSE /\ Nr(i) \in 1 .. Len(a) /\ got[i] = a[Nr(i)] /\ got[i] \in Values
                   /\ Plain(Binding(r))[Nr(i)] = ps[i]
  <2>1. HandedOver(r, a, ps)
    BY <1>1, <1>2, HandsOver
  <2> QED BY <2>1 DEF HandedOver
<1>4. \A n \in 1 .. Len(a) : Converts(a[n], Plain(Binding(r))[n])
  BY <1>1 DEF Convertible
<1>5. Values \cap Objects = {}
  BY DispatchAssumption DEF DispatchAssumption
<1> HIDE DEF got, plain, Objects, Nr
<1>6. ASSUME NEW i \in 1 .. Len(ps)
      PROVE  CASE ps[i] = "binary" -> got[i] \in {r, Default}
               [] ps[i] \in Injected \ {"binary"} -> got[i] = r
               [] OTHER -> got[i] \notin Objects /\ Converts(got[i], ps[i])
  <2>1. CASE ps[i] = "binary"
    <3>1. got[i] = Provided(r, ps[i])
      BY <1>3, <2>1 DEF Injected
    <3> QED BY <2>1, <3>1 DEF Provided
  <2>2. CASE ps[i] \in Injected \ {"binary"}
    <3>1. got[i] = Provided(r, ps[i])
      BY <1>3, <2>2
    <3>2. Provided(r, ps[i]) = r
      BY <2>2 DEF Provided
    <3> QED BY <2>2, <3>1, <3>2
  <2>3. CASE ps[i] \notin Injected
    <3>1. /\ Nr(i) \in 1 .. Len(a) /\ got[i] = a[Nr(i)] /\ got[i] \in Values
          /\ Plain(Binding(r))[Nr(i)] = ps[i]
      BY <1>3, <2>3
    <3>2. Converts(got[i], ps[i])
      BY <1>4, <3>1
    <3>3. got[i] \notin Objects
      BY <1>5, <3>1
    <3>4. ps[i] # "binary"
      BY <2>3 DEF Injected
    <3> QED BY <2>3, <3>2, <3>3, <3>4
  <2> QED BY <2>1, <2>2, <2>3
<1>7. /\ IsPrefix(req[r].call.path, plain) /\ IsSuffix(BodyArgs(req[r].call), plain)
      /\ IF req[r].call.parses
         THEN \A n \in Names(req[r].call.query) : Piece(Named(req[r].call.query, n), plain)
         ELSE plain = req[r].call.path \o BodyArgs(req[r].call)
  BY <1>1, <1>3 DEF Asked
<1>8. plain = Passed(r)
  BY DEF plain, Passed, got, Objects
<1> QED BY <1>2, <1>6, <1>7, <1>8 DEF AsAsked, Piece, got, Objects

-----------------------------------------------------------------------------
(* A function is called as asked.                                          *)

\* The parameters of a call and the binding they were counted for.
Fits(q) == /\ q.call.to \in DOMAIN Table /\ Asked(q.call, q.args)
           /\ Len(q.args) = ArgCount(Table[q.call.to])
Converted(q) ==
  \A i \in 1 .. ArgCount(Table[q.call.to]) :
    Converts(q.args[i], Plain(Table[q.call.to])[i])

\* From routing on a request has parameters that fit its binding; the
\* function has run only if they convert.
AskedReq(q) == /\ q.pc = "invoke" \/ q.called => Fits(q)
               /\ q.called => Converted(q)
AskedInv == \A r \in Requests : AskedReq(req[r])

LEMMA AskedStep ==
  ASSUME Typed, AskedInv, NEW r \in Requests, NEW q \in Reqs, Step(r, q), AskedReq(q)
  PROVE  AskedInv'
<1>1. \A s \in Requests : req'[s] = IF s = r THEN q ELSE req[s]
  BY OneStep
<1>2. \A s \in Requests : AskedReq(req'[s])
  BY <1>1 DEF AskedInv
<1> QED BY <1>2 DEF AskedInv, AskedReq, Fits, Converted

\* A request that does not go on to another stage before the function.
LEMMA StaysAsked ==
  ASSUME Typed, AskedInv, NEW r \in Requests, NEW q \in Reqs, Step(r, q),
         SameCall(q, req[r]), q.called = req[r].called,
         q.pc = "invoke" => req[r].pc = "invoke"
  PROVE  AskedInv'
<1>1. AskedReq(req[r])
  BY DEF AskedInv
<1>2. AskedReq(q)
  BY <1>1 DEF AskedReq, Fits, Converted, SameCall, SameRequest
<1> QED BY <1>2, AskedStep

LEMMA AskedInit == Init => AskedInv
  BY NoReqTyped DEF Init, AskedInv, AskedReq

LEMMA AskedNext == Typed /\ AskedInv /\ [Next]_vars => AskedInv'
<1> SUFFICES ASSUME Typed, AskedInv, [Next]_vars PROVE AskedInv'
  OBVIOUS
<1>0. TypeOK
  BY DEF Typed
<1>1. CASE UNCHANGED vars
  BY <1>1 DEF vars, AskedInv
<1>2. ASSUME NEW r \in Requests, NEW b \in Browsers, NEW c \in Calls, Arrive(r, b, c)
      PROVE  AskedInv'
  <2>1. PICK q \in Reqs : Step(r, q) /\ q.pc = "route" /\ ~q.called
    BY <1>0, <1>2, ArriveStep
  <2> QED BY <2>1, AskedStep DEF AskedReq
<1>3. ASSUME NEW r \in Requests, NEW b \in Browsers, NEW c \in Calls, NoContext(r, b, c)
      PROVE  AskedInv'
  <2>1. PICK q \in Reqs : Step(r, q) /\ q.pc = "respond" /\ ~q.called
    BY <1>3, NoContextStep
  <2> QED BY <2>1, AskedStep DEF AskedReq
<1>4. ASSUME NEW r \in Requests, Route(r) PROVE AskedInv'
  <2>1. PICK q \in Reqs :
           /\ Step(r, q) /\ Moved(q, req[r]) /\ req[r].pc = "route"
           /\ \/ q.pc = "flush"
              \/ /\ q.pc = "invoke" /\ q.call.to \in DOMAIN Table
                 /\ q.args \in Arguments(q.call)
                 /\ Len(q.args) = ArgCount(Table[q.call.to])
    BY <1>0, <1>4, RouteStep
  <2>2. ~q.called /\ q.call \in Calls
    BY <1>0, <2>1 DEF Typed, TypeOK, Early, Moved, SameRequest
  <2>3. AskedReq(q)
    BY <2>1, <2>2, ArgumentsAsked DEF AskedReq, Fits
  <2> QED BY <2>1, <2>3, AskedStep
<1>5. ASSUME NEW r \in Requests, Filter(r) PROVE AskedInv'
  <2>1. PICK q \in Reqs : /\ Step(r, q) /\ SameCall(q, req[r])
                          /\ q.called = req[r].called /\ req[r].pc = "invoke"
    BY <1>0, <1>5, FilterStep
  <2> QED BY <2>1, StaysAsked
<1>6. ASSUME NEW r \in Requests, InvokeCall(r) PROVE AskedInv'
  <2>1. CASE \E q \in Reqs : Step(r, q) /\ q.pc = "flush" /\ Kept(q, req[r])
    BY <2>1, StaysAsked DEF Kept, Moved, SameCall
  <2>2. CASE /\ req[r].pc = "invoke" /\ Convertible(r)
             /\ \E q \in Reqs : Step(r, q) /\ q.pc = "flush" /\ SameCall(q, req[r])
    <3>1. PICK q \in Reqs : Step(r, q) /\ q.pc = "flush" /\ SameCall(q, req[r])
      BY <2>2
    <3>2. Fits(req[r]) /\ Converted(req[r])
      BY <2>2 DEF AskedInv, AskedReq, Converted, Convertible, Binding
    <3>3. AskedReq(q)
      BY <3>1, <3>2 DEF AskedReq, Fits, Converted, SameCall, SameRequest
    <3> QED BY <3>1, <3>3, AskedStep
  <2> QED BY <1>0, <1>6, <2>1, <2>2, CallStep
<1>7. ASSUME NEW r \in Requests, InvokeHandler(r) PROVE AskedInv'
  <2>1. PICK q \in Reqs : Step(r, q) /\ q.pc = "flush" /\ Kept(q, req[r])
    BY <1>0, <1>7, HandlerStep
  <2> QED BY <2>1, StaysAsked DEF Kept, Moved, SameCall
<1>8. ASSUME NEW r \in Requests, InvokeRemote(r) PROVE AskedInv'
  <2>1. PICK q \in Reqs : Step(r, q) /\ q.pc = "send" /\ Kept(q, req[r])
    BY <1>0, <1>8, RemoteStep
  <2> QED BY <2>1, StaysAsked DEF Kept, Moved, SameCall
<1>9. ASSUME NEW r \in Requests, Send(r) PROVE AskedInv'
  <2>1. PICK q \in Reqs : /\ Step(r, q) /\ q.pc = "receive" /\ SameCall(q, req[r])
                          /\ q.called = req[r].called
    BY <1>0, <1>9, SendStep
  <2> QED BY <2>1, StaysAsked
<1>10. ASSUME NEW r \in Requests, Receive(r) PROVE AskedInv'
  <2>1. \A s \in Requests : /\ req'[s].pc = IF s = r THEN "flush" ELSE req[s].pc
                            /\ SameCall(req'[s], req[s])
                            /\ req'[s].called = req[s].called
    BY <1>0, <1>10, ReceiveStep
  <2>2. ASSUME NEW s \in Requests PROVE AskedReq(req[s])'
    <3>1. AskedReq(req[s])
      BY DEF AskedInv
    <3> QED BY <2>1, <3>1 DEF AskedReq, Fits, Asked, Converted, SameCall, SameRequest
  <2> QED BY <2>2 DEF AskedInv
<1>11. ASSUME NEW r \in Requests, Flush(r) PROVE AskedInv'
  <2>1. PICK q \in Reqs : /\ Step(r, q) /\ q.pc = "respond" /\ SameCall(q, req[r])
                          /\ q.called = req[r].called
    BY <1>0, <1>11, FlushStep
  <2> QED BY <2>1, StaysAsked
<1>12. ASSUME NEW r \in Requests, Respond(r) PROVE AskedInv'
  <2>1. PICK q \in Reqs : Step(r, q) /\ q.pc = "done" /\ Kept(q, req[r])
    BY <1>0, <1>12, RespondStep
  <2> QED BY <2>1, StaysAsked DEF Kept, Moved, SameCall
<1>13. CASE Restart
  <2>1. \A s \in Requests :
              \/ req'[s] = req[s]
              \/ req'[s].pc = "lost" /\ ~req'[s].called
    BY <1>0, <1>13, RestartStep
  <2>2. ASSUME NEW s \in Requests PROVE AskedReq(req[s])'
    BY <2>1 DEF AskedInv, AskedReq, Fits, Asked, Converted
  <2> QED BY <2>2 DEF AskedInv
<1> QED
  BY <1>1, <1>2, <1>3, <1>4, <1>5, <1>6, <1>7, <1>8, <1>9, <1>10, <1>11, <1>12, <1>13
  DEF Next, Serve

\* Whatever order the map gives the query's names, and whatever other requests
\* do meanwhile, a bound function has been called with the parameters of its
\* own request at their places and with nothing injected from another's.
THEOREM CalledAsAsked == Spec => []InvokedAsAsked
<1> DEFINE Inv == Typed /\ AskedInv
<1>1. Init => Inv
  BY TypedInit, AskedInit
<1>2. Inv /\ [Next]_vars => Inv'
  BY TypedNext, AskedNext
<1>3. Inv => InvokedAsAsked
  <2> SUFFICES ASSUME Inv, NEW r \in Requests, req[r].called PROVE AsAsked(r)
    BY DEF InvokedAsAsked, AsAsked
  <2>1. Fits(req[r]) /\ Converted(req[r])
    BY DEF AskedInv, AskedReq
  <2>2. Convertible(r)
    BY <2>1 DEF Converted, Convertible, Binding
  <2> QED BY <2>1, <2>2, GetsAsAsked DEF Fits, Binding
<1> HIDE DEF Inv
<1> QED BY <1>1, <1>2, <1>3, PTL DEF Spec
=============================================================================
