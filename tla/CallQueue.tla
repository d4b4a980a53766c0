----------------------------- MODULE CallQueue -----------------------------
(***************************************************************************)
(* The call queue of the generated JavaScript (templates.go, HTTP.Queue,   *)
(* HTTP.Call and Proxy.Call of the web engine): at most Max calls are open *)
(* at once, those beyond wait in Backlog, and a call that completes hands  *)
(* its slot to the first of them.                                          *)
(*                                                                         *)
(* JavaScript runs one thing at a time: the page's code, which makes       *)
(* calls, or the answer to an open one, whose callback may make calls too  *)
(* before the call is complete.  A call without a callback is synchronous  *)
(* and is over when $.ajax returns.  $.ajax is external: it calls complete *)
(* after the handler of success or error, and not at all if that throws,   *)
(* which the queue's error handler always does.  Calls are numbered as     *)
(* generateCRID does; the status hooks are left out and make no calls.     *)
(***************************************************************************)
EXTENDS Naturals, Sequences, FiniteSets

CONSTANTS Max,      \* MaxConcurrentCalls
          MaxCalls, \* bound on the calls made
          None

ASSUME QueueAssumption ==
  /\ Max \in Nat \ {0} /\ MaxCalls \in Nat
  /\ None \notin Nat

VARIABLES made,    \* callCounter: calls 1 .. made were made
          sync,    \* those of them that are synchronous
          backlog, \* HTTP.Backlog
          open,    \* Status.open: the call at each key
          running, \* key of the call whose callback runs, or None
          ended,   \* calls whose complete handler has run
          stuck,   \* failed: open for good, as complete never comes
          dropped  \* failed: $.ajax threw, they were not opened

vars == <<made, sync, backlog, open, running, ended, stuck, dropped>>

CallIds == 1 .. MaxCalls

Put(k, c, o) == [x \in DOMAIN o \cup {k} |-> IF x = k THEN c ELSE o[x]]
Without(k, o) == [x \in DOMAIN o \ {k} |-> o[x]]
Waiting == {backlog[i] : i \in 1 .. Len(backlog)}
Opened == {open[k] : k \in DOMAIN open}

\* Mutant of Full: one call too many.
FullAbove == Cardinality(DOMAIN open) > Max

Full == Cardinality(DOMAIN open) >= Max

Init ==
  /\ made = 0 /\ sync = {} /\ backlog = << >> /\ open = << >>
  /\ running = None /\ ended = {} /\ stuck = {} /\ dropped = {}

\* Mutant of Rest: the first of the backlog is sent and stays.
RestKept(p) == SubSeq(backlog, p + 1, Len(backlog))

\* What the backlog keeps when p calls were taken and then another.
Rest(p) == SubSeq(backlog, p + 2, Len(backlog))

\* Mutant of Drain: the call taken from the backlog is forgotten.
DrainForgets(k, c, o) ==
  /\ backlog' = IF backlog = << >> THEN << >> ELSE Tail(backlog)
  /\ open' = o
  /\ ended' = ended \cup {c}
  /\ UNCHANGED <<stuck, dropped>>

\* Mutant of Drain: a completed call starts no other.
DrainNothing(k, c, o) ==
  /\ open' = o
  /\ ended' = ended \cup {c}
  /\ UNCHANGED <<backlog, stuck, dropped>>

\* Call c is complete: its key k has gone from the open calls, o is left, and
\* the first call of the backlog is queued under k.  Synchronous ones are
\* over at once and each queues the next: p of them, then either the backlog
\* is empty, or an asynchronous one keeps the key, or a synchronous one
\* fails: with an error status it is stuck, without an answer $.ajax throws.
Drain(k, c, o) ==
  \E p \in 0 .. Len(backlog) :
    /\ \A i \in 1 .. p : backlog[i] \in sync
    /\ ended' = ended \cup {c} \cup {backlog[i] : i \in 1 .. p}
    /\ \/ /\ p = Len(backlog)
          /\ backlog' = << >> /\ open' = o
          /\ UNCHANGED <<stuck, dropped>>
       \/ /\ p < Len(backlog) /\ backlog[p + 1] \notin sync
          /\ backlog' = Rest(p) /\ open' = Put(k, backlog[p + 1], o)
          /\ UNCHANGED <<stuck, dropped>>
       \/ /\ p < Len(backlog) /\ backlog[p + 1] \in sync
          /\ backlog' = Rest(p) /\ open' = Put(k, backlog[p + 1], o)
          /\ stuck' = stuck \cup {backlog[p + 1]}
          /\ UNCHANGED dropped
       \/ /\ p < Len(backlog) /\ backlog[p + 1] \in sync
          /\ backlog' = Rest(p) /\ open' = o
          /\ dropped' = dropped \cup {backlog[p + 1]}
          /\ UNCHANGED stuck

-----------------------------------------------------------------------------
(* Calls that the page makes, also from a callback.                        *)

Make(synchronous) ==
  /\ made < MaxCalls
  /\ made' = made + 1
  /\ sync' = IF synchronous THEN sync \cup {made + 1} ELSE sync

\* Mutant of Queued: put in front of those that wait.
QueuedFirst(synchronous) ==
  /\ Full
  /\ Make(synchronous)
  /\ backlog' = <<made + 1>> \o backlog
  /\ UNCHANGED <<open, running, ended, stuck, dropped>>

\* The queue is full; a synchronous call returns without its result.
Queued(synchronous) ==
  /\ Full
  /\ Make(synchronous)
  /\ backlog' = Append(backlog, made + 1)
  /\ UNCHANGED <<open, running, ended, stuck, dropped>>

CallAsync ==
  /\ ~Full
  /\ Make(FALSE)
  /\ open' = Put(made + 1, made + 1, open)
  /\ UNCHANGED <<backlog, running, ended, stuck, dropped>>

\* Opened and complete at once: what waits, if an earlier failure left it
\* waiting, is taken up.
CallSync ==
  /\ ~Full
  /\ Make(TRUE)
  /\ Drain(made + 1, made + 1, open)
  /\ UNCHANGED running

\* An error status: $.ajax returns and the call is opened, but its error
\* handler threw where nobody sees it.
CallSyncRefused ==
  /\ ~Full
  /\ Make(TRUE)
  /\ open' = Put(made + 1, made + 1, open)
  /\ stuck' = stuck \cup {made + 1}
  /\ UNCHANGED <<backlog, running, ended, dropped>>

\* No answer at all: $.ajax throws.
CallSyncThrows ==
  /\ ~Full
  /\ Make(TRUE)
  /\ dropped' = dropped \cup {made + 1}
  /\ UNCHANGED <<backlog, open, running, ended, stuck>>

-----------------------------------------------------------------------------
(* Answers to open calls.                                                  *)

\* The call at key k succeeds and its callback begins.
Succeed(k) ==
  /\ running = None
  /\ k \in DOMAIN open /\ open[k] \notin stuck
  /\ running' = k
  /\ UNCHANGED <<made, sync, backlog, open, ended, stuck, dropped>>

\* It fails: the error handler throws, so complete is never called.
Error(k) ==
  /\ running = None
  /\ k \in DOMAIN open /\ open[k] \notin stuck
  /\ stuck' = stuck \cup {open[k]}
  /\ UNCHANGED <<made, sync, backlog, open, running, ended, dropped>>

\* The callback returns and the complete handler runs.
Complete ==
  /\ running # None
  /\ Drain(running, open[running], Without(running, open))
  /\ running' = None
  /\ UNCHANGED <<made, sync>>

\* The callback throws.
CallbackThrows ==
  /\ running # None
  /\ stuck' = stuck \cup {open[running]}
  /\ running' = None
  /\ UNCHANGED <<made, sync, backlog, open, ended, dropped>>

Calls ==
  \/ \E s \in BOOLEAN : Queued(s)
  \/ CallAsync \/ CallSync \/ CallSyncRefused \/ CallSyncThrows

Answer(k) == Succeed(k) \/ Error(k)

Next ==
  \/ Calls
  \/ \E k \in CallIds : Answer(k)
  \/ Complete \/ CallbackThrows

Spec == Init /\ [][Next]_vars
FairSpec ==
  /\ Spec
  /\ \A k \in CallIds : WF_vars(Answer(k))
  /\ WF_vars(Complete \/ CallbackThrows)

-----------------------------------------------------------------------------
\* Types; every call is in one place: it waits, is open, has ended or was
\* dropped, at one slot or position, and the open ones are never too many.
TypeOK ==
  /\ made \in 0 .. MaxCalls
  /\ sync \subseteq 1 .. made
  /\ DOMAIN open \subseteq 1 .. made
  /\ running \in DOMAIN open \cup {None}
  /\ 1 .. made = Waiting \cup Opened \cup ended \cup dropped
  /\ Waiting \cap Opened = {} /\ (Waiting \cup Opened) \cap (ended \cup dropped) = {}
  /\ ended \cap dropped = {}
  /\ stuck \subseteq Opened
  /\ \A j, k \in DOMAIN open : open[j] = open[k] => j = k
  /\ \A i, j \in 1 .. Len(backlog) : backlog[i] = backlog[j] => i = j

\* The limit on concurrent calls holds, whichever way a call gets its slot.
WithinLimit == Cardinality(DOMAIN open) <= Max

\* No slot is free while a call waits: the hand-over from one call to the
\* next loses none, also through synchronous calls and nested ones.  Only a
\* $.ajax that throws out of the queue breaks the chain.
WorkConserving ==
  dropped = {} => (backlog # << >> => Full)

\* No call overtakes another: they are sent in the order they were made.
InOrder ==
  dropped = {} =>
    \A i \in Waiting, j \in Opened \cup ended : j < i

\* Every call ends or fails, unless failed calls keep all slots or one broke
\* the chain: a failure takes a slot away, and Max of them stop the page.
EveryCallEnds ==
  \A c \in CallIds :
    c <= made ~> \/ c \in ended \cup stuck
                 \/ Cardinality(stuck) >= Max \/ dropped # {}
=============================================================================
