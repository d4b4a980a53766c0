------------------------------ MODULE Twitter ------------------------------
(***************************************************************************)
(* The Twitter source of a stream (twitter.go): Next, called again and     *)
(* again by the fetcher loops of stream.go - of which a quick restart may  *)
(* leave two alive - beside Start and Close.  Next looks first for a       *)
(* transcoded image, then reads the connection; a tweet with an image goes *)
(* to the transcoder and is returned by a later call.                      *)
(*                                                                         *)
(* The connection (twitterstream) and the transcoder (imgurl) are          *)
(* external, modelled from how they are used: a bounded queue of images to *)
(* transcode, workers, and a bounded queue of results, both in any order.  *)
(* Tweets are numbered as they are read; what they say is left out.        *)
(***************************************************************************)
EXTENDS Naturals, FiniteSets

CONSTANTS Loops,     \* fetcher loops that call Next
          MaxTweets, \* bound on the tweets that arrive
          Buffer,    \* TranscodeBuffer
          Method     \* ThumbnailMethod: "api", "url" or "dataurl"

ASSUME TwitterAssumption ==
  /\ IsFiniteSet(Loops) /\ Loops # {}
  /\ MaxTweets \in Nat /\ Buffer \in Nat \ {0}
  /\ Method \in {"api", "url", "dataurl"}

VARIABLES conn,     \* TwitterSource.conn: "nil", "open" or "closed"
          pc,       \* per loop: where in Next it stands
          hand,     \* per loop: the tweet it is about to push, or 0
          read,     \* tweets read from the connection
          queue,    \* of the transcoder: what is to be done
          results,  \* and what is done
          returned, \* tweets that Next has returned
          ignored   \* tweets without a place, or that made Next panic

vars == <<conn, pc, hand, read, queue, results, returned, ignored>>

Init ==
  /\ conn = "nil"
  /\ pc = [l \in Loops |-> "idle"] /\ hand = [l \in Loops |-> 0]
  /\ read = 0
  /\ queue = {} /\ results = {} /\ returned = {} /\ ignored = {}

To(l, s) == pc' = [pc EXCEPT ![l] = s]

\* Next on a source that was not started returns an error.
Begin(l) ==
  /\ pc[l] = "idle"
  /\ To(l, IF conn = "nil" THEN "idle" ELSE "loop")
  /\ UNCHANGED <<conn, hand, read, queue, results, returned, ignored>>

\* Mutant of Poll: a result is waited for.
PollBlocks(l) ==
  /\ pc[l] = "loop"
  /\ To(l, "get")
  /\ UNCHANGED <<conn, hand, read, queue, results, returned, ignored>>

\* transcoder.Ready: is there a result?
Poll(l) ==
  /\ pc[l] = "loop"
  /\ To(l, IF results # {} THEN "get" ELSE "read")
  /\ UNCHANGED <<conn, hand, read, queue, results, returned, ignored>>

\* Mutant of Get: the result stays where it was.
GetKeeps(l) ==
  /\ pc[l] = "get"
  /\ \E t \in results : returned' = returned \cup {t}
  /\ To(l, "idle")
  /\ UNCHANGED <<conn, hand, read, queue, results, ignored>>

\* transcoder.Get: another loop may have taken it, then this one waits.
Get(l) ==
  /\ pc[l] = "get"
  /\ \E t \in results : /\ returned' = returned \cup {t}
                        /\ results' = results \ {t}
  /\ To(l, "idle")
  /\ UNCHANGED <<conn, hand, read, queue, ignored>>

\* Mutant of Full: one more.
FullAbove == Cardinality(queue) > Buffer

Full == Cardinality(queue) >= Buffer

\* A tweet arrives.  If it has no place it is ignored, a place without
\* points is a panic that becomes an error; a tweet with an image is
\* returned without it if the transcoder is full.
Read(l) ==
  /\ pc[l] = "read" /\ conn = "open" /\ read < MaxTweets
  /\ read' = read + 1
  /\ \/ /\ \E s \in {"loop", "idle"} : To(l, s)
        /\ ignored' = ignored \cup {read + 1}
        /\ UNCHANGED <<hand, returned>>
     \/ /\ To(l, "idle")
        /\ returned' = returned \cup {read + 1}
        /\ UNCHANGED <<hand, ignored>>
     \/ /\ ~Full /\ Method = "dataurl"
        /\ To(l, "push")
        /\ hand' = [hand EXCEPT ![l] = read + 1]
        /\ UNCHANGED <<returned, ignored>>
  /\ UNCHANGED <<conn, queue, results>>

\* The error of the connection is that of an inner err (155): the loop does
\* not see it and goes on.  Without a connection it panics.
ReadError(l) ==
  /\ pc[l] = "read" /\ conn # "open"
  /\ To(l, IF conn = "nil" THEN "idle" ELSE "loop")
  /\ UNCHANGED <<conn, hand, read, queue, results, returned, ignored>>

\* transcoder.Push: another loop may have taken the last place.
Push(l) ==
  /\ pc[l] = "push" /\ ~(Cardinality(queue) >= Buffer)
  /\ queue' = queue \cup {hand[l]}
  /\ hand' = [hand EXCEPT ![l] = 0]
  /\ To(l, "loop")
  /\ UNCHANGED <<conn, read, results, returned, ignored>>

\* A worker of the transcoder is done with an image.
Transcode ==
  /\ Cardinality(results) < Buffer
  /\ \E t \in queue : queue' = queue \ {t} /\ results' = results \cup {t}
  /\ UNCHANGED <<conn, pc, hand, read, returned, ignored>>

\* Start replaces the connection, by none if Twitter refuses.
Start ==
  /\ conn' \in {"open", "nil"}
  /\ UNCHANGED <<pc, hand, read, queue, results, returned, ignored>>

\* Without a connection Close panics and changes nothing.
Close ==
  /\ conn # "nil"
  /\ conn' = "closed"
  /\ UNCHANGED <<pc, hand, read, queue, results, returned, ignored>>

NextCall(l) ==
  Begin(l) \/ Poll(l) \/ Get(l) \/ Read(l) \/ ReadError(l) \/ Push(l)

Next == (\E l \in Loops : NextCall(l)) \/ Transcode \/ Start \/ Close

Spec == Init /\ [][Next]_vars

-----------------------------------------------------------------------------
Hands == {hand[l] : l \in Loops} \ {0}
Pushers == {l \in Loops : pc[l] = "push"}
Getters == {l \in Loops : pc[l] = "get"}

\* Types; every tweet read is in one place: about to be pushed, with the
\* transcoder, returned or ignored, so none is lost and none returned twice,
\* whatever loops and workers do at once.
TypeOK ==
  /\ conn \in {"nil", "open", "closed"}
  /\ pc \in [Loops -> {"idle", "loop", "get", "read", "push"}]
  /\ read \in 0 .. MaxTweets
  /\ \A l \in Loops : hand[l] # 0 <=> l \in Pushers
  /\ \A l, m \in Pushers : hand[l] = hand[m] => l = m
  /\ Hands \cup queue \cup results \cup returned \cup ignored = 1 .. read
  /\ Cardinality(Hands) + Cardinality(queue) + Cardinality(results)
       + Cardinality(returned) + Cardinality(ignored) = read

\* Of n loops at most n - 1 can be kept waiting by a full transcoder though
\* each has looked before: a loop that is alone never blocks in Push, and of
\* several there is one to take the results.
PushersBounded ==
  Cardinality(queue) + Cardinality(Pushers) <= Buffer + Cardinality(Loops) - 1

\* Ready (137) and Get (138) are two calls, between which another loop may
\* take the result: then Get waits for the next image, however many tweets
\* without one arrive meanwhile.  Of n loops at most n - 1 are kept waiting
\* so: if all are in Get there is a result, and a loop that is alone always
\* finds the one it saw.
GettersBounded ==
  Cardinality(Getters) <= Cardinality(results) + Cardinality(Loops) - 1
=============================================================================
