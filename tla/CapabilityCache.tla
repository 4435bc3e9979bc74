--------------------------- MODULE CapabilityCache ---------------------------
(***************************************************************************)
(* GateCapabilityClient: list_capabilities and get_capability over their   *)
(* two caches, with a time to live, conditional requests (If-None-Match    *)
(* and 304) and invalidate.  The lookups of one client are coroutines: a   *)
(* lookup reads the cache, awaits the reply, and reads and writes the      *)
(* cache again; other lookups and invalidate come in between.              *)
(*                                                                         *)
(* Gate is external: it publishes versions of what it can do, and answers  *)
(* a request with the version it has, or with 304 when that is the one the *)
(* request names.  A version is known by its ETag.  Replies may be slow,   *)
(* come in any order, or never.                                            *)
(***************************************************************************)
EXTENDS Integers, Sequences

CONSTANTS
  None,        \* Python's None
  List,        \* the key of the list; the others are actions
  Actions,     \* the actions looked up
  Lookups,     \* the calls of the client, one each
  TTL,         \* cache_ttl_seconds
  MaxTime,     \* bound: the last instant of the clock
  MaxVersion   \* bound: the versions Gate publishes of a key

Keys == Actions \cup {List}

\* What Gate says of a key: a version, and of the list with or without the
\* protected capabilities.
Answers == [what : Keys, ver : 1..MaxVersion, all : BOOLEAN]
Errors == {"GateResponseError", "GateClientError", "ValueError", "HTTPError"}

ASSUME CacheAssumption ==
  /\ TTL \in Nat \ {0}
  /\ MaxTime \in Nat /\ MaxVersion \in Nat \ {0}
  /\ List \notin Actions
  /\ None \notin Errors /\ None \notin Answers
  /\ None \notin [answer : Answers, by : Lookups]
  /\ None \notin [answer : Answers, expires : Int, by : Lookups]
  /\ None \notin [kind : {"same", "full"}, answer : Answers \cup {None}]

VARIABLES
  now,          \* time.monotonic()
  replaced,     \* Gate: when a version of a key was replaced; the last one is current
  cache,        \* _action_cache, and under List _list_cache
  look,         \* the lookups
  invalidated,  \* history: Gate's version of each key at the last invalidate
  crossed       \* history: the list's entry lives on by a 304 about another one

vars == <<now, replaced, cache, look, invalidated, crossed>>

Idle == [pc |-> "idle", key |-> List, all |-> FALSE, force |-> FALSE, began |-> 0,
         base |-> None, reply |-> None, answer |-> None, error |-> None,
         floor |-> 1, spans |-> FALSE, crossed |-> FALSE]

Init ==
  /\ now = 0
  /\ replaced = [k \in Keys |-> <<>>]
  /\ cache = [k \in Keys |-> None]
  /\ look = [l \in Lookups |-> Idle]
  /\ invalidated = [k \in Keys |-> 1] /\ crossed = FALSE

-----------------------------------------------------------------------------
(* Gate (external).                                                         *)

Version(k) == Len(replaced[k]) + 1

Publish(k) ==
  /\ Version(k) < MaxVersion
  /\ replaced' = [replaced EXCEPT ![k] = Append(@, now)]
  /\ UNCHANGED <<now, cache, look, invalidated, crossed>>

\* What Gate has for lookup l now.
Current(l) == [what |-> look[l].key, ver |-> Version(look[l].key), all |-> look[l].all]

Unanswered(l) == look[l].pc = "waiting" /\ look[l].reply = None

\* 304 when the request names what Gate has, 200 when it does not.
Serve(l) ==
  /\ Unanswered(l)
  /\ look' = [look EXCEPT ![l].reply =
       IF look[l].base # None /\ look[l].base.answer = Current(l)
         THEN [kind |-> "same", answer |-> None] ELSE [kind |-> "full", answer |-> Current(l)]]
  /\ UNCHANGED <<now, replaced, cache, invalidated, crossed>>

-----------------------------------------------------------------------------
(* The client.                                                              *)

\* Variant for mutation: a forced lookup is served from the cache.
Hit_Unforced(e, force) == e # None /\ e.expires > now
Hit(e, force) == ~force /\ e # None /\ e.expires > now

Asked(k, all, force) ==
  [Idle EXCEPT !.key = k, !.all = all, !.force = force, !.began = now,
               !.floor = invalidated[k]]

\* A lookup that the cache answers.
ServeCached(l, k, all, force) ==
  /\ look[l].pc = "idle"
  /\ Hit(cache[k], force)
  /\ look' = [look EXCEPT ![l] = [Asked(k, all, force) EXCEPT
                                    !.pc = "done", !.answer = cache[k].answer,
                                    !.crossed = (k = List /\ crossed)]]
  /\ UNCHANGED <<now, replaced, cache, invalidated, crossed>>

\* What a lookup keeps of an entry: its answer, and which one it is.
Entry(e) == IF e = None THEN None ELSE [answer |-> e.answer, by |-> e.by]

\* A lookup that asks Gate, naming the entry it found unless it is forced.
Ask(l, k, all, force) ==
  /\ look[l].pc = "idle"
  /\ ~Hit(cache[k], force)
  /\ look' = [look EXCEPT ![l] = [Asked(k, all, force) EXCEPT
                                    !.pc = "waiting",
                                    !.base = IF force THEN None ELSE Entry(cache[k])]]
  /\ UNCHANGED <<now, replaced, cache, invalidated, crossed>>

\* Variant for mutation: the time to live is counted from the reply.
Expiry_FromReply(l) == now + TTL
\* The time to live is counted from before the request.
Expiry(l) == look[l].began + TTL

\* Variant for mutation: an action's entry is looked up again, like the list's.
Confirmed_Again(l) == cache[look[l].key]
\* The entry a 304 is taken to confirm: of the list, the one that is there now; of
\* an action, the one the lookup found when it began.
Confirmed(l) == IF look[l].key = List THEN Entry(cache[List]) ELSE look[l].base

\* What can come instead of an answer: nothing, since httpx gives up; an error
\* status; a body that is no JSON; JSON that is no capability.
Failures == {"nothing", "status", "page", "malformed"}
ErrorOf(failure) ==
  CASE failure = "nothing"   -> "HTTPError"
    [] failure = "status"    -> "GateResponseError"
    [] failure = "page"      -> "ValueError"
    [] failure = "malformed" -> "GateClientError"

Replied(l, kind) == look[l].pc = "waiting" /\ look[l].reply # None /\ look[l].reply.kind = kind

\* A lookup that ends keeps its answer, or its error and nothing else.
Returns(l, answer, cross) ==
  look' = [look EXCEPT ![l] = [@ EXCEPT !.pc = "done", !.base = None, !.reply = None,
                                        !.answer = answer, !.crossed = cross]]
\* Variant for mutation: the error is swallowed.
Raises_Nothing(l, error) ==
  look' = [look EXCEPT ![l] = [Idle EXCEPT !.pc = "done", !.key = look[l].key]]
Raises(l, error) ==
  look' = [look EXCEPT ![l] = [Idle EXCEPT !.pc = "done", !.key = look[l].key, !.error = error]]

\* 304: the entry lives on, if it is still the one in the cache.  The list's may be
\* another than the one Gate was asked about.
Confirm(l) ==
  LET k == look[l].key
      e == Confirmed(l)
      cross == k = List /\ e.answer # look[l].base.answer
  IN  /\ Replied(l, "same") /\ e # None
      /\ cache' = IF cache[k] # None /\ cache[k].by = e.by
                    THEN [cache EXCEPT ![k].expires = Expiry(l)] ELSE cache
      /\ crossed' = IF k = List THEN cross ELSE crossed
      /\ Returns(l, e.answer, cross)
      /\ UNCHANGED <<now, replaced, invalidated>>

\* 304 when the entry is gone: the code goes on to parse a body there is not.
Bare(l) ==
  /\ Replied(l, "same") /\ Confirmed(l) = None
  /\ Raises(l, ErrorOf("page"))
  /\ UNCHANGED <<now, replaced, cache, invalidated, crossed>>

\* 200: a new entry.
Store(l) ==
  LET a == look[l].reply.answer IN
  /\ Replied(l, "full")
  /\ cache' = [cache EXCEPT ![look[l].key] = [answer |-> a, expires |-> Expiry(l), by |-> l]]
  /\ crossed' = (crossed /\ look[l].key # List)
  /\ Returns(l, a, FALSE)
  /\ UNCHANGED <<now, replaced, invalidated>>

\* Nothing is kept of a failure.
Fail(l) ==
  /\ look[l].pc = "waiting"
  /\ \E f \in Failures : Raises(l, ErrorOf(f))
  /\ UNCHANGED <<now, replaced, cache, invalidated, crossed>>

\* History: the versions at this instant, and the lookups that wait for a reply.
Noted ==
  /\ invalidated' = [k \in Keys |-> Version(k)]
  /\ look' = [l \in Lookups |->
       IF look[l].pc = "waiting" THEN [look[l] EXCEPT !.spans = TRUE] ELSE look[l]]

\* Variant for mutation: the entries of the actions stay.
Invalidate_List ==
  /\ cache' = [cache EXCEPT ![List] = None] /\ crossed' = FALSE
  /\ Noted
  /\ UNCHANGED <<now, replaced>>

Invalidate ==
  /\ cache' = [k \in Keys |-> None] /\ crossed' = FALSE
  /\ Noted
  /\ UNCHANGED <<now, replaced>>

Tick ==
  /\ now < MaxTime
  /\ now' = now + 1
  /\ UNCHANGED <<replaced, cache, look, invalidated, crossed>>

Next ==
  \/ \E l \in Lookups :
       \/ \E k \in Keys, all, force \in BOOLEAN :
            (all => k = List) /\ (ServeCached(l, k, all, force) \/ Ask(l, k, all, force))
       \/ Serve(l) \/ Confirm(l) \/ Bare(l) \/ Store(l) \/ Fail(l)
  \/ \E k \in Keys : Publish(k)
  \/ Invalidate \/ Tick

Spec == Init /\ [][Next]_vars

-----------------------------------------------------------------------------
(* Properties.                                                              *)

\* Gate said a at some instant not before t.
CurrentSince(a, t) ==
  a.ver > Len(replaced[a.what]) \/ replaced[a.what][a.ver] >= t

Lookup ==
  [pc : {"idle", "waiting", "done"}, key : Keys, all : BOOLEAN, force : BOOLEAN, began : Nat,
   base : {None} \cup [answer : Answers, by : Lookups],
   reply : {None} \cup [kind : {"same", "full"}, answer : Answers \cup {None}],
   answer : Answers \cup {None}, error : Errors \cup {None},
   floor : 1..MaxVersion, spans : BOOLEAN, crossed : BOOLEAN]

\* Every variable has its type, an entry is about its key, and a lookup that ends
\* has an answer or an error.
TypeOK ==
  /\ now \in Nat /\ crossed \in BOOLEAN
  /\ replaced \in [Keys -> Seq(Nat)]
  /\ invalidated \in [Keys -> 1..MaxVersion]
  /\ cache \in [Keys -> {None} \cup [answer : Answers, expires : Int, by : Lookups]]
  /\ look \in [Lookups -> Lookup]
  /\ \A k \in Keys :
       /\ Version(k) <= MaxVersion
       /\ cache[k] # None => cache[k].answer.what = k
  /\ \A l \in Lookups :
       look[l].pc = "done" => (look[l].answer = None <=> look[l].error # None)

\* An entry was still what Gate said no longer than the time to live before it
\* expires, however slow the reply was, in whatever order replies came and whatever
\* was invalidated meanwhile.  Excepted is the list's entry as long as what it lives
\* on by is a 304 about another one (list_capabilities reads the cache again after
\* its await); the next 200, or the next 304 about itself, makes it good.
EntriesAreBounded ==
  \A k \in Keys :
    cache[k] # None /\ (k = List => ~crossed) =>
      CurrentSince(cache[k].answer, cache[k].expires - TTL)

\* The age of an answer when its lookup was asked is less than the time to live.
YoungAnswer(l) == CurrentSince(look[l].answer, look[l].began - TTL + 1)

\* A lookup answers what Gate said less than the time to live before it was asked.
\* Excepted is the lookup of the list whose own 304 was about another entry than the
\* one it answers, or that the cache answers while its entry lives on by such a 304.
AnswersAreBounded ==
  \A l \in Lookups : look[l].answer # None /\ ~look[l].crossed => YoungAnswer(l)

\* The same without the exception: the cache has a "bounded TTL" (the docstring of
\* capability_client.py).
NoAnswerIsOld == \A l \in Lookups : look[l].answer # None => YoungAnswer(l)

\* A forced lookup answers what Gate said after it was asked, and in the visibility
\* that was asked for, whatever is in the cache.
ForcedIsFresh ==
  \A l \in Lookups :
    look[l].force /\ look[l].answer # None =>
      CurrentSince(look[l].answer, look[l].began) /\ look[l].answer.all = look[l].all

\* After invalidate no lookup answers what Gate had replaced by then, not even one
\* that takes a 304 for another entry, unless another lookup was waiting for its reply
\* at that moment: what it brings is stored.
InvalidationHolds ==
  \A l \in Lookups :
    look[l].answer # None =>
      \/ look[l].answer.ver >= look[l].floor
      \/ \E m \in Lookups \ {l} :
           look[m].key = look[l].key /\ look[m].answer # None /\ look[m].spans
=============================================================================
