------------------------ MODULE CapabilityCacheProofs ------------------------
(***************************************************************************)
(* The caches of GateCapabilityClient, for any number of lookups, actions  *)
(* and versions, any time to live and any time.  The invariant says what a *)
(* waiting lookup knows of its reply and of the entry it found: both       *)
(* survive whatever other lookups do to the cache meanwhile.               *)
(***************************************************************************)
EXTENDS CapabilityCache, TLAPS

\* A lookup that waits holds nothing yet but the entry it found, which another
\* lookup made, and a reply, which Gate gave after it was asked.
WaitingOK(l) ==
  look[l].pc = "waiting" =>
    /\ look[l].answer = None /\ look[l].error = None
    /\ look[l].force => look[l].base = None
    /\ look[l].base # None =>
         /\ look[look[l].base.by].pc = "done"
         /\ look[look[l].base.by].answer = look[l].base.answer
         /\ look[l].base.answer.what = look[l].key
    /\ look[l].reply # None /\ look[l].reply.kind = "full" =>
         /\ look[l].reply.answer \in Answers
         /\ look[l].reply.answer.what = look[l].key
         /\ look[l].reply.answer.all = look[l].all
         /\ CurrentSince(look[l].reply.answer, look[l].began)
         /\ look[l].reply.answer.ver >= look[l].floor
         /\ look[l].reply.answer.ver >= invalidated[look[l].key] \/ look[l].spans
    /\ look[l].reply # None /\ look[l].reply.kind = "same" =>
         /\ look[l].base # None
         /\ CurrentSince(look[l].base.answer, look[l].began)
         /\ look[l].base.answer.ver >= look[l].floor

\* A lookup that has not begun, or has ended.
AtRestOK(l) ==
  /\ look[l].pc = "idle" => look[l].answer = None
  /\ look[l].answer # None => look[l].pc = "done" /\ look[l].answer.what = look[l].key
  /\ look[l].began <= now
  /\ look[l].floor <= invalidated[look[l].key]

\* An entry is what the lookup that made it answered.
EntryOK(k) ==
  cache[k] # None =>
    /\ cache[k].expires - TTL <= now
    /\ look[cache[k].by].pc = "done"
    /\ look[cache[k].by].key = k
    /\ look[cache[k].by].answer = cache[k].answer
    /\ cache[k].answer.ver >= invalidated[k] \/ look[cache[k].by].spans

IInv ==
  /\ TypeOK
  /\ \A l \in Lookups : WaitingOK(l) /\ AtRestOK(l)
  /\ \A k \in Keys : EntryOK(k) /\ invalidated[k] <= Version(k)
  /\ EntriesAreBounded /\ AnswersAreBounded /\ ForcedIsFresh /\ InvalidationHolds

-----------------------------------------------------------------------------
\* What was current since t still was after a version is replaced at a later n,
\* and the versions only grow.
LEMMA AppendKeeps ==
  ASSUME NEW s \in Seq(Nat), NEW n \in Nat, NEW v \in Nat \ {0}, NEW t \in Int,
         t <= n, v > Len(s) \/ s[v] >= t
  PROVE  v > Len(Append(s, n)) \/ Append(s, n)[v] >= t
  OBVIOUS

\* What was current since t was current since any earlier instant.
LEMMA Weaken ==
  ASSUME TypeOK, NEW a \in Answers, NEW t \in Int, NEW u \in Int, u <= t, CurrentSince(a, t)
  PROVE  CurrentSince(a, u)
<1>1. a.what \in Keys /\ a.ver \in Nat \ {0}
  BY CacheAssumption DEF Answers
<1>2. a.ver <= Len(replaced[a.what]) => replaced[a.what][a.ver] \in Nat
  BY <1>1 DEF TypeOK
<1> QED BY <1>1, <1>2 DEF CurrentSince, TypeOK

LEMMA IdleType == Idle \in Lookup
  BY CacheAssumption DEF Idle, Lookup, Keys

LEMMA InitOK == Init => IInv
<1> SUFFICES ASSUME Init PROVE IInv
  OBVIOUS
<1>1. \A l \in Lookups : look[l] = Idle
  BY DEF Init
<1>2. \A k \in Keys : Version(k) = 1 /\ cache[k] = None /\ invalidated[k] = 1
  BY DEF Init, Version
<1>3. 1 \in 1..MaxVersion /\ 0 \in Nat /\ List \in Keys
  BY CacheAssumption DEF Keys
<1>4. TypeOK
  <2>2. look \in [Lookups -> Lookup] /\ cache \in [Keys -> {None}]
    BY IdleType DEF Init
  <2>3. replaced \in [Keys -> Seq(Nat)]
    BY DEF Init
  <2>4. invalidated \in [Keys -> 1..MaxVersion]
    BY <1>3 DEF Init
  <2>5. \A k \in Keys : Version(k) <= MaxVersion
    BY <1>2, CacheAssumption
  <2>6. now \in Nat /\ crossed \in BOOLEAN
    BY DEF Init
  <2> QED BY <1>1, <1>2, <2>2, <2>3, <2>4, <2>5, <2>6 DEF TypeOK, Idle
<1>5. \A l \in Lookups : WaitingOK(l) /\ AtRestOK(l)
  BY <1>1, <1>2, <1>3 DEF Init, WaitingOK, AtRestOK, Idle
<1> QED
  BY <1>1, <1>2, <1>4, <1>5
  DEF IInv, EntryOK, EntriesAreBounded, AnswersAreBounded, ForcedIsFresh, InvalidationHolds, Idle

\* Gate replaces a version.
LEMMA PublishOK == ASSUME IInv, NEW k \in Keys, Publish(k) PROVE IInv'
<1> USE DEF IInv, Publish
<1>1. /\ now \in Nat /\ Len(replaced[k]) \in Nat
      /\ replaced'[k] = Append(replaced[k], now) /\ replaced' \in [Keys -> Seq(Nat)]
      /\ Len(replaced'[k]) = Len(replaced[k]) + 1
      /\ \A j \in Keys : j # k => replaced'[j] = replaced[j]
  BY DEF TypeOK, Lookup
<1>2. ASSUME NEW a \in Answers, NEW t \in Int, t <= now, CurrentSince(a, t)
      PROVE  CurrentSince(a, t)'
  <2>1. a.what \in Keys /\ a.ver \in Nat \ {0}
    BY <1>2, CacheAssumption DEF Answers
  <2>2. CASE a.what = k
    <3> DEFINE s == replaced[k]
    <3>1. s \in Seq(Nat) /\ (a.ver > Len(s) \/ s[a.ver] >= t)
      BY <1>2, <2>2 DEF TypeOK, Lookup, CurrentSince
    <3>2. a.ver > Len(Append(s, now)) \/ Append(s, now)[a.ver] >= t
      <4> HIDE DEF s
      <4> QED BY <1>1, <1>2, <2>1, <3>1, AppendKeeps
    <3> QED BY <1>1, <2>2, <3>2 DEF CurrentSince
  <2>3. CASE a.what # k
    BY <1>1, <1>2, <2>1, <2>3 DEF CurrentSince
  <2> QED BY <2>2, <2>3
<1>3. \A j \in Keys : Version(j) <= Version(j)' /\ Version(j) \in Nat /\ Version(j)' \in Nat
  BY <1>1 DEF TypeOK, Lookup, Version
<1>4. TypeOK'
  BY <1>1, CacheAssumption DEF TypeOK, Lookup, Version
<1>5. ASSUME NEW l \in Lookups PROVE WaitingOK(l)' /\ AtRestOK(l)'
  <2>1. WaitingOK(l) /\ AtRestOK(l)
    OBVIOUS
  <2>2. look[l].began \in Nat /\ look[l].began <= now
    BY <2>1 DEF TypeOK, Lookup, AtRestOK
  <2>3. look[l].base # None => look[l].base.answer \in Answers
    BY DEF TypeOK, Lookup
  <2>4. WaitingOK(l)'
    BY <2>1, <2>2, <2>3, <1>2 DEF WaitingOK
  <2>5. AtRestOK(l)'
    BY <2>1 DEF AtRestOK
  <2> QED BY <2>4, <2>5
<1>6. ASSUME NEW j \in Keys PROVE EntryOK(j)' /\ (invalidated[j] <= Version(j))'
  <2>1. invalidated[j] \in Nat /\ invalidated[j] <= Version(j)
    BY CacheAssumption DEF TypeOK, Lookup
  <2> QED BY <1>3, <2>1 DEF EntryOK
<1>7. EntriesAreBounded'
  <2> SUFFICES ASSUME NEW j \in Keys, cache[j] # None, j = List => ~crossed
               PROVE  CurrentSince(cache[j].answer, cache[j].expires - TTL)'
    BY DEF EntriesAreBounded
  <2>1. /\ cache[j].answer \in Answers /\ cache[j].expires - TTL \in Int
        /\ cache[j].expires - TTL <= now
    BY CacheAssumption DEF TypeOK, Lookup, EntryOK
  <2> QED BY <1>2, <2>1 DEF EntriesAreBounded
<1>8. AnswersAreBounded'
  <2> SUFFICES ASSUME NEW l \in Lookups, look[l].answer # None, ~look[l].crossed
               PROVE  CurrentSince(look[l].answer, look[l].began - TTL + 1)'
    BY DEF AnswersAreBounded, YoungAnswer
  <2>1. /\ look[l].answer \in Answers /\ look[l].began - TTL + 1 \in Int
        /\ look[l].began - TTL + 1 <= now
    BY CacheAssumption DEF TypeOK, Lookup, AtRestOK
  <2> QED BY <1>2, <2>1 DEF AnswersAreBounded, YoungAnswer
<1>9. ForcedIsFresh'
  <2> SUFFICES ASSUME NEW l \in Lookups, look[l].force, look[l].answer # None
               PROVE  (CurrentSince(look[l].answer, look[l].began)
                         /\ look[l].answer.all = look[l].all)'
    BY DEF ForcedIsFresh
  <2>1. look[l].answer \in Answers /\ look[l].began \in Int /\ look[l].began <= now
    BY DEF TypeOK, Lookup, AtRestOK
  <2> QED BY <1>2, <2>1 DEF ForcedIsFresh
<1>10. InvalidationHolds'
  BY DEF InvalidationHolds
<1> QED BY <1>4, <1>5, <1>6, <1>7, <1>8, <1>9, <1>10

-----------------------------------------------------------------------------
\* A step that changes one lookup, and keeps its own part of the invariant and
\* that of the entries, keeps the invariant.
LEMMA LookOK ==
  ASSUME IInv, NEW l \in Lookups, look[l].pc # "done",
         UNCHANGED <<now, replaced, invalidated>>,
         NEW q, look' = [look EXCEPT ![l] = q],
         TypeOK', WaitingOK(l)', AtRestOK(l)',
         \A k \in Keys : EntryOK(k)', EntriesAreBounded',
         q.answer # None =>
           /\ ~q.crossed => CurrentSince(q.answer, q.began - TTL + 1)
           /\ q.force => CurrentSince(q.answer, q.began) /\ q.answer.all = q.all
           /\ \/ q.answer.ver >= q.floor
              \/ \E m \in Lookups \ {l} :
                   look[m].key = q.key /\ look[m].answer # None /\ look[m].spans
  PROVE  IInv'
<1> USE DEF IInv
<1>1. look'[l] = q /\ \A m \in Lookups : m # l => look'[m] = look[m]
  BY DEF TypeOK, Lookup
<1>2. look[l].answer = None
  BY DEF AtRestOK
<1>3. ASSUME NEW m \in Lookups PROVE WaitingOK(m)' /\ AtRestOK(m)'
  <2>1. CASE m = l
    BY <2>1
  <2>2. CASE m # l
    <3>1. WaitingOK(m) /\ AtRestOK(m) /\ look'[m] = look[m]
      BY <1>1, <2>2
    <3>2. look[m].pc = "waiting" /\ look[m].base # None =>
            look[m].base.by \in Lookups /\ look'[look[m].base.by] = look[look[m].base.by]
      BY <1>1, <3>1 DEF TypeOK, Lookup, WaitingOK
    <3>3. WaitingOK(m)'
      BY <3>1, <3>2 DEF WaitingOK, CurrentSince
    <3>4. AtRestOK(m)'
      BY <3>1 DEF AtRestOK, Version
    <3> QED BY <3>3, <3>4
  <2> QED BY <2>1, <2>2
<1>4. \A k \in Keys : (invalidated[k] <= Version(k))'
  BY DEF Version
<1>6. AnswersAreBounded'
  <2> SUFFICES ASSUME NEW m \in Lookups, look'[m].answer # None, ~look'[m].crossed
               PROVE  CurrentSince(look[m].answer, look[m].began - TTL + 1)'
    BY DEF AnswersAreBounded, YoungAnswer
  <2>1. CASE m = l
    BY <1>1, <2>1 DEF CurrentSince
  <2>2. CASE m # l
    BY <1>1, <2>2 DEF AnswersAreBounded, YoungAnswer, CurrentSince
  <2> QED BY <2>1, <2>2
<1>7. ForcedIsFresh'
  <2> SUFFICES ASSUME NEW m \in Lookups, look'[m].force, look'[m].answer # None
               PROVE  (CurrentSince(look[m].answer, look[m].began)
                         /\ look[m].answer.all = look[m].all)'
    BY DEF ForcedIsFresh
  <2>1. CASE m = l
    BY <1>1, <2>1 DEF CurrentSince
  <2>2. CASE m # l
    BY <1>1, <2>2 DEF ForcedIsFresh, CurrentSince
  <2> QED BY <2>1, <2>2
<1>8. InvalidationHolds'
  <2> SUFFICES ASSUME NEW m \in Lookups, look'[m].answer # None
               PROVE  \/ look'[m].answer.ver >= look'[m].floor
                      \/ \E o \in Lookups \ {m} :
                           look'[o].key = look'[m].key /\ look'[o].answer # None /\ look'[o].spans
    BY DEF InvalidationHolds
  <2>1. CASE m = l
    BY <1>1, <2>1
  <2>2. CASE m # l
    <3>1. look'[m] = look[m]
      BY <1>1, <2>2
    <3>2. \/ look[m].answer.ver >= look[m].floor
          \/ \E o \in Lookups \ {m} :
               look[o].key = look[m].key /\ look[o].answer # None /\ look[o].spans
      BY <3>1 DEF InvalidationHolds
    <3> QED BY <1>1, <1>2, <3>1, <3>2
  <2> QED BY <2>1, <2>2
<1> QED BY <1>3, <1>4, <1>6, <1>7, <1>8

\* A step that changes no entry, and no lookup that made one.
LEMMA EntriesKept ==
  ASSUME IInv, UNCHANGED <<now, replaced, cache, invalidated, crossed>>,
         NEW l \in Lookups, look[l].pc # "done",
         \A m \in Lookups \ {l} : look'[m] = look[m]
  PROVE  (\A k \in Keys : EntryOK(k)') /\ EntriesAreBounded'
<1> USE DEF IInv
<1>1. ASSUME NEW k \in Keys PROVE EntryOK(k)'
  <2>1. cache[k] # None => cache[k].by \in Lookups /\ look'[cache[k].by] = look[cache[k].by]
    BY DEF TypeOK, Lookup, EntryOK
  <2> QED BY <2>1 DEF EntryOK
<1>2. EntriesAreBounded'
  BY DEF EntriesAreBounded, CurrentSince
<1> QED BY <1>1, <1>2

\* What a lookup is when it begins.
LEMMA AskedType ==
  ASSUME TypeOK, NEW k \in Keys, NEW all \in BOOLEAN, NEW force \in BOOLEAN,
         NEW a, a = Asked(k, all, force)
  PROVE  /\ a \in Lookup
         /\ a.key = k /\ a.all = all /\ a.force = force /\ a.began = now
         /\ a.reply = None /\ a.answer = None /\ a.error = None /\ a.floor = invalidated[k]
<1>1. now \in Nat /\ invalidated[k] \in 1..MaxVersion
  BY DEF TypeOK
<1>2. a = [pc |-> "idle", key |-> k, all |-> all, force |-> force, began |-> now,
           base |-> None, reply |-> None, answer |-> None, error |-> None,
           floor |-> invalidated[k], spans |-> FALSE, crossed |-> FALSE]
  BY DEF Asked, Idle
<1>3. a \in Lookup
  BY <1>1, <1>2 DEF Lookup
<1> QED BY <1>2, <1>3

\* A lookup that the cache answers.
LEMMA ServeCachedOK ==
  ASSUME IInv, NEW l \in Lookups, NEW k \in Keys, NEW all \in BOOLEAN, NEW force \in BOOLEAN,
         ServeCached(l, k, all, force)
  PROVE  IInv'
<1> USE DEF IInv
<1> DEFINE e == cache[k]
<1>0. PICK q : q = [Asked(k, all, force) EXCEPT !.pc = "done", !.answer = e.answer,
                                               !.crossed = (k = List /\ crossed)]
  OBVIOUS
<1>1. /\ look[l].pc = "idle" /\ ~force /\ e # None /\ e.expires > now
      /\ look' = [look EXCEPT ![l] = q]
      /\ UNCHANGED <<now, replaced, cache, invalidated, crossed>>
  BY <1>0 DEF ServeCached, Hit
<1>2. /\ e.answer \in Answers /\ e.answer # None /\ e.answer.what = k /\ e.expires \in Int
      /\ e.by \in Lookups /\ e.by # l /\ now \in Nat
  BY <1>1, CacheAssumption DEF TypeOK, Lookup, EntryOK
<1>3. /\ q \in Lookup
      /\ q.pc = "done" /\ q.key = k /\ q.force = FALSE /\ q.all = all /\ q.began = now
      /\ q.answer = e.answer /\ q.error = None /\ q.floor = invalidated[k]
      /\ q.crossed <=> k = List /\ crossed
  <2>1. PICK a : a = Asked(k, all, force)
    OBVIOUS
  <2>2. /\ a \in Lookup /\ a.key = k /\ a.all = all /\ a.force = force /\ a.began = now
        /\ a.error = None /\ a.floor = invalidated[k]
    BY <2>1, AskedType
  <2>3. PICK cross : cross = (k = List /\ crossed)
    OBVIOUS
  <2>4. q = [a EXCEPT !.pc = "done", !.answer = e.answer, !.crossed = cross]
    BY <1>0, <2>1, <2>3
  <2>5. cross \in BOOLEAN
    BY <2>3
  <2>6. q \in Lookup
    <3>1. PICK r \in Answers : r = e.answer
      BY <1>2
    <3>2. q = [a EXCEPT !.pc = "done", !.answer = r, !.crossed = cross] /\ a \in Lookup
      BY <2>2, <2>4, <3>1
    <3> QED BY ONLY <2>5, <3>1, <3>2 DEF Lookup
  <2>7. /\ q.pc = "done" /\ q.key = k /\ q.all = all /\ q.force = force /\ q.began = now
        /\ q.answer = e.answer /\ q.error = None /\ q.floor = invalidated[k]
        /\ q.crossed = cross
    BY <2>2, <2>4 DEF Lookup
  <2>8. q.crossed <=> k = List /\ crossed
    BY <2>3, <2>7
  <2>9. q.force = FALSE
    BY <1>1, <2>7
  <2> QED BY <2>6, <2>7, <2>8, <2>9
<1>4. look'[l] = q /\ \A m \in Lookups \ {l} : look'[m] = look[m]
  BY <1>1 DEF TypeOK, Lookup
<1>5. TypeOK'
  <2>1. look' \in [Lookups -> Lookup]
    BY <1>1, <1>3 DEF TypeOK
  <2>2. \A m \in Lookups : look'[m].pc = "done" => (look'[m].answer = None <=> look'[m].error # None)
    <3> TAKE m \in Lookups
    <3>1. CASE m = l
      BY <1>2, <1>3, <1>4, <3>1
    <3>2. CASE m # l
      BY <1>4, <3>2 DEF TypeOK
    <3> QED BY <3>1, <3>2
  <2> QED BY <1>1, <2>1, <2>2 DEF TypeOK, Version
<1>6. WaitingOK(l)' /\ AtRestOK(l)'
  <2>1. invalidated[k] \in Nat
    BY CacheAssumption DEF TypeOK
  <2> QED BY <1>1, <1>2, <1>3, <1>4, <2>1 DEF WaitingOK, AtRestOK
<1>7. (\A j \in Keys : EntryOK(j)') /\ EntriesAreBounded'
  BY <1>1, <1>4, EntriesKept
<1>8. ~q.crossed => CurrentSince(q.answer, q.began - TTL + 1)
  <2> SUFFICES ASSUME k = List => ~crossed PROVE CurrentSince(e.answer, now - TTL + 1)
    BY <1>3
  <2>1. CurrentSince(e.answer, e.expires - TTL)
    BY <1>1 DEF EntriesAreBounded
  <2>2. e.expires - TTL \in Int /\ now - TTL + 1 \in Int /\ now - TTL + 1 <= e.expires - TTL
    BY <1>1, <1>2, CacheAssumption
  <2> QED BY <1>2, <2>1, <2>2, Weaken
<1>9. q.answer.ver >= q.floor \/
        \E m \in Lookups \ {l} : look[m].key = k /\ look[m].answer # None /\ look[m].spans
  BY <1>1, <1>2, <1>3 DEF EntryOK
<1> QED BY <1>1, <1>3, <1>5, <1>6, <1>7, <1>8, <1>9, LookOK

\* A lookup that asks Gate.
LEMMA AskOK ==
  ASSUME IInv, NEW l \in Lookups, NEW k \in Keys, NEW all \in BOOLEAN, NEW force \in BOOLEAN,
         Ask(l, k, all, force)
  PROVE  IInv'
<1> USE DEF IInv
<1>0. PICK b : b = IF force THEN None ELSE Entry(cache[k])
  OBVIOUS
<1>01. PICK a : a = Asked(k, all, force)
  OBVIOUS
<1>1. PICK q : q = [a EXCEPT !.pc = "waiting", !.base = b]
  OBVIOUS
<1>2. /\ look[l].pc = "idle" /\ look' = [look EXCEPT ![l] = q]
      /\ UNCHANGED <<now, replaced, cache, invalidated, crossed>>
  BY <1>0, <1>01, <1>1 DEF Ask
<1>3. /\ b \in {None} \cup [answer : Answers, by : Lookups]
      /\ force => b = None
      /\ b # None => b.answer = cache[k].answer /\ b.by = cache[k].by /\ cache[k] # None
  BY <1>0, CacheAssumption DEF Entry, TypeOK
<1>4. /\ q \in Lookup
      /\ q.pc = "waiting" /\ q.key = k /\ q.force = force /\ q.all = all /\ q.began = now
      /\ q.base = b /\ q.reply = None /\ q.answer = None /\ q.error = None
      /\ q.floor = invalidated[k]
  <2>1. /\ a \in Lookup
        /\ a.key = k /\ a.force = force /\ a.all = all /\ a.began = now
        /\ a.reply = None /\ a.answer = None /\ a.error = None /\ a.floor = invalidated[k]
    BY <1>01, AskedType
  <2> QED BY <1>1, <1>3, <2>1 DEF Lookup
<1>5. look'[l] = q /\ \A m \in Lookups \ {l} : look'[m] = look[m]
  BY <1>2 DEF TypeOK
<1>6. TypeOK'
  <2>1. \A m \in Lookups : look'[m].pc = "done" => (look'[m].answer = None <=> look'[m].error # None)
    BY <1>4, <1>5 DEF TypeOK
  <2>2. look' \in [Lookups -> Lookup]
    BY <1>2, <1>4 DEF TypeOK
  <2> QED BY <1>2, <2>1, <2>2 DEF TypeOK, Version
<1>7. WaitingOK(l)'
  <2>1. b # None => /\ b.by \in Lookups \ {l} /\ look[b.by].pc = "done"
                    /\ look[b.by].answer = b.answer /\ b.answer.what = k
    BY <1>2, <1>3 DEF EntryOK, TypeOK
  <2> QED BY <1>3, <1>4, <1>5, <2>1 DEF WaitingOK
<1>8. AtRestOK(l)'
  BY <1>2, <1>4, <1>5 DEF AtRestOK, Version, TypeOK
<1>9. (\A j \in Keys : EntryOK(j)') /\ EntriesAreBounded'
  BY <1>2, <1>5, EntriesKept
<1> QED BY <1>2, <1>4, <1>6, <1>7, <1>8, <1>9, LookOK

\* Gate's reply to a lookup.
LEMMA ServeOK == ASSUME IInv, NEW l \in Lookups, Serve(l) PROVE IInv'
<1> USE DEF IInv
<1>1. PICK c : c = Current(l)
  OBVIOUS
<1>2. PICK x : x = IF look[l].base # None /\ look[l].base.answer = c
                     THEN [kind |-> "same", answer |-> None]
                     ELSE [kind |-> "full", answer |-> c]
  OBVIOUS
<1>3. PICK q : q = [look[l] EXCEPT !.reply = x]
  OBVIOUS
<1>4. /\ look[l].pc = "waiting" /\ look' = [look EXCEPT ![l] = q]
      /\ UNCHANGED <<now, replaced, cache, invalidated, crossed>>
  BY <1>1, <1>2, <1>3 DEF Serve, Unanswered
<1>5. /\ look[l] \in Lookup /\ WaitingOK(l) /\ AtRestOK(l)
      /\ look[l].key \in Keys /\ look[l].all \in BOOLEAN
  BY DEF TypeOK, Lookup
<1>6. /\ Version(look[l].key) \in 1..MaxVersion
      /\ invalidated[look[l].key] <= Version(look[l].key)
      /\ look[l].floor <= Version(look[l].key)
  <2>1. /\ invalidated[look[l].key] \in Nat /\ Version(look[l].key) \in 1..MaxVersion
        /\ look[l].floor \in Nat
    BY <1>5, CacheAssumption DEF TypeOK, Version, Lookup
  <2> QED BY <1>5, <2>1 DEF AtRestOK
<1>7. c \in Answers /\ c.what = look[l].key /\ c.all = look[l].all /\ c.ver = Version(look[l].key)
  BY <1>1, <1>5, <1>6 DEF Current, Answers
<1>8. /\ x \in [kind : {"same", "full"}, answer : Answers \cup {None}] /\ x # None
      /\ x.kind = "full" => x.answer = c
      /\ x.kind = "same" => look[l].base # None /\ look[l].base.answer = c
  BY <1>2, <1>7, CacheAssumption
<1>9. /\ q \in Lookup
      /\ q.pc = "waiting" /\ q.key = look[l].key /\ q.all = look[l].all
      /\ q.force = look[l].force /\ q.began = look[l].began /\ q.base = look[l].base
      /\ q.reply = x /\ q.answer = None /\ q.error = None
      /\ q.floor = look[l].floor /\ q.spans = look[l].spans
  BY <1>3, <1>4, <1>5, <1>8 DEF Lookup, WaitingOK
<1>10. /\ look'[l] = q /\ \A m \in Lookups \ {l} : look'[m] = look[m]
       /\ look' \in [Lookups -> Lookup]
  BY <1>4, <1>9 DEF TypeOK
<1>11. CurrentSince(c, look[l].began)
  BY <1>6, <1>7, CacheAssumption DEF CurrentSince, Version, TypeOK
<1>12. WaitingOK(l)'
  <2>1. q.base # None => q.base.by \in Lookups \ {l} /\ look'[q.base.by] = look[q.base.by]
    BY <1>4, <1>5, <1>9, <1>10 DEF WaitingOK, Lookup
  <2>2. q.base # None => /\ look[q.base.by].pc = "done"
                         /\ look[q.base.by].answer = q.base.answer
                         /\ q.base.answer.what = q.key
    BY <1>4, <1>5, <1>9 DEF WaitingOK
  <2>3. q.force => q.base = None
    BY <1>4, <1>5, <1>9 DEF WaitingOK
  <2>4. x.kind = "full" =>
          /\ x.answer \in Answers /\ x.answer.what = q.key /\ x.answer.all = q.all
          /\ CurrentSince(x.answer, q.began)
          /\ x.answer.ver >= q.floor /\ x.answer.ver >= invalidated[q.key]
    BY <1>6, <1>7, <1>8, <1>9, <1>11
  <2>5. x.kind = "same" =>
          q.base # None /\ CurrentSince(q.base.answer, q.began) /\ q.base.answer.ver >= q.floor
    BY <1>6, <1>7, <1>8, <1>9, <1>11
  <2> QED BY <1>4, <1>9, <1>10, <2>1, <2>2, <2>3, <2>4, <2>5 DEF WaitingOK, CurrentSince
<1>13. AtRestOK(l)'
  BY <1>4, <1>5, <1>9, <1>10 DEF AtRestOK, Version
<1>14. TypeOK'
  <2>1. \A m \in Lookups : look'[m].pc = "done" => (look'[m].answer = None <=> look'[m].error # None)
    BY <1>9, <1>10 DEF TypeOK
  <2> QED BY <1>4, <1>10, <2>1 DEF TypeOK, Version
<1>15. (\A j \in Keys : EntryOK(j)') /\ EntriesAreBounded'
  BY <1>4, <1>10, EntriesKept
<1> QED BY <1>4, <1>9, <1>12, <1>13, <1>14, <1>15, LookOK

\* A lookup that ends with an error.
LEMMA RaisesOK ==
  ASSUME IInv, NEW l \in Lookups, NEW error \in Errors, look[l].pc = "waiting", Raises(l, error),
         UNCHANGED <<now, replaced, cache, invalidated, crossed>>
  PROVE  IInv'
<1> USE DEF IInv
<1>1. PICK q : q = [Idle EXCEPT !.pc = "done", !.key = look[l].key, !.error = error]
  OBVIOUS
<1>2. look' = [look EXCEPT ![l] = q]
  BY <1>1 DEF Raises
<1>3. look[l].key \in Keys /\ error # None /\ 1 <= invalidated[look[l].key]
  BY CacheAssumption DEF TypeOK, Lookup
<1>4. /\ q \in Lookup
      /\ q.pc = "done" /\ q.key = look[l].key /\ q.began = 0 /\ q.floor = 1
      /\ q.answer = None /\ q.error = error
  BY <1>1, <1>3, IdleType DEF Idle, Lookup
<1>5. /\ look'[l] = q /\ \A m \in Lookups \ {l} : look'[m] = look[m]
      /\ look' \in [Lookups -> Lookup]
  BY <1>2, <1>4 DEF TypeOK
<1>6. TypeOK'
  <2>1. \A m \in Lookups : look'[m].pc = "done" => (look'[m].answer = None <=> look'[m].error # None)
    BY <1>3, <1>4, <1>5 DEF TypeOK
  <2> QED BY <1>5, <2>1 DEF TypeOK, Version
<1>7. WaitingOK(l)' /\ AtRestOK(l)'
  BY <1>3, <1>4, <1>5 DEF WaitingOK, AtRestOK, Version, TypeOK
<1>8. (\A j \in Keys : EntryOK(j)') /\ EntriesAreBounded'
  BY <1>5, EntriesKept
<1> QED BY <1>2, <1>4, <1>6, <1>7, <1>8, LookOK

LEMMA FailOK == ASSUME IInv, NEW l \in Lookups, Fail(l) \/ Bare(l) PROVE IInv'
<1>1. PICK error \in Errors : Raises(l, error)
  BY DEF Fail, Bare, Failures, ErrorOf, Errors
<1> QED BY <1>1, RaisesOK DEF Fail, Bare, Replied

\* A lookup that ends with an answer.
LEMMA Returned ==
  ASSUME IInv, NEW l \in Lookups, look[l].pc = "waiting", NEW a \in Answers,
         NEW cross \in BOOLEAN, Returns(l, a, cross),
         a.what = look[l].key, now' = now, invalidated' = invalidated
  PROVE  \E q \in Lookup :
           /\ look' = [look EXCEPT ![l] = q] /\ look' \in [Lookups -> Lookup]
           /\ look'[l] = q /\ \A m \in Lookups \ {l} : look'[m] = look[m]
           /\ q.pc = "done" /\ q.answer = a /\ q.error = None
           /\ q.key = look[l].key /\ q.all = look[l].all /\ q.force = look[l].force
           /\ q.began = look[l].began /\ q.floor = look[l].floor /\ q.spans = look[l].spans
           /\ q.crossed = cross
           /\ WaitingOK(l)' /\ AtRestOK(l)'
           /\ \A m \in Lookups :
                look'[m].pc = "done" => (look'[m].answer = None <=> look'[m].error # None)
<1> USE DEF IInv
<1>1. PICK q : q = [look[l] EXCEPT !.pc = "done", !.base = None, !.reply = None, !.answer = a,
                                    !.crossed = cross]
  OBVIOUS
<1>2. look' = [look EXCEPT ![l] = q]
  BY <1>1 DEF Returns
<1>3. look[l] \in Lookup /\ WaitingOK(l) /\ AtRestOK(l) /\ a # None
  BY CacheAssumption DEF TypeOK
<1>4. /\ q \in Lookup
      /\ q.pc = "done" /\ q.answer = a /\ q.error = None
      /\ q.key = look[l].key /\ q.all = look[l].all /\ q.force = look[l].force
      /\ q.began = look[l].began /\ q.floor = look[l].floor /\ q.spans = look[l].spans
      /\ q.crossed = cross
  BY <1>1, <1>3 DEF Lookup, WaitingOK
<1>5. /\ look'[l] = q /\ \A m \in Lookups \ {l} : look'[m] = look[m]
      /\ look' \in [Lookups -> Lookup]
  BY <1>2, <1>4 DEF TypeOK
<1>6. WaitingOK(l)' /\ AtRestOK(l)'
  BY <1>3, <1>4, <1>5 DEF WaitingOK, AtRestOK, Version
<1>7. \A m \in Lookups : look'[m].pc = "done" => (look'[m].answer = None <=> look'[m].error # None)
  <2> TAKE m \in Lookups
  <2>1. CASE m = l
    BY <1>3, <1>4, <1>5, <2>1
  <2>2. CASE m # l
    BY <1>5, <2>2 DEF TypeOK
  <2> QED BY <2>1, <2>2
<1> QED BY <1>2, <1>4, <1>5, <1>6, <1>7

\* A 304.
LEMMA ConfirmOK == ASSUME IInv, NEW l \in Lookups, Confirm(l) PROVE IInv'
<1> USE DEF IInv
<1>1. PICK k \in Keys : k = look[l].key
  BY DEF TypeOK, Lookup
<1>2. PICK e : e = Confirmed(l)
  OBVIOUS
<1>21. PICK cross \in BOOLEAN : cross = (k = List /\ e.answer # look[l].base.answer)
  OBVIOUS
<1>3. /\ look[l].pc = "waiting" /\ look[l].reply # None /\ look[l].reply.kind = "same"
      /\ e # None
      /\ cache' = IF cache[k] # None /\ cache[k].by = e.by
                    THEN [cache EXCEPT ![k].expires = Expiry(l)] ELSE cache
      /\ crossed' = IF k = List THEN cross ELSE crossed
      /\ Returns(l, e.answer, cross)
      /\ UNCHANGED <<now, replaced, invalidated>>
  BY <1>1, <1>2, <1>21 DEF Confirm, Replied
<1>4. /\ look[l] \in Lookup /\ look[l].base # None /\ ~look[l].force
      /\ look[l].base.answer \in Answers /\ look[l].base.by \in Lookups
      /\ look[l].base.answer.what = k
      /\ look[look[l].base.by].answer = look[l].base.answer
      /\ CurrentSince(look[l].base.answer, look[l].began)
      /\ look[l].base.answer.ver >= look[l].floor
      /\ look[l].began \in Nat /\ look[l].began <= now
  BY <1>1, <1>3, CacheAssumption DEF WaitingOK, AtRestOK, TypeOK, Lookup
<1>5. /\ e.answer \in Answers /\ e.answer.what = k
      /\ cache[k] # None /\ cache[k].by = e.by => cache[k].answer = e.answer
      /\ ~cross => e.answer = look[l].base.answer
      /\ cross => k = List
      /\ k = List => cache[k] # None /\ e.answer = cache[k].answer /\ e.by = cache[k].by
  <2>1. CASE k = List
    <3>1. cache[List] # None /\ e.answer = cache[List].answer /\ e.by = cache[List].by
      BY <1>1, <1>2, <1>3, <2>1 DEF Confirmed, Entry
    <3> QED BY <1>21, <1>3, <2>1, <3>1 DEF TypeOK
  <2>2. CASE k # List
    <3>1. e = look[l].base
      BY <1>1, <1>2, <2>2 DEF Confirmed
    <3>2. cache[k] # None => look[cache[k].by].answer = cache[k].answer
      BY DEF EntryOK
    <3> QED BY <1>4, <1>21, <2>2, <3>1, <3>2
  <2> QED BY <2>1, <2>2
<1>6. PICK q \in Lookup :
        /\ look' = [look EXCEPT ![l] = q] /\ look' \in [Lookups -> Lookup]
        /\ look'[l] = q /\ \A m \in Lookups \ {l} : look'[m] = look[m]
        /\ q.pc = "done" /\ q.answer = e.answer /\ q.error = None
        /\ q.key = look[l].key /\ q.all = look[l].all /\ q.force = look[l].force
        /\ q.began = look[l].began /\ q.floor = look[l].floor /\ q.spans = look[l].spans
        /\ q.crossed = cross
        /\ WaitingOK(l)' /\ AtRestOK(l)'
        /\ \A m \in Lookups :
             look'[m].pc = "done" => (look'[m].answer = None <=> look'[m].error # None)
  BY <1>1, <1>3, <1>5, Returned
<1>7. /\ cache' \in [Keys -> {None} \cup [answer : Answers, expires : Int, by : Lookups]]
      /\ \A j \in Keys :
           /\ cache'[j] = None <=> cache[j] = None
           /\ cache[j] # None => cache'[j].answer = cache[j].answer /\ cache'[j].by = cache[j].by
      /\ \A j \in Keys :
           cache'[j] # cache[j] => j = k /\ cache[k].answer = e.answer
                                   /\ cache'[k].expires = look[l].began + TTL
      /\ k = List => cache'[k].expires = look[l].began + TTL
  <2>1. CASE cache[k] # None /\ cache[k].by = e.by
    <3>1. cache[k] \in [answer : Answers, expires : Int, by : Lookups]
      BY <2>1 DEF TypeOK
    <3>2. PICK f : f = [cache[k] EXCEPT !.expires = look[l].began + TTL]
      OBVIOUS
    <3>3. /\ f \in [answer : Answers, expires : Int, by : Lookups] /\ f # None
          /\ f.answer = cache[k].answer /\ f.by = cache[k].by /\ f.expires = look[l].began + TTL
      BY <1>4, <3>1, <3>2, CacheAssumption
    <3>4. cache' = [cache EXCEPT ![k] = f]
      BY <1>3, <2>1, <3>2 DEF Expiry
    <3>5. cache'[k] = f /\ \A j \in Keys \ {k} : cache'[j] = cache[j]
      BY <3>4 DEF TypeOK
    <3>6. cache' \in [Keys -> {None} \cup [answer : Answers, expires : Int, by : Lookups]]
      BY <3>3, <3>4 DEF TypeOK
    <3> QED BY <1>5, <2>1, <3>3, <3>5, <3>6
  <2>2. CASE ~(cache[k] # None /\ cache[k].by = e.by)
    BY <1>3, <1>5, <2>2 DEF TypeOK
  <2> QED BY <2>1, <2>2
<1>8. TypeOK'
  BY <1>3, <1>6, <1>7 DEF TypeOK, Version
<1>9. ASSUME NEW j \in Keys PROVE EntryOK(j)'
  <2> SUFFICES ASSUME cache'[j] # None PROVE EntryOK(j)'
    BY DEF EntryOK
  <2>1. /\ cache[j] # None /\ cache'[j].answer = cache[j].answer /\ cache'[j].by = cache[j].by
        /\ cache[j].by \in Lookups \ {l}
    BY <1>3, <1>7 DEF EntryOK, TypeOK
  <2>2. look'[cache[j].by] = look[cache[j].by]
    BY <1>6, <2>1
  <2>3. cache'[j].expires - TTL <= now
    <3>1. CASE cache'[j] = cache[j]
      BY <2>1, <3>1 DEF EntryOK
    <3>2. CASE cache'[j] # cache[j]
      BY <1>4, <1>7, <3>2, CacheAssumption
    <3> QED BY <3>1, <3>2
  <2> QED BY <1>3, <2>1, <2>2, <2>3 DEF EntryOK
<1>10. EntriesAreBounded'
  <2> SUFFICES ASSUME NEW j \in Keys, cache'[j] # None, j = List => ~crossed'
               PROVE  CurrentSince(cache'[j].answer, cache'[j].expires - TTL)
    BY <1>3 DEF EntriesAreBounded, CurrentSince
  <2>1. CASE cache'[j] = cache[j] /\ j # k
    BY <1>3, <2>1 DEF EntriesAreBounded
  <2>2. CASE cache'[j] = cache[j] /\ j = k /\ k # List
    BY <2>2 DEF EntriesAreBounded
  <2>3. CASE j = k /\ (cache'[j] # cache[j] \/ k = List)
    <3>1. cache'[j].answer = look[l].base.answer
      BY <1>3, <1>5, <1>7, <2>3
    <3>2. cache'[j].expires - TTL = look[l].began
      BY <1>4, <1>7, <2>3, CacheAssumption
    <3> QED BY <1>4, <3>1, <3>2
  <2> QED BY <1>7, <2>1, <2>2, <2>3
<1>11. ~q.crossed => CurrentSince(q.answer, q.began - TTL + 1)
  <2>1. q.began - TTL + 1 \in Int /\ q.began - TTL + 1 <= look[l].began
    BY <1>4, <1>6, CacheAssumption
  <2> QED BY <1>4, <1>5, <1>6, <2>1, Weaken
<1>12. \/ q.answer.ver >= q.floor
       \/ \E m \in Lookups \ {l} :
            look[m].key = q.key /\ look[m].answer # None /\ look[m].spans
  <2>1. CASE ~cross
    BY <1>4, <1>5, <1>6, <2>1
  <2>2. CASE cross
    <3>1. /\ cache[k] # None /\ e.answer = cache[k].answer /\ e.by = cache[k].by
          /\ q.floor = look[l].floor /\ q.answer = e.answer /\ q.key = k
      BY <1>1, <1>5, <1>6, <2>2
    <3>2. /\ e.by \in Lookups /\ look[e.by].pc = "done" /\ look[e.by].key = k
          /\ look[e.by].answer = e.answer
          /\ e.answer.ver >= invalidated[k] \/ look[e.by].spans
      BY <3>1 DEF EntryOK, TypeOK
    <3>3. look[l].floor <= invalidated[k] /\ look[l].floor \in Nat /\ invalidated[k] \in Nat
      BY <1>1, CacheAssumption DEF AtRestOK, TypeOK, Lookup
    <3>4. e.answer.ver \in Nat /\ e.answer # None
      BY <1>5, CacheAssumption DEF Answers
    <3> QED BY <1>3, <3>1, <3>2, <3>3, <3>4
  <2> QED BY <2>1, <2>2
<1> QED BY <1>1, <1>3, <1>4, <1>6, <1>8, <1>9, <1>10, <1>11, <1>12, LookOK

\* A 200.
LEMMA StoreOK == ASSUME IInv, NEW l \in Lookups, Store(l) PROVE IInv'
<1> USE DEF IInv
<1>1. PICK k \in Keys : k = look[l].key
  BY DEF TypeOK, Lookup
<1>2. PICK a : a = look[l].reply.answer
  OBVIOUS
<1>3. PICK f : f = [answer |-> a, expires |-> Expiry(l), by |-> l]
  OBVIOUS
<1>4. /\ look[l].pc = "waiting" /\ look[l].reply # None /\ look[l].reply.kind = "full"
      /\ cache' = [cache EXCEPT ![k] = f]
      /\ crossed' = (crossed /\ k # List)
      /\ Returns(l, a, FALSE)
      /\ UNCHANGED <<now, replaced, invalidated>>
  BY <1>1, <1>2, <1>3 DEF Store, Replied
<1>5. /\ a \in Answers /\ a.what = k /\ a.all = look[l].all
      /\ CurrentSince(a, look[l].began) /\ a.ver >= look[l].floor
      /\ a.ver >= invalidated[k] \/ look[l].spans
      /\ look[l].began \in Nat /\ look[l].began <= now
  BY <1>1, <1>2, <1>4 DEF WaitingOK, AtRestOK, TypeOK, Lookup
<1>6. PICK q \in Lookup :
        /\ look' = [look EXCEPT ![l] = q] /\ look' \in [Lookups -> Lookup]
        /\ look'[l] = q /\ \A m \in Lookups \ {l} : look'[m] = look[m]
        /\ q.pc = "done" /\ q.answer = a /\ q.error = None
        /\ q.key = look[l].key /\ q.all = look[l].all /\ q.force = look[l].force
        /\ q.began = look[l].began /\ q.floor = look[l].floor /\ q.spans = look[l].spans
        /\ WaitingOK(l)' /\ AtRestOK(l)'
        /\ \A m \in Lookups :
             look'[m].pc = "done" => (look'[m].answer = None <=> look'[m].error # None)
  <2>1. PICK no \in BOOLEAN : no = FALSE
    OBVIOUS
  <2>2. Returns(l, a, no)
    BY <1>4, <2>1
  <2> QED BY <1>1, <1>4, <1>5, <2>2, Returned
<1>7. /\ f \in [answer : Answers, expires : Int, by : Lookups]
      /\ f.answer = a /\ f.by = l /\ f.expires = look[l].began + TTL
  BY <1>3, <1>5, CacheAssumption DEF Expiry
<1>8. /\ cache' \in [Keys -> {None} \cup [answer : Answers, expires : Int, by : Lookups]]
      /\ cache'[k] = f /\ \A j \in Keys \ {k} : cache'[j] = cache[j]
  BY <1>4, <1>7 DEF TypeOK
<1>9. TypeOK'
  BY <1>4, <1>5, <1>6, <1>7, <1>8 DEF TypeOK, Version
<1>10. ASSUME NEW j \in Keys PROVE EntryOK(j)'
  <2>1. CASE j = k
    BY <1>1, <1>4, <1>5, <1>6, <1>7, <1>8, <2>1, CacheAssumption DEF EntryOK
  <2>2. CASE j # k
    <3>1. cache[j] # None => cache[j].by \in Lookups \ {l}
      BY <1>4 DEF EntryOK, TypeOK
    <3> QED BY <1>4, <1>6, <1>8, <2>2, <3>1 DEF EntryOK
  <2> QED BY <2>1, <2>2
<1>11. EntriesAreBounded'
  <2> SUFFICES ASSUME NEW j \in Keys, cache'[j] # None, j = List => ~crossed'
               PROVE  CurrentSince(cache'[j].answer, cache'[j].expires - TTL)
    BY <1>4 DEF EntriesAreBounded, CurrentSince
  <2>1. CASE j = k
    <3>1. cache'[j].expires - TTL = look[l].began
      BY <1>5, <1>7, <1>8, <2>1, CacheAssumption
    <3> QED BY <1>5, <1>7, <1>8, <2>1, <3>1
  <2>2. CASE j # k
    BY <1>4, <1>8, <2>2 DEF EntriesAreBounded
  <2> QED BY <2>1, <2>2
<1>12. CurrentSince(q.answer, q.began - TTL + 1)
  <2>1. q.began - TTL + 1 \in Int /\ q.began - TTL + 1 <= look[l].began
    BY <1>5, <1>6, CacheAssumption
  <2> QED BY <1>5, <1>6, <2>1, Weaken
<1> QED BY <1>1, <1>4, <1>5, <1>6, <1>9, <1>10, <1>11, <1>12, LookOK

\* The caches are emptied: what is stored from now on was asked before, and its
\* lookup is noted, or is what Gate has by now.
LEMMA InvalidateOK == ASSUME IInv, Invalidate PROVE IInv'
<1> USE DEF IInv
<1>1. /\ cache' = [k \in Keys |-> None] /\ invalidated' = [k \in Keys |-> Version(k)]
      /\ look' = [l \in Lookups |->
           IF look[l].pc = "waiting" THEN [look[l] EXCEPT !.spans = TRUE] ELSE look[l]]
      /\ crossed' = FALSE /\ UNCHANGED <<now, replaced>>
  BY DEF Invalidate, Noted
<1>2. ASSUME NEW l \in Lookups
      PROVE  /\ look'[l] \in Lookup
             /\ look'[l].pc = look[l].pc /\ look'[l].key = look[l].key /\ look'[l].all = look[l].all
             /\ look'[l].force = look[l].force /\ look'[l].began = look[l].began
             /\ look'[l].base = look[l].base /\ look'[l].reply = look[l].reply
             /\ look'[l].answer = look[l].answer /\ look'[l].error = look[l].error
             /\ look'[l].floor = look[l].floor /\ look'[l].crossed = look[l].crossed
             /\ look[l].pc = "waiting" \/ look[l].spans => look'[l].spans
             /\ look[l].pc # "waiting" => look'[l] = look[l]
  <2>1. look[l] \in Lookup
    BY DEF TypeOK
  <2>2. PICK q : q = [look[l] EXCEPT !.spans = TRUE]
    OBVIOUS
  <2>3. look'[l] = IF look[l].pc = "waiting" THEN q ELSE look[l]
    BY <1>1, <2>2
  <2>4. CASE look[l].pc = "waiting"
    <3>1. q \in Lookup
      BY <2>1, <2>2 DEF Lookup
    <3>2. /\ q.pc = look[l].pc /\ q.key = look[l].key /\ q.all = look[l].all
          /\ q.force = look[l].force /\ q.began = look[l].began /\ q.base = look[l].base
      BY <2>1, <2>2 DEF Lookup
    <3>3. /\ q.reply = look[l].reply /\ q.answer = look[l].answer /\ q.error = look[l].error
          /\ q.floor = look[l].floor /\ q.crossed = look[l].crossed
      BY <2>1, <2>2 DEF Lookup
    <3>4. q.spans = TRUE
      BY <2>1, <2>2 DEF Lookup
    <3> QED BY <2>3, <2>4, <3>1, <3>2, <3>3, <3>4
  <2>5. CASE look[l].pc # "waiting"
    BY <2>1, <2>3, <2>5 DEF Lookup
  <2> QED BY <2>4, <2>5
<1>3. \A k \in Keys : Version(k) \in 1..MaxVersion
  BY CacheAssumption DEF TypeOK, Version
<1>4. TypeOK'
  <2>1. look' \in [Lookups -> Lookup]
    BY <1>1, <1>2
  <2>2. invalidated' \in [Keys -> 1..MaxVersion]
    BY <1>1, <1>3
  <2> QED BY <1>1, <1>2, <2>1, <2>2 DEF TypeOK, Version
<1>5. ASSUME NEW l \in Lookups PROVE WaitingOK(l)' /\ AtRestOK(l)'
  <2>1. WaitingOK(l) /\ AtRestOK(l)
    OBVIOUS
  <2>2. look[l].base # None => look[l].base.by \in Lookups
    BY DEF TypeOK, Lookup
  <2>3. WaitingOK(l)'
    BY <1>1, <1>2, <2>1, <2>2 DEF WaitingOK, CurrentSince
  <2>4. AtRestOK(l)'
    <3>1. /\ look[l].key \in Keys /\ look[l].floor \in Nat
          /\ invalidated[look[l].key] \in Nat /\ Version(look[l].key) \in Nat
          /\ invalidated[look[l].key] <= Version(look[l].key)
      BY <1>3, CacheAssumption DEF TypeOK, Lookup
    <3>2. look[l].floor <= invalidated'[look[l].key]
      BY <1>1, <2>1, <3>1 DEF AtRestOK
    <3> QED BY <1>1, <1>2, <2>1, <3>2 DEF AtRestOK
  <2> QED BY <2>3, <2>4
<1>6. \A k \in Keys : EntryOK(k)' /\ (invalidated[k] <= Version(k))'
  BY <1>1, <1>3 DEF EntryOK, Version
<1>7. EntriesAreBounded'
  BY <1>1 DEF EntriesAreBounded
<1>8. AnswersAreBounded' /\ ForcedIsFresh'
  BY <1>1, <1>2 DEF AnswersAreBounded, YoungAnswer, ForcedIsFresh, CurrentSince
<1>9. InvalidationHolds'
  BY <1>1, <1>2 DEF InvalidationHolds
<1> QED BY <1>4, <1>5, <1>6, <1>7, <1>8, <1>9

LEMMA TickOK == ASSUME IInv, Tick PROVE IInv'
<1> USE DEF IInv, Tick
<1>1. now \in Nat /\ now' = now + 1 /\ UNCHANGED <<replaced, cache, look, invalidated, crossed>>
  BY DEF TypeOK
<1>2. TypeOK'
  BY <1>1 DEF TypeOK, Version
<1>3. ASSUME NEW l \in Lookups PROVE WaitingOK(l)' /\ AtRestOK(l)'
  <2>1. WaitingOK(l)'
    BY <1>1 DEF WaitingOK, CurrentSince
  <2>2. AtRestOK(l)'
    BY <1>1 DEF AtRestOK, Version, TypeOK, Lookup
  <2> QED BY <2>1, <2>2
<1>4. ASSUME NEW k \in Keys PROVE EntryOK(k)' /\ (invalidated[k] <= Version(k))'
  BY <1>1, CacheAssumption DEF EntryOK, Version, TypeOK
<1>5. EntriesAreBounded' /\ AnswersAreBounded' /\ ForcedIsFresh' /\ InvalidationHolds'
  BY <1>1 DEF EntriesAreBounded, AnswersAreBounded, YoungAnswer, ForcedIsFresh,
         InvalidationHolds, CurrentSince
<1> QED BY <1>2, <1>3, <1>4, <1>5

LEMMA StepOK == IInv /\ [Next]_vars => IInv'
<1> SUFFICES ASSUME IInv, [Next]_vars PROVE IInv'
  OBVIOUS
<1>1. ASSUME NEW l \in Lookups, NEW k \in Keys, NEW all \in BOOLEAN, NEW force \in BOOLEAN,
             ServeCached(l, k, all, force) \/ Ask(l, k, all, force)
      PROVE  IInv'
  BY <1>1, ServeCachedOK, AskOK
<1>2. ASSUME NEW l \in Lookups, Serve(l) \/ Confirm(l) \/ Bare(l) \/ Store(l) \/ Fail(l)
      PROVE  IInv'
  BY <1>2, ServeOK, ConfirmOK, StoreOK, FailOK
<1>3. CASE UNCHANGED vars
  BY <1>3 DEF vars, IInv, TypeOK, WaitingOK, AtRestOK, EntryOK, Version, CurrentSince,
              EntriesAreBounded, AnswersAreBounded, YoungAnswer, ForcedIsFresh, InvalidationHolds
<1> QED BY <1>1, <1>2, <1>3, PublishOK, InvalidateOK, TickOK DEF Next

LEMMA Inductive == Spec => []IInv
  BY InitOK, StepOK, PTL DEF Spec

\* Type correctness, and that a lookup ends with an answer or with an error.
THEOREM TypeCorrect == Spec => []TypeOK
<1>1. IInv => TypeOK
  BY DEF IInv
<1> QED BY <1>1, Inductive, PTL

\* No entry of either cache outlives the time to live of what Gate said (_list_cache
\* and _action_cache), but the list's while a 304 about another one keeps it.
THEOREM EntriesBounded == Spec => []EntriesAreBounded
<1>1. IInv => EntriesAreBounded
  BY DEF IInv
<1> QED BY <1>1, Inductive, PTL

\* No lookup answers what Gate had replaced for the time to live (list_capabilities,
\* get_capability), but the lookup of the list that takes a 304 for another entry
\* than Gate was asked about, and those the cache answers with that entry until the
\* next reply.
THEOREM AnswersBounded == Spec => []AnswersAreBounded
<1>1. IInv => AnswersAreBounded
  BY DEF IInv
<1> QED BY <1>1, Inductive, PTL

\* force_refresh is never answered from the cache.
THEOREM ForcedFresh == Spec => []ForcedIsFresh
<1>1. IInv => ForcedIsFresh
  BY DEF IInv
<1> QED BY <1>1, Inductive, PTL

\* What invalidate forgot comes back only with a lookup that was waiting then, however
\* 304s are taken.
THEOREM InvalidationKept == Spec => []InvalidationHolds
<1>1. IInv => InvalidationHolds
  BY DEF IInv
<1> QED BY <1>1, Inductive, PTL
=============================================================================
