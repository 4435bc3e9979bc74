----------------------------- MODULE PacketProofs -----------------------------
(***************************************************************************)
(* Theorems about the operations on a packet, for every packet and every   *)
(* configuration of the validator: what the hop journal is evidence of,    *)
(* what a signature binds, when a packet is valid, and when one can be     *)
(* derived from it.  The proofs of several components rest on them.        *)
(***************************************************************************)
EXTENDS TransportPacket, SequenceTheorems, WellFoundedInduction, TLAPS

\* The checks of the validator, out of their order: a packet is valid if and only if
\* none of them finds it amiss.
LEMMA ValidExactly ==
  ASSUME NEW p, NEW v, NEW at
  PROVE  Valid(p, v, at) <=>
           /\ "schema" \notin p.core.defects
           /\ ~(v.types # None /\ p.core.type \notin v.types)
           /\ ~(v.actions # None /\ p.core.action \notin v.actions)
           /\ ~(v.node # None /\ p.core.dst # v.node)
           /\ ~(p.core.created > at + v.skew)
           /\ ~(Size(p) > v.maxBytes)
           /\ ~(\/ Len(p.hops) > v.maxHops \/ p.core.links > v.maxLinks
                \/ p.core.attached # None /\ p.core.attached \notin v.attachable)
           /\ ~(p.core.notBefore # None /\ at < p.core.notBefore)
           /\ ~(p.core.expires # None /\ at > p.core.expires)
           /\ ~(p.core.type = "replay_request" /\ ~p.core.replay)
           /\ ~(p.core.type = "replay_request" /\ ~v.replay)
           /\ ~(p.core.replay /\ p.core.type # "replay_request")
           /\ ~(p.core.action \in v.idem /\ p.core.idem = None)
           /\ ~("governance" \in p.core.defects \/ (p.restricted /\ ~p.core.audited))
           /\ DelegationOK(p.core, at)
           /\ ~(IF p.sig = None THEN (v.requireSig \/ p.restricted) /\ ~v.dev
                  ELSE ~(v.dev /\ v.keys = {}) /\ ~SignatureVerifies(p, v.keys))
           /\ ValidHopTrace(p)
<1>. DEFINE c == Checks(p, v, at)
<1>1. /\ c[1].bad = ("schema" \in p.core.defects)
      /\ c[2].bad = (v.types # None /\ p.core.type \notin v.types)
      /\ c[3].bad = (v.actions # None /\ p.core.action \notin v.actions)
      /\ c[4].bad = (v.node # None /\ p.core.dst # v.node)
      /\ c[5].bad = (p.core.created > at + v.skew)
      /\ c[6].bad = (Size(p) > v.maxBytes)
  BY DEF Checks
<1>2. /\ c[7].bad = (\/ Len(p.hops) > v.maxHops \/ p.core.links > v.maxLinks
                     \/ p.core.attached # None /\ p.core.attached \notin v.attachable)
      /\ c[8].bad = (p.core.notBefore # None /\ at < p.core.notBefore)
      /\ c[9].bad = (p.core.expires # None /\ at > p.core.expires)
      /\ c[10].bad = (p.core.type = "replay_request" /\ ~p.core.replay)
      /\ c[11].bad = (p.core.type = "replay_request" /\ ~v.replay)
      /\ c[12].bad = (p.core.replay /\ p.core.type # "replay_request")
  BY DEF Checks
<1>3. /\ c[13].bad = (p.core.action \in v.idem /\ p.core.idem = None)
      /\ c[14].bad = ("governance" \in p.core.defects \/ (p.restricted /\ ~p.core.audited))
      /\ c[15].bad = ~DelegationOK(p.core, at)
      /\ c[16].bad = (IF p.sig = None THEN (v.requireSig \/ p.restricted) /\ ~v.dev
                        ELSE ~(v.dev /\ v.keys = {}) /\ ~SignatureVerifies(p, v.keys))
      /\ c[17].bad = ~ValidHopTrace(p)
  BY DEF Checks
<1>. HIDE DEF c
<1>4. Valid(p, v, at) <=> \A i \in 1..17 : ~c[i].bad
  BY DEF Valid, Failing, c
<1>5. (\A i \in 1..17 : ~c[i].bad) <=>
        /\ ~c[1].bad /\ ~c[2].bad /\ ~c[3].bad /\ ~c[4].bad /\ ~c[5].bad /\ ~c[6].bad
        /\ ~c[7].bad /\ ~c[8].bad /\ ~c[9].bad /\ ~c[10].bad /\ ~c[11].bad /\ ~c[12].bad
        /\ ~c[13].bad /\ ~c[14].bad /\ ~c[15].bad /\ ~c[16].bad /\ ~c[17].bad
  <2>1. \A i \in 1..17 : \/ i = 1 \/ i = 2 \/ i = 3 \/ i = 4 \/ i = 5 \/ i = 6
                          \/ i = 7 \/ i = 8 \/ i = 9 \/ i = 10 \/ i = 11 \/ i = 12
                          \/ i = 13 \/ i = 14 \/ i = 15 \/ i = 16 \/ i = 17
    OBVIOUS
  <2>2. /\ 1 \in 1..17 /\ 2 \in 1..17 /\ 3 \in 1..17 /\ 4 \in 1..17 /\ 5 \in 1..17
        /\ 6 \in 1..17 /\ 7 \in 1..17 /\ 8 \in 1..17 /\ 9 \in 1..17 /\ 10 \in 1..17
        /\ 11 \in 1..17 /\ 12 \in 1..17 /\ 13 \in 1..17 /\ 14 \in 1..17 /\ 15 \in 1..17
        /\ 16 \in 1..17 /\ 17 \in 1..17
    OBVIOUS
  <2>. QED  BY <2>1, <2>2, Zenon
<1>. QED  BY <1>1, <1>2, <1>3, <1>4, <1>5

\* A packet on which no check looks amiss is valid.
LEMMA ChecksPass ==
  ASSUME NEW p, NEW v, NEW at,
         "schema" \notin p.core.defects, "governance" \notin p.core.defects,
         ~(p.restricted /\ ~p.core.audited), DelegationOK(p.core, at),
         ~(Size(p) > v.maxBytes), ~(p.core.links > v.maxLinks),
         ~(p.core.attached # None /\ p.core.attached \notin v.attachable),
         ~(v.types # None /\ p.core.type \notin v.types),
         ~(v.actions # None /\ p.core.action \notin v.actions),
         ~(v.node # None /\ p.core.dst # v.node),
         ~(p.core.created > at + v.skew), ~(Len(p.hops) > v.maxHops),
         ~(p.core.notBefore # None /\ at < p.core.notBefore),
         ~(p.core.expires # None /\ at > p.core.expires),
         p.core.type # "replay_request", ~p.core.replay,
         ~(p.core.action \in v.idem /\ p.core.idem = None),
         ~(IF p.sig = None THEN (v.requireSig \/ p.restricted) /\ ~v.dev
             ELSE ~(v.dev /\ v.keys = {}) /\ ~SignatureVerifies(p, v.keys)),
         ValidHopTrace(p)
  PROVE  Valid(p, v, at)
BY ValidExactly

-----------------------------------------------------------------------------
(* The hop journal (validate_hop_trace).                                    *)

\* Indices have a least one.
LEMMA First ==
  ASSUME NEW S, S \subseteq Nat, S # {}
  PROVE  \E i \in S : \A j \in S : i <= j
<1>. DEFINE R == OpToRel(<, Nat)
<1>1. IsWellFoundedOn(R, Nat)
  BY NatLessThanWellFounded
<1>2. \A x, y \in Nat : <<x, y>> \in R <=> x < y
  BY DEF OpToRel
<1>. HIDE DEF R
<1>3. PICK x \in S : \A y \in S : ~(<<y, x>> \in R)
  BY <1>1, WFMin, Zenon
<1>4. \A y \in S : x \in Nat /\ y \in Nat /\ ~(y < x)
  BY <1>2, <1>3
<1>. QED  BY <1>4

\* Each hop of a valid journal is bound to the packet, to the hop before it and to
\* its time.
LEMMA HopFacts ==
  ASSUME NEW p, ValidHopTrace(p), NEW i \in DOMAIN p.hops
  PROVE  /\ p.hops[i].body.pid = p.core.id
         /\ p.hops[i].hash = HopHash(p.hash, p.hops[i].body)
         /\ p.hops[i].body.prev = IF i = 1 THEN None ELSE p.hops[i - 1].hash
         /\ ~(i > 1 /\ p.hops[i].body.ts < p.hops[i - 1].body.ts)
<1>1. HopVerdict(p, i) = "ok"
  BY DEF ValidHopTrace, BadHops
<1>. QED  BY <1>1 DEF HopVerdict

\* A hop made for a packet extends a valid journal to a valid one, when it is
\* not earlier than the last.
LEMMA HopExtendsTrace ==
  ASSUME NEW S, NEW p, DOMAIN p = {"core", "restricted", "hash", "sig", "hops"}, p.hops \in Seq(S),
         ValidHopTrace(p), NEW n, NEW d, NEW st, NEW e, NEW t \in Int,
         \A i \in DOMAIN p.hops : p.hops[i].body.ts \in Int,
         p.hops = <<>> \/ p.hops[Len(p.hops)].body.ts <= t
  PROVE  ValidHopTrace(WithHop(p, MakeHop(p, n, d, st, e, t)))
<1>. DEFINE hop == MakeHop(p, n, d, st, e, t)
            q == WithHop(p, hop)
            k == Len(p.hops)
<1>1. /\ hop.body.pid = p.core.id /\ hop.body.ts = t
      /\ hop.body.prev = LastHopHash(p) /\ hop.hash = HopHash(p.hash, hop.body)
  BY DEF MakeHop
<1>. HIDE DEF hop
<1>2. q.core = p.core /\ q.hash = p.hash /\ q.hops = Append(p.hops, hop)
  BY DEF WithHop
<1>3. k \in Nat /\ DOMAIN p.hops = 1..k
  BY LenProperties
<1>4. /\ DOMAIN q.hops = 1..(k + 1)
      /\ \A i \in 1..k : q.hops[i] = p.hops[i]
      /\ q.hops[k + 1] = hop
  BY <1>2, <1>3
<1>. HIDE DEF q, k
<1>5. ASSUME NEW i \in 1..k PROVE HopVerdict(q, i) = "ok"
  <2>1. HopVerdict(p, i) = "ok"
    BY <1>3, <1>5 DEF ValidHopTrace, BadHops
  <2>2. i # 1 => i - 1 \in 1..k
    BY <1>3, <1>5
  <2>3. q.hops[i] = p.hops[i] /\ (i # 1 => q.hops[i - 1] = p.hops[i - 1])
    BY <1>4, <1>5, <2>2
  <2>4. i > 1 <=> i # 1
    BY <1>3, <1>5
  <2>5. HopVerdict(q, i) = HopVerdict(p, i)
    BY <1>2, <2>3, <2>4, Zenon DEF HopVerdict
  <2>. QED  BY <2>1, <2>5
<1>6. HopVerdict(q, k + 1) = "ok"
  <2>1. LastHopHash(p) = IF k = 0 THEN None ELSE p.hops[k].hash
    BY <1>3, EmptySeq DEF LastHopHash, k
  <2>2. k # 0 => k \in 1..k /\ p.hops[k].body.ts <= t
    BY <1>3, EmptySeq DEF k
  <2>. QED  BY <1>1, <1>2, <1>3, <1>4, <2>1, <2>2 DEF HopVerdict
<1>. QED  BY <1>3, <1>4, <1>5, <1>6 DEF ValidHopTrace, BadHops, q, hop

\* A node appends its hop and the journal stays valid exactly when its clock is not
\* behind the last hop's (with_hop after a hop maker, validate_hop_trace): the
\* time of the last hop is all that journals of other nodes can spoil.
THEOREM JournalIsExtended ==
  ASSUME NEW S, NEW p, DOMAIN p = {"core", "restricted", "hash", "sig", "hops"}, p.hops \in Seq(S),
         ValidHopTrace(p), NEW n, NEW d, NEW st, NEW e, NEW t \in Int,
         \A i \in DOMAIN p.hops : p.hops[i].body.ts \in Int
  PROVE  ValidHopTrace(WithHop(p, MakeHop(p, n, d, st, e, t)))
           <=> p.hops = <<>> \/ p.hops[Len(p.hops)].body.ts <= t
<1>. DEFINE hop == MakeHop(p, n, d, st, e, t)
            q == WithHop(p, hop)
            k == Len(p.hops)
<1>1. SUFFICES ASSUME ValidHopTrace(q), p.hops # <<>> PROVE p.hops[k].body.ts <= t
  BY HopExtendsTrace
<1>2. hop.body.ts = t
  BY DEF MakeHop
<1>3. k \in Nat \ {0} /\ DOMAIN p.hops = 1..k
  BY <1>1, LenProperties, EmptySeq
<1>. HIDE DEF hop
<1>4. q.hops = Append(p.hops, hop)
  BY DEF WithHop
<1>5. k + 1 \in DOMAIN q.hops /\ q.hops[k + 1] = hop /\ q.hops[k] = p.hops[k]
  BY <1>3, <1>4
<1>. HIDE DEF q, k
<1>6. ~(k + 1 > 1 /\ q.hops[k + 1].body.ts < q.hops[(k + 1) - 1].body.ts)
  BY <1>1, <1>5, HopFacts
<1>7. (k + 1) - 1 = k /\ k + 1 > 1
  BY <1>3
<1>8. p.hops[k].body.ts \in Int
  BY <1>3
<1>. QED  BY <1>2, <1>5, <1>6, <1>7, <1>8

\* The hops of a valid journal are in the order of their times, however many
\* nodes with their own clocks wrote them (validate_hop_trace compares neighbours).
THEOREM JournalIsOrdered ==
  ASSUME NEW S, NEW p, p.hops \in Seq(S), ValidHopTrace(p),
         \A i \in DOMAIN p.hops : p.hops[i].body.ts \in Int,
         NEW i \in DOMAIN p.hops, NEW j \in DOMAIN p.hops, i <= j
  PROVE  p.hops[i].body.ts <= p.hops[j].body.ts
<1>. DEFINE k == Len(p.hops)
            Late == {m \in Nat : i <= m /\ m <= k /\ p.hops[m].body.ts < p.hops[i].body.ts}
<1>1. k \in Nat /\ DOMAIN p.hops = 1..k
  BY LenProperties
<1>. HIDE DEF k
<1>2. Late = {}
  <2>1. SUFFICES ASSUME Late # {} PROVE FALSE
    OBVIOUS
  <2>2. PICK m \in Late : \A l \in Late : m <= l
    BY <2>1, First
  <2>3. m \in 1..k /\ i < m /\ m - 1 \in 1..k
    <3>1. m \in 1..k /\ i <= m /\ p.hops[m].body.ts < p.hops[i].body.ts
      BY <1>1, <2>2
    <3>2. i # m
      BY <1>1, <3>1
    <3>. QED  BY <1>1, <3>1, <3>2
  <2>4. p.hops[m - 1].body.ts >= p.hops[i].body.ts
    <3>1. m - 1 \notin Late
      BY <2>2, <2>3
    <3>. QED  BY <1>1, <2>3, <3>1
  <2>5. ~(p.hops[m].body.ts < p.hops[m - 1].body.ts)
    <3>1. m > 1 /\ m \in DOMAIN p.hops
      BY <1>1, <2>3
    <3>. QED  BY <3>1, HopFacts
  <2>6. /\ p.hops[m].body.ts < p.hops[i].body.ts
        /\ p.hops[m].body.ts \in Int /\ p.hops[m - 1].body.ts \in Int /\ p.hops[i].body.ts \in Int
    BY <1>1, <2>2, <2>3
  <2>. QED  BY <2>4, <2>5, <2>6
<1>3. j \notin Late
  BY <1>2
<1>. QED  BY <1>1, <1>3

\* The journal is evidence: two valid journals that end in the same hop hash are the
\* same, hop by hop, and of the same packet.  So whoever keeps the last hop hash
\* notices any hop that is changed, dropped, inserted or moved (previous_hop_hash).
THEOREM JournalIsEvidence ==
  ASSUME NEW p, NEW q, NEW Bodies, NEW Hashes,
         p.hops \in Seq([body : Bodies, hash : Hashes]),
         q.hops \in Seq([body : Bodies, hash : Hashes]),
         ValidHopTrace(p), ValidHopTrace(q), LastHopHash(p) = LastHopHash(q),
         \A hash, body : HopHash(hash, body) # None
  PROVE  p.hops = q.hops /\ (p.hops # <<>> => p.hash = q.hash)
<1>. DEFINE n == Len(p.hops)
            m == Len(q.hops)
            Bad == {k \in Nat : k < n /\ k < m /\ p.hops[n - k] # q.hops[m - k]}
<1>1. /\ n \in Nat /\ DOMAIN p.hops = 1..n /\ m \in Nat /\ DOMAIN q.hops = 1..m
      /\ \A i \in 1..n : p.hops[i] \in [body : Bodies, hash : Hashes]
      /\ \A i \in 1..m : q.hops[i] \in [body : Bodies, hash : Hashes]
  BY LenProperties, ElementOfSeq
<1>2. /\ LastHopHash(p) = IF n = 0 THEN None ELSE p.hops[n].hash
      /\ LastHopHash(q) = IF m = 0 THEN None ELSE q.hops[m].hash
  BY EmptySeq DEF LastHopHash
<1>. HIDE DEF n, m
<1>3. n \in Nat /\ m \in Nat
  BY <1>1
<1>4. /\ \A i \in 1..n : p.hops[i].body.prev = IF i = 1 THEN None ELSE p.hops[i - 1].hash
      /\ \A i \in 1..m : q.hops[i].body.prev = IF i = 1 THEN None ELSE q.hops[i - 1].hash
  <2>1. ASSUME NEW i \in 1..n PROVE p.hops[i].body.prev = IF i = 1 THEN None ELSE p.hops[i - 1].hash
    BY <1>1, HopFacts, Zenon
  <2>2. ASSUME NEW i \in 1..m PROVE q.hops[i].body.prev = IF i = 1 THEN None ELSE q.hops[i - 1].hash
    BY <1>1, HopFacts, Zenon
  <2>. QED  BY <2>1, <2>2
<1>5. (IF n = 0 THEN None ELSE p.hops[n].hash) = (IF m = 0 THEN None ELSE q.hops[m].hash)
  BY <1>2
<1>6. ASSUME NEW i \in 1..n, NEW j \in 1..m, p.hops[i].hash = q.hops[j].hash
      PROVE  p.hops[i] = q.hops[j] /\ p.hash = q.hash
  <2>1. HopHash(p.hash, p.hops[i].body) = HopHash(q.hash, q.hops[j].body)
    BY <1>1, <1>6, HopFacts
  <2>2. p.hash = q.hash /\ p.hops[i].body = q.hops[j].body
    BY <2>1 DEF HopHash
  <2>3. p.hops[i] \in [body : Bodies, hash : Hashes] /\ q.hops[j] \in [body : Bodies, hash : Hashes]
    BY <1>1
  <2>. QED  BY <1>6, <2>2, <2>3
<1>7. Bad = {}
  <2>1. SUFFICES ASSUME Bad # {} PROVE FALSE
    OBVIOUS
  <2>2. PICK k \in Bad : \A l \in Bad : k <= l
    BY <2>1, First
  <2>3. k \in Nat /\ n - k \in 1..n /\ m - k \in 1..m /\ p.hops[n - k] # q.hops[m - k]
    BY <1>1, <2>2
  <2>4. CASE k = 0
    <3>1. n \in 1..n /\ m \in 1..m /\ p.hops[n].hash = q.hops[m].hash
      BY <1>3, <1>5, <2>3, <2>4
    <3>. QED  BY <1>1, <1>6, <2>3, <2>4, <3>1
  <2>5. CASE k # 0
    <3>. DEFINE i == (n - k) + 1
                j == (m - k) + 1
    <3>1. /\ i \in 1..n /\ j \in 1..m /\ i # 1 /\ j # 1
          /\ i - 1 = n - k /\ j - 1 = m - k /\ i = n - (k - 1) /\ j = m - (k - 1)
      BY <1>1, <2>3, <2>5
    <3>2. k - 1 \in Nat /\ k - 1 < n /\ k - 1 < m /\ k - 1 \notin Bad
      BY <1>1, <2>2, <2>3, <2>5
    <3>3. p.hops[i] = q.hops[j]
      BY <3>1, <3>2
    <3>. HIDE DEF i, j
    <3>4. p.hops[i].body.prev = p.hops[i - 1].hash /\ q.hops[j].body.prev = q.hops[j - 1].hash
      BY <1>4, <3>1
    <3>5. p.hops[n - k].hash = q.hops[m - k].hash
      BY <3>1, <3>3, <3>4
    <3>. QED  BY <1>6, <2>3, <3>5
  <2>. QED  BY <2>4, <2>5
<1>8. \A i \in 1..n : p.hops[i].hash # None
  BY <1>1, HopFacts
<1>9. \A i \in 1..m : q.hops[i].hash # None
  BY <1>1, HopFacts
<1>10. ~(n < m)
  <2>1. SUFFICES ASSUME n < m PROVE FALSE
    OBVIOUS
  <2>2. CASE n = 0
    BY <1>3, <1>5, <1>9, <2>1, <2>2
  <2>3. CASE n # 0
    <3>. DEFINE j == (m - n) + 1
    <3>1. /\ n - 1 \in Nat /\ n - 1 < n /\ n - 1 < m /\ n - (n - 1) = 1 /\ m - (n - 1) = j
          /\ 1 \in 1..n /\ j \in 1..m /\ j # 1 /\ j - 1 \in 1..m
      BY <1>1, <2>1, <2>3
    <3>2. p.hops[1] = q.hops[j]
      BY <1>7, <3>1
    <3>. HIDE DEF j
    <3>3. p.hops[1].body.prev = None /\ q.hops[j].body.prev = q.hops[j - 1].hash
      BY <1>4, <3>1
    <3>. QED  BY <1>9, <3>1, <3>2, <3>3
  <2>. QED  BY <2>2, <2>3
<1>11. ~(m < n)
  <2>1. SUFFICES ASSUME m < n PROVE FALSE
    OBVIOUS
  <2>2. CASE m = 0
    BY <1>3, <1>5, <1>8, <2>1, <2>2
  <2>3. CASE m # 0
    <3>. DEFINE i == (n - m) + 1
    <3>1. /\ m - 1 \in Nat /\ m - 1 < n /\ m - 1 < m /\ m - (m - 1) = 1 /\ n - (m - 1) = i
          /\ 1 \in 1..m /\ i \in 1..n /\ i # 1 /\ i - 1 \in 1..n
      BY <1>1, <2>1, <2>3
    <3>2. q.hops[1] = p.hops[i]
      BY <1>7, <3>1
    <3>. HIDE DEF i
    <3>3. q.hops[1].body.prev = None /\ p.hops[i].body.prev = p.hops[i - 1].hash
      BY <1>4, <3>1
    <3>. QED  BY <1>8, <3>1, <3>2, <3>3
  <2>. QED  BY <2>2, <2>3
<1>12. n = m
  BY <1>1, <1>10, <1>11
<1>13. ASSUME NEW i \in 1..n PROVE p.hops[i] = q.hops[i]
  <2>1. n - i \in Nat /\ n - i < n /\ n - i < m /\ n - (n - i) = i /\ m - (n - i) = i
    BY <1>1, <1>12
  <2>. QED  BY <1>7, <2>1
<1>14. p.hops = q.hops
  BY <1>1, <1>12, <1>13, SeqEqual DEF n, m
<1>15. ASSUME p.hops # <<>> PROVE p.hash = q.hash
  <2>1. n \in 1..n /\ n \in 1..m
    BY <1>1, <1>12, <1>15, EmptySeq DEF n
  <2>. QED  BY <1>6, <1>14, <2>1
<1>. QED  BY <1>14, <1>15

-----------------------------------------------------------------------------
(* Signatures (sign_packet, verify_packet_signature).                       *)

\* Where a signature is asked for, by the caller or by the packet's classification as
\* it arrives, a packet that is accepted outside development mode carries one by a
\* key that the validator resolves, over the very core the packet has.  Of the
\* classification nothing follows: it is outside the hash (compute_transport_hash), so
\* the key need not have signed this packet under the classification it arrives with.
THEOREM AcceptedIsSigned ==
  ASSUME NEW p, NEW v, NEW at, Valid(p, v, at), Intact(p), ~v.dev,
         v.requireSig \/ p.restricted
  PROVE  p.sig # None /\ p.sig.key \in v.keys /\ p.sig.over = p.core
<1>1. ~(IF p.sig = None THEN (v.requireSig \/ p.restricted) /\ ~v.dev
          ELSE ~(v.dev /\ v.keys = {}) /\ ~SignatureVerifies(p, v.keys))
  BY ValidExactly
<1>. QED  BY <1>1 DEF SignatureVerifies, Intact, TransportHash

\* A signature binds what the transport hash covers: two packets under one signature
\* that are accepted where signatures are asked for have the same header, address,
\* tenant, payload, governance, delegations, lineage, attachments and provenance.
\* They may differ in their journal and in their classification, which it leaves out
\* (hashing.py, compute_transport_hash).
THEOREM SignatureBinds ==
  ASSUME NEW p, NEW q, NEW v, NEW w, NEW at, NEW then,
         Valid(p, v, at), Intact(p), ~v.dev, v.requireSig,
         Valid(q, w, then), Intact(q), ~w.dev, w.requireSig, p.sig = q.sig
  PROVE  p.core = q.core /\ p.hash = q.hash
BY AcceptedIsSigned DEF Intact, TransportHash

-----------------------------------------------------------------------------
(* Validity (validate_transport_packet).                                    *)

\* A packet that is valid at two instants is valid at every instant between: its
\* dates make one window (not_before, expires_at, the clock skew and the first expiry
\* of a delegation link), and no other check looks at the clock.
THEOREM ValidityIsAWindow ==
  ASSUME NEW p, NEW v, NEW from \in Int, NEW at \in Int, NEW to \in Int,
         from <= at, at <= to, v.skew \in Int, p.core.created \in Int,
         p.core.notBefore # None => p.core.notBefore \in Int,
         p.core.expires # None => p.core.expires \in Int,
         p.core.until # None => p.core.until \in Int,
         Valid(p, v, from), Valid(p, v, to)
  PROVE  Valid(p, v, at)
<1>1. ~(p.core.created > at + v.skew)
  <2>1. ~(p.core.created > from + v.skew)
    BY ValidExactly
  <2>. QED  BY <2>1
<1>2. ~(p.core.notBefore # None /\ at < p.core.notBefore)
  <2>1. ~(p.core.notBefore # None /\ from < p.core.notBefore)
    BY ValidExactly
  <2>. QED  BY <2>1
<1>3. ~(p.core.expires # None /\ at > p.core.expires)
  <2>1. ~(p.core.expires # None /\ to > p.core.expires)
    BY ValidExactly
  <2>. QED  BY <2>1
<1>4. DelegationOK(p.core, at)
  <2>1. DelegationOK(p.core, to)
    BY ValidExactly
  <2>. QED  BY <2>1 DEF DelegationOK
<1>. QED  BY <1>1, <1>2, <1>3, <1>4, ValidExactly

\* v asks at least what w asks.  A validator in development mode that can resolve
\* no key takes every signature, so a key more makes it stricter.
Stricter(v, w) ==
  /\ w.types # None => v.types # None /\ v.types \subseteq w.types
  /\ w.actions # None => v.actions # None /\ v.actions \subseteq w.actions
  /\ w.node # None => v.node = w.node
  /\ v.skew <= w.skew /\ v.maxBytes <= w.maxBytes /\ v.maxHops <= w.maxHops
  /\ v.maxLinks <= w.maxLinks /\ v.attachable \subseteq w.attachable
  /\ w.idem \subseteq v.idem /\ (v.replay => w.replay)
  /\ (w.requireSig => v.requireSig) /\ (v.dev => w.dev)
  /\ v.keys \subseteq w.keys /\ (v.dev /\ v.keys = {} => w.keys = {})

\* A stricter configuration accepts less, whatever the packet: no two of the
\* validator's checks compensate each other.
THEOREM StricterAcceptsLess ==
  ASSUME NEW p, NEW v, NEW w, NEW at \in Int, Stricter(v, w),
         {v.skew, w.skew, v.maxBytes, w.maxBytes, v.maxHops, w.maxHops,
          v.maxLinks, w.maxLinks} \subseteq Int,
         {p.core.created, p.core.links, Size(p), Len(p.hops)} \subseteq Int, Valid(p, v, at)
  PROVE  Valid(p, w, at)
<1>1. /\ ~(w.types # None /\ p.core.type \notin w.types)
      /\ ~(w.actions # None /\ p.core.action \notin w.actions)
      /\ ~(w.node # None /\ p.core.dst # w.node)
  BY ValidExactly DEF Stricter
<1>2. ~(p.core.created > at + w.skew)
  <2>1. ~(p.core.created > at + v.skew) /\ v.skew <= w.skew
    BY ValidExactly DEF Stricter
  <2>. QED  BY <2>1
<1>3. ~(\/ Len(p.hops) > w.maxHops \/ p.core.links > w.maxLinks
        \/ p.core.attached # None /\ p.core.attached \notin w.attachable)
  <2>1. /\ ~(Len(p.hops) > v.maxHops) /\ v.maxHops <= w.maxHops
        /\ ~(p.core.links > v.maxLinks) /\ v.maxLinks <= w.maxLinks
        /\ ~(p.core.attached # None /\ p.core.attached \notin v.attachable)
        /\ v.attachable \subseteq w.attachable
    BY ValidExactly DEF Stricter
  <2>. QED  BY <2>1
<1>4. /\ ~(p.core.type = "replay_request" /\ ~w.replay)
      /\ ~(p.core.action \in w.idem /\ p.core.idem = None)
  BY ValidExactly DEF Stricter
<1>5. ~(IF p.sig = None THEN (w.requireSig \/ p.restricted) /\ ~w.dev
          ELSE ~(w.dev /\ w.keys = {}) /\ ~SignatureVerifies(p, w.keys))
  <2>1. ~(IF p.sig = None THEN (v.requireSig \/ p.restricted) /\ ~v.dev
            ELSE ~(v.dev /\ v.keys = {}) /\ ~SignatureVerifies(p, v.keys))
    BY ValidExactly
  <2>. QED  BY <2>1 DEF Stricter, SignatureVerifies
<1>6. ~(Size(p) > w.maxBytes)
  <2>1. ~(Size(p) > v.maxBytes) /\ v.maxBytes <= w.maxBytes
    BY ValidExactly DEF Stricter
  <2>. QED  BY <2>1
<1>. QED  BY <1>1, <1>2, <1>3, <1>4, <1>5, <1>6, ValidExactly

-----------------------------------------------------------------------------
(* Derivation (derive, TransportHeader.validate_header).                    *)

\* A child of a packet that is valid can be built until, not at, the instant the packet
\* expires, and if it has a start date at that instant only: expires_at and not_before
\* are inherited, created_at is not.
THEOREM WhenDerivable ==
  ASSUME NEW p, NEW v, NEW at \in Int, NEW id, Valid(p, v, at),
         {"created", "expires", "notBefore"} \subseteq DOMAIN p.core,
         p.core.notBefore # None => p.core.notBefore \in Int,
         p.core.expires # None => p.core.expires \in Int
  PROVE  HeaderOK(Child(p, id, at)) <=>
           /\ p.core.expires # None => at < p.core.expires
           /\ p.core.notBefore # None => at = p.core.notBefore
<1>1. /\ Child(p, id, at).created = at
      /\ Child(p, id, at).expires = p.core.expires
      /\ Child(p, id, at).notBefore = p.core.notBefore
  BY DEF Child
<1>2. /\ ~(p.core.notBefore # None /\ at < p.core.notBefore)
      /\ ~(p.core.expires # None /\ at > p.core.expires)
  BY ValidExactly
<1>. QED  BY <1>1, <1>2 DEF HeaderOK

=============================================================================
