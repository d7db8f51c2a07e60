--------------------------- MODULE VtOrderProofs ---------------------------
(***************************************************************************)
(* That what a session queues arrives in order, and that a cached snapshot *)
(* stands for all of it, for any set of sessions and any limits.           *)
(***************************************************************************)
EXTENDS VtWorkerProofs

-----------------------------------------------------------------------------
(* The inductive invariant *)

\* A mutation of session s, and how one continues what was sent or queued before it: a
\* write goes on at its offset and in its size, a resize adds one size.
Mutates(s, c) == c.s = s /\ c.op \in Mutations

Follows(c, p) ==
    /\ c.from = p.upto
    /\ IF c.op = "write" THEN c.sizes = p.sizes
       ELSE c.upto = c.from /\ c.sizes = Append(p.sizes, c.sizes[Len(c.sizes)])

\* The mutations of s in q continue each other, the first one p, and c the last one.
IsFirst(s, q, j) == Mutates(s, q[j]) /\ \A k \in DOMAIN q : k < j => ~Mutates(s, q[k])
IsLast(s, q, i) == Mutates(s, q[i]) /\ \A k \in DOMAIN q : i < k => ~Mutates(s, q[k])
AreNext(s, q, i, j) ==
    /\ Mutates(s, q[i]) /\ Mutates(s, q[j]) /\ i < j
    /\ \A k \in DOMAIN q : i < k /\ k < j => ~Mutates(s, q[k])

Chain(s, q, p) ==
    /\ \A j \in DOMAIN q : IsFirst(s, q, j) => Follows(q[j], p)
    /\ \A i, j \in DOMAIN q : AreNext(s, q, i, j) => Follows(q[j], q[i])

Joins(s, q, p, c) ==
    /\ \A i \in DOMAIN q : IsLast(s, q, i) => Follows(c, q[i])
    /\ (\A k \in DOMAIN q : ~Mutates(s, q[k])) => Follows(c, p)

\* What was sent, what Node has applied, and a write of nothing after what was sent.
Sent(s) == [upto |-> sentOffset[s], sizes |-> sentSizes[s]]
Done(s) == [upto |-> node[s].offset, sizes |-> node[s].sizes]
Rest(s) == [op |-> "write", from |-> sentOffset[s], sizes |-> sentSizes[s]]

\* The next mutation of a thread: the one it is about to queue, or a write of nothing.
Resizing(s) == writer[s] \in {"resize", "resized"}
Due(s) ==
    IF Resizing(s) THEN Command(s, "resize")
    ELSE IF writer[s] = "write" THEN [Command(s, "write") EXCEPT !.from = printed[s] - 1]
    ELSE Command(s, "write")

Within(szs, n) == \A i \in DOMAIN szs : szs[i].at <= n

\* Nothing is sent that was not queued, nor queued that was not printed; sizes are within
\* the output that was there, and grow with every resize.
BoundInv ==
    /\ \A s \in Sessions :
         /\ sentOffset[s] <= printed[s]
         /\ Within(sizes[s], printed[s]) /\ Within(sentSizes[s], sentOffset[s])
    /\ \A i \in DOMAIN queue :
         /\ queue[i].upto <= printed[queue[i].s]
         /\ Within(queue[i].sizes, queue[i].upto)

GrowthInv ==
    /\ \A i \in DOMAIN queue : queue[i].op \in Mutations =>
         /\ Len(queue[i].sizes) <= Len(sizes[queue[i].s])
         /\ Resizing(queue[i].s) => Len(queue[i].sizes) < Len(sizes[queue[i].s])
    /\ \A i, j \in DOMAIN queue :
         queue[i].s = queue[j].s /\ i < j /\ queue[i].op \in Mutations /\ queue[j].op = "resize"
            => Len(queue[i].sizes) < Len(queue[j].sizes)

\* Before its create nothing of a session is queued or sent.
Unsent(s) == sentOffset[s] = 0 /\ sentSizes[s] = <<>>
FreshInv ==
    /\ \A s \in Sessions : status[s] = "none" =>
         /\ printed[s] = 0 /\ sizes[s] = <<>> /\ writer[s] = "idle" /\ Unsent(s) /\ ~Queued(s)
    /\ \A i \in DOMAIN queue : queue[i].op = "create" =>
         /\ Unsent(queue[i].s)
         /\ \A j \in DOMAIN queue : queue[j].s = queue[i].s => i <= j
    /\ actor = "creating" => Unsent(current)

\* The queue of a session that works continues what was sent, and its thread the queue.
Queueing(s) == Resizing(s) \/ writer[s] = "write"
InStep(s) == (Active(s) /\ writer[s] # "failing") \/ (CanProcess(s) /\ Queueing(s))
ChainInv ==
    \A s \in Sessions :
        /\ CanProcess(s) => Chain(s, queue, Sent(s))
        /\ InStep(s) /\ actor # "stopped" => Joins(s, queue, Sent(s), Due(s))

\* One request is under way, and nothing is sent after it.
Waits == actor \in {"creating", "disposing", "cleaning", "snapshot", "storing"}
Asked ==
    CASE actor = "creating" -> "create"
      [] actor \in {"disposing", "cleaning"} -> "dispose"
      [] OTHER -> "snapshot"
AwaitInv ==
    /\ \A i \in DOMAIN pipe : pipe[i].op \in Requests =>
         /\ Waits /\ i = Len(pipe) /\ pipe[i].s = current /\ pipe[i].op = Asked
         /\ \A k \in DOMAIN replies : replies[k].op \in Mutations
    /\ \A k \in DOMAIN replies : replies[k].op \in Requests =>
         /\ Waits /\ k = Len(replies) /\ replies[k].s = current /\ replies[k].op = Asked
         /\ pipe = <<>>

\* Node only hears of sessions that were created.
KnownInv ==
    /\ \A i \in DOMAIN pipe : status[pipe[i].s] # "none"
    /\ \A k \in DOMAIN replies : status[replies[k].s] # "none"
    /\ \A s \in Sessions : node[s] # None => status[s] # "none"

\* What is in the pipe continues what Node has applied, up to what was sent, unless an
\* error is on its way back.
Broken(s) == \E k \in DOMAIN replies : Mutates(s, replies[k])
NodeInv ==
    \A s \in Sessions : Active(s) /\ node[s] # None /\ ~Broken(s) =>
        Chain(s, pipe, Done(s)) /\ Joins(s, pipe, Done(s), Rest(s))

\* A snapshot is of all that was sent.
IsAllSent(r) == r.offset = sentOffset[r.s] /\ r.sizes = sentSizes[r.s]
AnswersInv ==
    \A k \in DOMAIN replies :
        /\ replies[k].op = "snapshot" /\ replies[k].ok
        /\ Active(replies[k].s) /\ ~Broken(replies[k].s)
        => IsAllSent(replies[k])

StoringInv ==
    actor = "storing" =>
        /\ IsAllSent(Head(replies)) /\ Head(replies).s = current
        /\ sizes[current] = sentSizes[current] \/ writer[current] = "resize"

SnapshotInv == AnswersInv /\ StoringInv

\* A cached snapshot is exact, but for the thread that will clear it.
ExactInv ==
    \A s \in Sessions : cache[s] # None /\ writer[s] # "resize" =>
        /\ cache[s].sizes = sizes[s] /\ cache[s].offset <= printed[s]
        /\ Within(sizes[s], cache[s].offset)

OrderInv ==
    /\ BoundInv /\ GrowthInv /\ FreshInv /\ ChainInv
    /\ AwaitInv /\ KnownInv /\ NodeInv /\ SnapshotInv /\ ExactInv
-----------------------------------------------------------------------------
(* Mutations that continue each other *)

LEMMA SameQueueFacts ==
    ASSUME NEW S, NEW q \in Seq(S), NEW c \in S
    PROVE  /\ DOMAIN q = 1..Len(q) /\ Len(q) \in Nat /\ Append(q, c) \in Seq(S)
           /\ DOMAIN Append(q, c) = 1..(Len(q) + 1)
           /\ \A i \in 1..Len(q) : Append(q, c)[i] = q[i]
           /\ Append(q, c)[Len(q) + 1] = c
  BY AppendKeeps, LenProperties

\* A command goes to the end of the chain that it joins, or belongs to another session.
LEMMA ChainAppend ==
    ASSUME NEW S, NEW q \in Seq(S), NEW c \in S, NEW s, NEW p,
           Chain(s, q, p), Mutates(s, c) => Joins(s, q, p, c)
    PROVE  Chain(s, Append(q, c), p)
  <1> DEFINE r == Append(q, c)
  <1>1. /\ DOMAIN q = 1..Len(q) /\ Len(q) \in Nat /\ DOMAIN r = 1..(Len(q) + 1)
        /\ \A i \in 1..Len(q) : r[i] = q[i]
        /\ r[Len(q) + 1] = c
    BY SameQueueFacts
  <1> HIDE DEF r
  <1>2. ASSUME NEW j \in DOMAIN r, IsFirst(s, r, j) PROVE Follows(r[j], p)
    <2>1. CASE j \in DOMAIN q
      <3>1. IsFirst(s, q, j)
        BY <1>1, <1>2, <2>1 DEF IsFirst
      <3>2. QED
        BY <1>1, <2>1, <3>1 DEF Chain
    <2>2. CASE j = Len(q) + 1
      <3>1. \A k \in DOMAIN q : ~Mutates(s, q[k])
        BY <1>1, <1>2, <2>2 DEF IsFirst
      <3>2. QED
        BY <1>1, <1>2, <2>2, <3>1 DEF IsFirst, Joins
    <2>3. QED
      BY <1>1, <2>1, <2>2
  <1>3. ASSUME NEW i \in DOMAIN r, NEW j \in DOMAIN r, AreNext(s, r, i, j)
        PROVE  Follows(r[j], r[i])
    <2>1. i \in DOMAIN q
      BY <1>1, <1>3 DEF AreNext
    <2>2. CASE j \in DOMAIN q
      <3>1. AreNext(s, q, i, j)
        BY <1>1, <1>3, <2>1, <2>2 DEF AreNext
      <3>2. QED
        BY <1>1, <2>1, <2>2, <3>1 DEF Chain
    <2>3. CASE j = Len(q) + 1
      <3>1. IsLast(s, q, i)
        BY <1>1, <1>3, <2>1, <2>3 DEF AreNext, IsLast
      <3>2. QED
        BY <1>1, <1>3, <2>1, <2>3, <3>1 DEF AreNext, Joins
    <2>4. QED
      BY <1>1, <2>2, <2>3
  <1>4. QED
    BY <1>2, <1>3 DEF Chain, r

\* What continues the command just appended joins the longer chain.
LEMMA JoinsAppended ==
    ASSUME NEW S, NEW q \in Seq(S), NEW c \in S, NEW s, NEW p, NEW d,
           Mutates(s, c), Follows(d, c)
    PROVE  Joins(s, Append(q, c), p, d)
  <1> DEFINE r == Append(q, c)
  <1>1. /\ DOMAIN q = 1..Len(q) /\ Len(q) \in Nat /\ DOMAIN r = 1..(Len(q) + 1)
        /\ \A i \in 1..Len(q) : r[i] = q[i]
        /\ r[Len(q) + 1] = c
    BY SameQueueFacts
  <1> HIDE DEF r
  <1>2. ASSUME NEW i \in DOMAIN r, IsLast(s, r, i) PROVE i = Len(q) + 1
    BY <1>1, <1>2 DEF IsLast
  <1>3. Joins(s, r, p, d)
    BY <1>1, <1>2 DEF Joins
  <1>4. QED
    BY <1>3 DEF r

\* A command of another session, or no mutation, does not come between.
LEMMA JoinsOther ==
    ASSUME NEW S, NEW q \in Seq(S), NEW c \in S, NEW s, NEW p, NEW d,
           ~Mutates(s, c), Joins(s, q, p, d)
    PROVE  Joins(s, Append(q, c), p, d)
  <1> DEFINE r == Append(q, c)
  <1>1. /\ DOMAIN q = 1..Len(q) /\ Len(q) \in Nat /\ DOMAIN r = 1..(Len(q) + 1)
        /\ \A i \in 1..Len(q) : r[i] = q[i]
        /\ r[Len(q) + 1] = c
    BY SameQueueFacts
  <1> HIDE DEF r
  <1>2. ASSUME NEW i \in DOMAIN r, IsLast(s, r, i) PROVE i \in DOMAIN q /\ IsLast(s, q, i)
    BY <1>1, <1>2 DEF IsLast
  <1>3. ASSUME \A k \in DOMAIN r : ~Mutates(s, r[k]) PROVE \A k \in DOMAIN q : ~Mutates(s, q[k])
    BY <1>1, <1>3
  <1>4. Joins(s, r, p, d)
    BY <1>1, <1>2, <1>3 DEF Joins
  <1>5. QED
    BY <1>4 DEF r

\* The head leaves: the chain goes on from it, or from where it did.
GoesOn(s, h, p, r) ==
    /\ Mutates(s, h) => r.upto = h.upto /\ r.sizes = h.sizes
    /\ ~Mutates(s, h) => r.upto = p.upto /\ r.sizes = p.sizes

LEMMA TailFacts ==
    ASSUME NEW S, NEW q \in Seq(S), q # <<>>
    PROVE  /\ DOMAIN q = 1..Len(q) /\ Len(q) \in Nat /\ Len(q) >= 1 /\ Head(q) = q[1]
           /\ Tail(q) \in Seq(S) /\ DOMAIN Tail(q) = 1..(Len(q) - 1)
           /\ \A i \in DOMAIN Tail(q) : i + 1 \in DOMAIN q /\ Tail(q)[i] = q[i + 1]
           /\ \A i \in DOMAIN q : i = 1 \/ (i - 1 \in DOMAIN Tail(q) /\ Tail(q)[i - 1] = q[i])
  BY TailKeeps, LenProperties

\* What is left of a chain continues the command that was taken, if it was one of s.
LEMMA ChainTail ==
    ASSUME NEW S, NEW q \in Seq(S), q # <<>>, NEW s, NEW p, NEW r,
           Chain(s, q, p), GoesOn(s, Head(q), p, r)
    PROVE  Chain(s, Tail(q), r)
  <1> DEFINE t == Tail(q)
  <1>1. /\ DOMAIN q = 1..Len(q) /\ Len(q) \in Nat /\ Len(q) >= 1 /\ Head(q) = q[1]
        /\ DOMAIN t = 1..(Len(q) - 1)
        /\ \A i \in DOMAIN t : i + 1 \in DOMAIN q /\ t[i] = q[i + 1]
        /\ \A i \in DOMAIN q : i = 1 \/ (i - 1 \in DOMAIN t /\ t[i - 1] = q[i])
    BY TailFacts
  <1> HIDE DEF t
  <1>2. ASSUME NEW j \in DOMAIN t, IsFirst(s, t, j) PROVE Follows(t[j], r)
    <2>1. \A k \in DOMAIN q : k < j + 1 => k = 1 \/ ~Mutates(s, q[k])
      <3>1. SUFFICES ASSUME NEW k \in DOMAIN q, k < j + 1, k # 1 PROVE ~Mutates(s, q[k])
        OBVIOUS
      <3>2. k - 1 \in DOMAIN t /\ t[k - 1] = q[k] /\ k - 1 < j
        BY <1>1, <3>1
      <3>3. QED
        BY <1>2, <3>2 DEF IsFirst
    <2>2. j + 1 \in DOMAIN q /\ Mutates(s, q[j + 1]) /\ t[j] = q[j + 1]
      BY <1>1, <1>2 DEF IsFirst
    <2>3. CASE Mutates(s, q[1])
      <3>1. AreNext(s, q, 1, j + 1)
        BY <1>1, <2>1, <2>2, <2>3 DEF AreNext
      <3>2. Follows(q[j + 1], q[1])
        BY <1>1, <2>2, <3>1 DEF Chain
      <3>3. QED
        BY <1>1, <2>2, <2>3, <3>2 DEF Follows, GoesOn
    <2>4. CASE ~Mutates(s, q[1])
      <3>1. IsFirst(s, q, j + 1)
        BY <1>1, <2>1, <2>2, <2>4 DEF IsFirst
      <3>2. Follows(q[j + 1], p)
        BY <1>1, <2>2, <3>1 DEF Chain
      <3>3. QED
        BY <1>1, <2>2, <2>4, <3>2 DEF Follows, GoesOn
    <2>5. QED
      BY <2>3, <2>4
  <1>3. ASSUME NEW i \in DOMAIN t, NEW j \in DOMAIN t, AreNext(s, t, i, j)
        PROVE  Follows(t[j], t[i])
    <2>1. AreNext(s, q, i + 1, j + 1)
      <3>1. /\ i + 1 \in DOMAIN q /\ j + 1 \in DOMAIN q /\ i + 1 < j + 1
            /\ t[i] = q[i + 1] /\ t[j] = q[j + 1]
        BY <1>1, <1>3 DEF AreNext
      <3>2. ASSUME NEW k \in DOMAIN q, i + 1 < k, k < j + 1 PROVE ~Mutates(s, q[k])
        <4>1. k - 1 \in DOMAIN t /\ t[k - 1] = q[k] /\ i < k - 1 /\ k - 1 < j
          BY <1>1, <3>2
        <4>2. QED
          BY <1>3, <4>1 DEF AreNext
      <3>3. QED
        BY <1>3, <3>1, <3>2 DEF AreNext
    <2>2. QED
      BY <1>1, <2>1 DEF Chain
  <1>4. QED
    BY <1>2, <1>3 DEF Chain, t

\* What joined the whole chain joins what is left of it.
LEMMA JoinsTail ==
    ASSUME NEW S, NEW q \in Seq(S), q # <<>>, NEW s, NEW p, NEW r, NEW d,
           Joins(s, q, p, d), GoesOn(s, Head(q), p, r)
    PROVE  Joins(s, Tail(q), r, d)
  <1> DEFINE t == Tail(q)
  <1>1. /\ DOMAIN q = 1..Len(q) /\ Len(q) \in Nat /\ Len(q) >= 1 /\ Head(q) = q[1]
        /\ DOMAIN t = 1..(Len(q) - 1)
        /\ \A i \in DOMAIN t : i + 1 \in DOMAIN q /\ t[i] = q[i + 1]
        /\ \A i \in DOMAIN q : i = 1 \/ (i - 1 \in DOMAIN t /\ t[i - 1] = q[i])
    BY TailFacts
  <1> HIDE DEF t
  <1>2. ASSUME NEW i \in DOMAIN t, IsLast(s, t, i) PROVE Follows(d, t[i])
    <2>1. i + 1 \in DOMAIN q /\ Mutates(s, q[i + 1]) /\ t[i] = q[i + 1]
      BY <1>1, <1>2 DEF IsLast
    <2>2. ASSUME NEW k \in DOMAIN q, i + 1 < k PROVE ~Mutates(s, q[k])
      <3>1. k - 1 \in DOMAIN t /\ t[k - 1] = q[k] /\ i < k - 1
        BY <1>1, <2>2
      <3>2. QED
        BY <1>2, <3>1 DEF IsLast
    <2>3. IsLast(s, q, i + 1)
      BY <2>1, <2>2 DEF IsLast
    <2>4. QED
      BY <2>1, <2>3 DEF Joins
  <1>3. ASSUME \A k \in DOMAIN t : ~Mutates(s, t[k]) PROVE Follows(d, r)
    <2>1. \A k \in DOMAIN q : k = 1 \/ ~Mutates(s, q[k])
      BY <1>1, <1>3
    <2>2. CASE Mutates(s, q[1])
      <3>1. IsLast(s, q, 1) /\ 1 \in DOMAIN q
        BY <1>1, <2>1, <2>2 DEF IsLast
      <3>2. QED
        BY <1>1, <2>2, <3>1 DEF Joins, Follows, GoesOn
    <2>3. CASE ~Mutates(s, q[1])
      <3>1. Follows(d, p)
        BY <2>1, <2>3 DEF Joins
      <3>2. QED
        BY <1>1, <2>3, <3>1 DEF Follows, GoesOn
    <2>4. QED
      BY <2>2, <2>3
  <1>4. QED
    BY <1>2, <1>3 DEF Joins, t

\* The last batch of t grows.
LEMMA ChainExtend ==
    ASSUME NEW S, NEW q \in Seq(S), NEW i \in DOMAIN q, NEW r \in Seq(S), NEW t, NEW s, NEW p,
           IsLast(t, q, i), DOMAIN r = DOMAIN q,
           \A k \in DOMAIN q : k # i => r[k] = q[k],
           r[i].s = q[i].s, r[i].op = q[i].op, r[i].sizes = q[i].sizes, r[i].from = q[i].from,
           q[i].op = "write", Chain(s, q, p)
    PROVE  Chain(s, r, p)
  <1>1. \A k \in DOMAIN q : Mutates(s, r[k]) <=> Mutates(s, q[k])
    BY DEF Mutates
  <1>2. ASSUME NEW j \in DOMAIN r, IsFirst(s, r, j) PROVE Follows(r[j], p)
    <2>1. IsFirst(s, q, j)
      BY <1>1, <1>2 DEF IsFirst
    <2>2. Follows(q[j], p)
      BY <2>1 DEF Chain
    <2>3. QED
      BY <2>2 DEF Follows
  <1>3. ASSUME NEW k \in DOMAIN r, NEW j \in DOMAIN r, AreNext(s, r, k, j)
        PROVE  Follows(r[j], r[k])
    <2>1. AreNext(s, q, k, j)
      BY <1>1, <1>3 DEF AreNext
    <2>2. Follows(q[j], q[k])
      BY <2>1 DEF Chain
    <2>3. k # i
      <3>1. SUFFICES ASSUME k = i PROVE FALSE
        OBVIOUS
      <3>2. s = t
        BY <1>3, <3>1, <1>1 DEF IsLast, AreNext, Mutates
      <3>3. QED
        BY <2>1, <3>1, <3>2 DEF IsLast, AreNext
    <2>4. QED
      BY <2>2, <2>3 DEF Follows
  <1>4. QED
    BY <1>2, <1>3 DEF Chain

\* A batch that grows lets the next batch go on where it now ends.
LEMMA JoinsExtend ==
    ASSUME NEW S, NEW q \in Seq(S), NEW i \in DOMAIN q, NEW r \in Seq(S), NEW t, NEW s, NEW p,
           IsLast(t, q, i), DOMAIN r = DOMAIN q,
           \A k \in DOMAIN q : k # i => r[k] = q[k],
           r[i].s = q[i].s, r[i].op = q[i].op,
           NEW d, s = t => Follows(d, r[i]), s # t => Joins(s, q, p, d)
    PROVE  Joins(s, r, p, d)
  <1>1. \A k \in DOMAIN q : \A u : Mutates(u, r[k]) <=> Mutates(u, q[k])
    BY DEF Mutates
  <1>2. CASE s = t
    <2>1. ASSUME NEW k \in DOMAIN r, IsLast(s, r, k) PROVE k = i
      <3>1. i \in DOMAIN r /\ Mutates(s, r[i]) /\ Mutates(t, q[k])
        BY <1>1, <1>2, <2>1 DEF IsLast
      <3>2. ~(k < i) /\ ~(i < k)
        BY <1>2, <2>1, <3>1 DEF IsLast
      <3>3. k \in Nat /\ i \in Nat
        BY LenProperties
      <3>4. QED
        BY <3>2, <3>3
    <2>2. ~(\A k \in DOMAIN r : ~Mutates(s, r[k]))
      BY <1>1, <1>2 DEF IsLast
    <2>3. QED
      BY <1>2, <2>1, <2>2 DEF Joins
  <1>3. CASE s # t
    <2>1. ~Mutates(s, q[i])
      BY <1>3 DEF IsLast, Mutates
    <2>2. ASSUME NEW k \in DOMAIN r, IsLast(s, r, k) PROVE Follows(d, r[k])
      <3>1. IsLast(s, q, k) /\ k # i
        BY <1>1, <2>1, <2>2 DEF IsLast
      <3>2. QED
        BY <1>3, <3>1 DEF Joins
    <2>3. ASSUME \A k \in DOMAIN r : ~Mutates(s, r[k]) PROVE Follows(d, p)
      BY <1>1, <1>3, <2>3 DEF Joins
    <2>4. QED
      BY <2>2, <2>3 DEF Joins
  <1>4. QED
    BY <1>2, <1>3

\* Where a write of nothing is next, so is what follows that place.
LEMMA JoinsAtRest ==
    ASSUME NEW q, NEW s, NEW p, NEW e, NEW z, NEW c, Joins(s, q, p, e), e.op = "write",
           z.upto = e.from, z.sizes = e.sizes, Follows(c, z)
    PROVE  Joins(s, q, p, c)
  BY DEF Joins, Follows

LEMMA EmptyChain ==
    ASSUME NEW s, NEW p, NEW d, Follows(d, p)
    PROVE  Chain(s, <<>>, p) /\ Joins(s, <<>>, p, d)
  BY EmptySeq DEF Chain, Joins

LEMMA ChainEmpty ==
    ASSUME NEW s, NEW p
    PROVE  Chain(s, <<>>, p)
  BY EmptySeq DEF Chain

-----------------------------------------------------------------------------
(* What a step may do *)

ClientSame == printed' = printed /\ sizes' = sizes /\ writer' = writer
StateSame == status' = status /\ cache' = cache
SentSame == sentOffset' = sentOffset /\ sentSizes' = sentSizes
NodeSame == pipe' = pipe /\ replies' = replies /\ node' = node
ActorSame == actor' = actor /\ current' = current
LinkSame == SentSame /\ NodeSame /\ ActorSame

\* Sessions end, and snapshots go.
Falls ==
    \A s \in Sessions :
        /\ status'[s] = "none" => status[s] = "none"
        /\ status'[s] = "active" => status[s] = "active"
        /\ status'[s] \in {"active", "disposing"} => status[s] \in {"active", "disposing"}
Emptier == \A s \in Sessions : cache'[s] \in {cache[s], None}

\* Nothing that is printed, queued or sent is concerned.
Apart == ClientSame /\ queue' = queue /\ LinkSame /\ Falls /\ Emptier

\* The threads of s: the writer begins, gives up, clears the snapshot or queues.
Begins(s) ==
    /\ StateSame /\ queue' = queue /\ LinkSame
    /\ writer[s] = "idle"
    /\ \/ /\ status[s] # "none" /\ sizes' = sizes
          /\ printed' = [printed EXCEPT ![s] = @ + 1]
          /\ writer' = [writer EXCEPT ![s] = IF Active(s) THEN "write" ELSE "idle"]
       \/ /\ status[s] = "active" /\ printed' = printed
          /\ \E x \in Sizes : x.at = printed[s] /\ sizes' = [sizes EXCEPT ![s] = Append(@, x)]
          /\ writer' = [writer EXCEPT ![s] = "resize"]

GivesUp(s) ==
    /\ queue' = queue /\ LinkSame /\ Falls /\ cache' = cache
    /\ printed' = printed /\ sizes' = sizes /\ writer[s] \notin {"idle", "resize"}
    /\ \/ writer' = [writer EXCEPT ![s] = "failing"]
       \/ writer' = [writer EXCEPT ![s] = "idle"] /\ status'[s] # "active"

ClearsOld(s) ==
    /\ queue' = queue /\ LinkSame /\ status' = status
    /\ writer[s] = "resize" /\ ~Locked(s)
    /\ cache' = [cache EXCEPT ![s] = None]
    /\ printed' = printed /\ sizes' = sizes /\ writer' = [writer EXCEPT ![s] = "resized"]

Grows(s) ==
    /\ StateSame /\ LinkSame /\ printed' = printed /\ sizes' = sizes
    /\ writer[s] = "write" /\ writer' = [writer EXCEPT ![s] = "idle"]
    /\ \E i \in DOMAIN queue : Extends(s, i) /\ queue' = [queue EXCEPT ![i].upto = @ + 1]

\* A command of s: its create, the next mutation of its writer, or its disposal.
Commands(s, c) ==
    /\ cache' = cache /\ LinkSame /\ printed' = printed /\ sizes' = sizes
    /\ actor # "stopped" /\ queue' = Append(queue, c)
    /\ \/ /\ c = Command(s, "create") /\ status[s] = "none" /\ writer' = writer
          /\ status' = [status EXCEPT ![s] = "active"]
       \/ /\ c = Command(s, "dispose") /\ deleter[s] = "queue"
          /\ writer' = writer /\ status' = status
       \/ /\ c = Due(s) /\ writer[s] \in {"write", "resized"}
          /\ status' = status /\ writer' = [writer EXCEPT ![s] = "idle"]

\* The actor asks Node, skips a command, or sends a mutation.
Takes1 == queue # <<>> /\ queue' = Tail(queue)
Asks(f) ==
    /\ ClientSame /\ StateSame /\ SentSame /\ replies' = replies /\ node' = node
    /\ ~Waits /\ Waits' /\ actor # "stopped" /\ actor' \notin {"storing", "stopped"}
    /\ pipe' = Append(pipe, f) /\ f.op \in Requests /\ f.op = Asked' /\ f.s = current'
    /\ status[f.s] # "none"
    /\ queue' = queue \/ (Takes1 /\ Head(queue).op \notin Mutations)
    /\ actor' = "creating" => Takes1 /\ Head(queue).op = "create" /\ Head(queue).s = current'

Skips ==
    /\ ClientSame /\ StateSame /\ SentSame /\ NodeSame
    /\ actor = "idle" /\ actor' = "cleanup"
    /\ Takes1 /\ ~CanProcess(Head(queue).s)

Sends ==
    /\ ClientSame /\ StateSame /\ replies' = replies /\ node' = node
    /\ actor = "idle" /\ actor' = "cleanup"
    /\ Takes1 /\ Head(queue).op \in Mutations /\ CanProcess(Head(queue).s)
    /\ pipe' = Append(pipe, Head(queue))
    /\ sentOffset' = [sentOffset EXCEPT ![Head(queue).s] = Head(queue).upto]
    /\ sentSizes' = [sentSizes EXCEPT ![Head(queue).s] = Head(queue).sizes]

\* It reads an answer, goes on without one, or is about to store a snapshot.
Answers ==
    /\ ClientSame /\ queue' = queue /\ SentSame /\ pipe' = pipe /\ node' = node /\ Falls
    /\ replies # <<>> /\ Head(replies).op \notin Mutations /\ replies' = Tail(replies)
    /\ ~Waits' /\ actor # "stopped" /\ actor' # "stopped"
    /\ \/ cache' = cache
       \/ /\ actor = "storing"
          /\ cache' = [cache EXCEPT ![current] = [offset |-> Head(replies).offset,
                                                  sizes |-> Head(replies).sizes]]

Pauses ==
    /\ ClientSame /\ StateSame /\ queue' = queue /\ SentSame /\ NodeSame
    /\ ~Waits /\ ~Waits' /\ actor # "stopped" /\ actor' # "stopped"

Stores ==
    /\ ClientSame /\ StateSame /\ queue' = queue /\ SentSame /\ NodeSame /\ current' = current
    /\ actor = "snapshot" /\ actor' = "storing"
    /\ replies # <<>> /\ Head(replies).op \notin Mutations /\ Head(replies).ok
    /\ Head(replies).offset = sentOffset[current]
    /\ Active(current) /\ sizes[current] = sentSizes[current]

\* An error comes back, or the worker stops.
Errs ==
    /\ ClientSame /\ cache' = cache /\ queue' = queue /\ SentSame /\ ActorSame /\ Falls
    /\ pipe' = pipe /\ node' = node
    /\ replies # <<>> /\ Head(replies).op \in Mutations /\ replies' = Tail(replies)
    /\ status'[Head(replies).s] # "active"

Stops ==
    /\ ClientSame /\ cache' = cache /\ SentSame /\ Falls
    /\ actor # "storing" /\ actor' = "stopped"
    /\ queue' = <<>> /\ pipe' = <<>> /\ replies' = <<>> /\ node' = Each(None)

NodeRuns == ClientSame /\ StateSame /\ queue' = queue /\ SentSame /\ ActorSame /\ Node

StepKinds ==
    \/ Apart
    \/ \E s \in Sessions :
          \/ Begins(s) \/ GivesUp(s) \/ ClearsOld(s) \/ Grows(s)
          \/ \E c \in QFrames : Commands(s, c)
    \/ (\E f \in PFrames : Asks(f)) \/ Skips \/ Sends
    \/ Answers \/ Pauses \/ Stores \/ Errs \/ Stops \/ NodeRuns

\* Every step is of one of these kinds.
LEMMA NextKinds == IInv /\ [Next]_vars => StepKinds
  <1> SUFFICES ASSUME IInv, [Next]_vars PROVE StepKinds
    OBVIOUS
  <1>0. TypeOK /\ SizeInv /\ StoreInv /\ HandleInv /\ StoppedMeansRaw /\ EndedInv
    BY DEF IInv, TrackedInv
  <1>1. ASSUME NEW s \in Sessions, Create(s) PROVE StepKinds
    <2>9. Commands(s, Command(s, "create"))
      BY <1>0, <1>1
      DEF Create, stateVars, clientVars, sentVars, actorVars, nodeVars, SentSame, NodeSame,
          ActorSame, LinkSame, Commands, HasRoom
    <2>8. Command(s, "create") \in QFrames
      BY <1>0, <1>1, NewBatch
      DEF Create, Due, Resizing, Command, QFrames, Frames, Mutations, TypeOK, SessionType,
          ThreadType
    <2>10. QED
      BY <2>8, <2>9 DEF StepKinds
  <1>2. ASSUME NEW s \in Sessions, CreateFails(s) PROVE StepKinds
    <2>9. Apart
      BY <1>0, <1>2
      DEF CreateFails, stateVars, clientVars, sentVars, actorVars, nodeVars, ClientSame,
          SentSame, NodeSame, ActorSame, LinkSame, FailAll, Fail, Falls, Emptier, Apart,
          TypeOK, SessionType, ThreadType
    <2>10. QED
      BY <2>9 DEF StepKinds
  <1>3. ASSUME NEW s \in Sessions, WriteBegin(s) PROVE StepKinds
    <2>9. Begins(s)
      BY <1>0, <1>3
      DEF WriteBegin, stateVars, clientVars, sentVars, actorVars, nodeVars, StateSame,
          SentSame, NodeSame, ActorSame, LinkSame, Begins, Writer, Active
    <2>10. QED
      BY <2>9 DEF StepKinds
  <1>4. ASSUME NEW s \in Sessions, NEW g \in Geometries, ResizeBegin(s, g) PROVE StepKinds
    <2>9. Begins(s)
      BY <1>0, <1>4
      DEF ResizeBegin, stateVars, clientVars, sentVars, actorVars, nodeVars, StateSame,
          SentSame, NodeSame, ActorSame, LinkSame, Begins, Writer, Active, Sizes, TypeOK,
          SessionType, ThreadType
    <2>10. QED
      BY <2>9 DEF StepKinds
  <1>5. ASSUME NEW s \in Sessions, Dispose(s) PROVE StepKinds
    <2>9. Apart
      BY <1>0, <1>5
      DEF Dispose, stateVars, clientVars, sentVars, actorVars, nodeVars, ClientSame, SentSame,
          NodeSame, ActorSame, LinkSame, Active, FailAll, Fail, Falls, Emptier, Apart, TypeOK,
          SessionType, ThreadType
    <2>10. QED
      BY <2>9 DEF StepKinds
  <1>6. ASSUME NEW s \in Sessions, DisposeSkips(s) PROVE StepKinds
    <2>9. Apart
      BY <1>0, <1>6
      DEF DisposeSkips, stateVars, clientVars, sentVars, actorVars, nodeVars, ClientSame,
          SentSame, NodeSame, ActorSame, LinkSame, FailAll, Fail, Falls, Emptier, Apart,
          TypeOK, SessionType, ThreadType
    <2>10. QED
      BY <2>9 DEF StepKinds
  <1>7. ASSUME NEW s \in Sessions, Forget(s) PROVE StepKinds
    <2>9. Apart
      BY <1>0, <1>7
      DEF Forget, stateVars, clientVars, sentVars, actorVars, nodeVars, ClientSame, SentSame,
          NodeSame, ActorSame, LinkSame, FailAll, Fail, Falls, Emptier, Apart, TypeOK,
          SessionType, ThreadType
    <2>10. QED
      BY <2>9 DEF StepKinds
  <1>8. ASSUME NEW s \in Sessions, WriteSkips(s) PROVE StepKinds
    <2>9. GivesUp(s)
      BY <1>0, <1>8
      DEF WriteSkips, stateVars, clientVars, sentVars, actorVars, nodeVars, ClientSame,
          SentSame, NodeSame, ActorSame, LinkSame, GivesUp, Writer, Active, FailAll, Fail,
          Falls, Emptier, Apart, TypeOK, SessionType, ThreadType
    <2>10. QED
      BY <2>9 DEF StepKinds
  <1>9. ASSUME NEW s \in Sessions, NEW i \in DOMAIN queue, WriteAppends(s, i) PROVE StepKinds
    <2>9. Grows(s)
      BY <1>0, <1>9
      DEF WriteAppends, stateVars, clientVars, sentVars, actorVars, nodeVars, StateSame,
          SentSame, NodeSame, ActorSame, LinkSame, Grows, StoppedMeansRaw, Writer, Active,
          TypeOK, SessionType, ThreadType
    <2>10. QED
      BY <2>9 DEF StepKinds
  <1>10. ASSUME NEW s \in Sessions, WriteQueues(s) PROVE StepKinds
    <2>9. Commands(s, Due(s))
      BY <1>0, <1>10
      DEF WriteQueues, stateVars, clientVars, sentVars, actorVars, nodeVars, SentSame,
          NodeSame, ActorSame, LinkSame, Commands, Due, Resizing, Command, HasRoom, Writer,
          Active, TypeOK, SessionType, ThreadType
    <2>8. Due(s) \in QFrames
      BY <1>0, <1>10, NewBatch
      DEF WriteQueues, Due, Resizing, Command, QFrames, Frames, Mutations, TypeOK,
          SessionType, ThreadType
    <2>10. QED
      BY <2>8, <2>9 DEF StepKinds
  <1>11. ASSUME NEW s \in Sessions, WriteOverflows(s) PROVE StepKinds
    <2>9. GivesUp(s)
      BY <1>0, <1>11
      DEF WriteOverflows, stateVars, clientVars, sentVars, actorVars, nodeVars, ClientSame,
          SentSame, NodeSame, ActorSame, LinkSame, GivesUp, Writer, Active, FailAll, Fail,
          Falls, Emptier, Apart, TypeOK, SessionType, ThreadType
    <2>10. QED
      BY <2>9 DEF StepKinds
  <1>12. ASSUME NEW s \in Sessions, WriterFails(s) PROVE StepKinds
    <2>9. GivesUp(s)
      BY <1>0, <1>12
      DEF WriterFails, stateVars, clientVars, sentVars, actorVars, nodeVars, ClientSame,
          SentSame, NodeSame, ActorSame, LinkSame, GivesUp, Writer, Active, FailAll, Fail,
          Falls, Emptier, Apart, TypeOK, SessionType, ThreadType
    <2>10. QED
      BY <2>9 DEF StepKinds
  <1>13. ASSUME NEW s \in Sessions, ResizeClears(s) PROVE StepKinds
    <2>9. ClearsOld(s)
      BY <1>0, <1>13
      DEF ResizeClears, stateVars, clientVars, sentVars, actorVars, nodeVars, SentSame,
          NodeSame, ActorSame, LinkSame, ClearsOld, Writer
    <2>10. QED
      BY <2>9 DEF StepKinds
  <1>14. ASSUME NEW s \in Sessions, ResizeQueues(s) PROVE StepKinds
    <2>9. Commands(s, Due(s))
      BY <1>0, <1>14
      DEF ResizeQueues, stateVars, clientVars, sentVars, actorVars, nodeVars, SentSame,
          NodeSame, ActorSame, LinkSame, Commands, Due, Resizing, HasRoom, Writer
    <2>8. Due(s) \in QFrames
      BY <1>0, <1>14, NewBatch
      DEF ResizeQueues, Due, Resizing, Command, QFrames, Frames, Mutations, TypeOK,
          SessionType, ThreadType
    <2>10. QED
      BY <2>8, <2>9 DEF StepKinds
  <1>15. ASSUME NEW s \in Sessions, ResizeOverflows(s) PROVE StepKinds
    <2>9. GivesUp(s)
      BY <1>0, <1>15
      DEF ResizeOverflows, stateVars, clientVars, sentVars, actorVars, nodeVars, ClientSame,
          SentSame, NodeSame, ActorSame, LinkSame, GivesUp, Writer, Active, FailAll, Fail,
          Falls, Emptier, Apart, TypeOK, SessionType, ThreadType
    <2>10. QED
      BY <2>9 DEF StepKinds
  <1>16. ASSUME NEW s \in Sessions, DisposeQueues(s) PROVE StepKinds
    <2>9. Commands(s, Command(s, "dispose"))
      BY <1>0, <1>16
      DEF DisposeQueues, stateVars, clientVars, sentVars, actorVars, nodeVars, SentSame,
          NodeSame, ActorSame, LinkSame, Commands, HasRoom, Deleter
    <2>8. Command(s, "dispose") \in QFrames
      BY <1>0, <1>16, NewBatch
      DEF DisposeQueues, Due, Resizing, Command, QFrames, Frames, Mutations, TypeOK,
          SessionType, ThreadType
    <2>10. QED
      BY <2>8, <2>9 DEF StepKinds
  <1>17. ASSUME NEW s \in Sessions, DisposeOverflows(s) PROVE StepKinds
    <2>9. Apart
      BY <1>0, <1>17
      DEF DisposeOverflows, stateVars, clientVars, sentVars, actorVars, nodeVars, ClientSame,
          SentSame, NodeSame, ActorSame, LinkSame, FailAll, Fail, Falls, Emptier, Apart,
          TypeOK, SessionType, ThreadType
    <2>10. QED
      BY <2>9 DEF StepKinds
  <1>18. ASSUME NEW s \in Sessions, Clear(s) PROVE StepKinds
    <2>9. Apart
      BY <1>0, <1>18
      DEF Clear, stateVars, clientVars, sentVars, actorVars, nodeVars, ClientSame, SentSame,
          NodeSame, ActorSame, LinkSame, FailAll, Fail, Falls, Emptier, Apart, TypeOK,
          SessionType, ThreadType
    <2>10. QED
      BY <2>9 DEF StepKinds
  <1>19. ASSUME NEW s \in Sessions, Snapshot(s) PROVE StepKinds
    <2> DEFINE f == [op |-> "snapshot", s |-> s, sizes |-> sentSizes[s],
                       from |-> sentOffset[s], upto |-> sentOffset[s]]
    <2>1. f \in PFrames
      BY <1>0, <1>19, HeadOfQueue
      DEF Snapshot, Takes, PFrames, QFrames, Frames, Requests, TypeOK, ActorType
    <2>2. Asks(f)
      BY <1>0, <1>19, HeadOfQueue
      DEF Snapshot, Active, Eligible, Call, stateVars, clientVars, sentVars, actorVars,
          nodeVars, ClientSame, StateSame, SentSame, Asks, Takes1, Takes, Waits, Asked,
          Requests, Mutations
    <2>3. QED
      BY <2>1, <2>2 DEF StepKinds
  <1>20. ASSUME NEW s \in Sessions, CleanupNext(s) PROVE StepKinds
    <2> DEFINE f == [op |-> "dispose", s |-> s, sizes |-> sentSizes[s],
                       from |-> sentOffset[s], upto |-> sentOffset[s]]
    <2>1. f \in PFrames
      BY <1>0, <1>20, HeadOfQueue
      DEF CleanupNext, Takes, PFrames, QFrames, Frames, Requests, TypeOK, ActorType
    <2>2. Asks(f)
      BY <1>0, <1>20, HeadOfQueue
      DEF CleanupNext, EndedInv, Call, stateVars, clientVars, sentVars, actorVars, nodeVars,
          ClientSame, StateSame, SentSame, Asks, Takes1, Takes, Waits, Asked, Requests,
          Mutations
    <2>3. QED
      BY <2>1, <2>2 DEF StepKinds
  <1>21. ASSUME TakeCreate PROVE StepKinds
    <2> DEFINE f == [op |-> "create", s |-> Head(queue).s, sizes |-> sentSizes[Head(queue).s],
                       from |-> sentOffset[Head(queue).s], upto |-> sentOffset[Head(queue).s]]
    <2>1. f \in PFrames
      BY <1>0, <1>21, HeadOfQueue
      DEF TakeCreate, Takes, PFrames, QFrames, Frames, Requests, TypeOK, ActorType
    <2>2. Asks(f)
      BY <1>0, <1>21, HeadOfQueue
      DEF TakeCreate, CanProcess, Call, stateVars, clientVars, sentVars, actorVars, nodeVars,
          ClientSame, StateSame, SentSame, Asks, Takes1, Takes, Waits, Asked, Requests,
          Mutations
    <2>3. QED
      BY <2>1, <2>2 DEF StepKinds
  <1>22. ASSUME TakeDispose PROVE StepKinds
    <2> DEFINE f == [op |-> "dispose", s |-> Head(queue).s, sizes |-> sentSizes[Head(queue).s],
                       from |-> sentOffset[Head(queue).s], upto |-> sentOffset[Head(queue).s]]
    <2>1. f \in PFrames
      BY <1>0, <1>22, HeadOfQueue
      DEF TakeDispose, Takes, PFrames, QFrames, Frames, Requests, TypeOK, ActorType
    <2>2. Asks(f)
      BY <1>0, <1>22, HeadOfQueue
      DEF TakeDispose, CanProcess, Call, stateVars, clientVars, sentVars, actorVars, nodeVars,
          ClientSame, StateSame, SentSame, Asks, Takes1, Takes, Waits, Asked, Requests,
          Mutations
    <2>3. QED
      BY <2>1, <2>2 DEF StepKinds
  <1>23. ASSUME SkipCommand PROVE StepKinds
    <2>9. Skips
      BY <1>0, <1>23
      DEF SkipCommand, stateVars, clientVars, sentVars, actorVars, nodeVars, ClientSame,
          StateSame, SentSame, NodeSame, Skips, BeginCleanup, Takes1
    <2>10. QED
      BY <2>9 DEF StepKinds
  <1>24. ASSUME TakeMutation PROVE StepKinds
    <2>9. Sends
      BY <1>0, <1>24
      DEF TakeMutation, stateVars, clientVars, sentVars, actorVars, nodeVars, ClientSame,
          StateSame, Sends, BeginCleanup, Takes, Takes1, Mutations
    <2>10. QED
      BY <2>9 DEF StepKinds
  <1>25. ASSUME Created PROVE StepKinds
    <2>9. Answers
      BY <1>0, <1>25
      DEF Created, stateVars, clientVars, sentVars, actorVars, nodeVars, ClientSame, SentSame,
          NodeSame, ActorSame, LinkSame, Answers, Replied, BeginCleanup, Waits, Mutations,
          FailAll, Fail, Falls, Emptier, Apart, TypeOK, SessionType, ThreadType
    <2>10. QED
      BY <2>9 DEF StepKinds
  <1>26. ASSUME Disposed PROVE StepKinds
    <2>9. Answers
      BY <1>0, <1>26
      DEF Disposed, stateVars, clientVars, sentVars, actorVars, nodeVars, ClientSame,
          SentSame, NodeSame, ActorSame, LinkSame, Answers, Replied, BeginCleanup, Waits,
          Mutations, FailAll, Fail, Falls, Emptier, Apart, TypeOK, SessionType, ThreadType
    <2>10. QED
      BY <2>9 DEF StepKinds
  <1>27. ASSUME CommandRejected PROVE StepKinds
    <2>9. Answers
      BY <1>0, <1>27
      DEF CommandRejected, stateVars, clientVars, sentVars, actorVars, nodeVars, ClientSame,
          SentSame, NodeSame, ActorSame, LinkSame, Answers, Replied, BeginCleanup, Waits,
          Mutations, FailAll, Fail, Falls, Emptier, Apart, TypeOK, SessionType, ThreadType
    <2>10. QED
      BY <2>9 DEF StepKinds
  <1>28. ASSUME CleanedUp PROVE StepKinds
    <2>9. Answers
      BY <1>0, <1>28
      DEF CleanedUp, stateVars, clientVars, sentVars, actorVars, nodeVars, ClientSame,
          SentSame, NodeSame, ActorSame, LinkSame, Answers, Replied, BeginCleanup, Waits,
          Mutations, FailAll, Fail, Falls, Emptier, Apart, TypeOK, SessionType, ThreadType
    <2>10. QED
      BY <2>9 DEF StepKinds
  <1>29. ASSUME CleanupDone PROVE StepKinds
    <2>9. Pauses
      BY <1>0, <1>29
      DEF CleanupDone, stateVars, clientVars, sentVars, actorVars, nodeVars, ClientSame,
          StateSame, SentSame, NodeSame, Pauses, Waits
    <2>10. QED
      BY <2>9 DEF StepKinds
  <1>30. ASSUME SnapshotReplied PROVE StepKinds
    <2>1. CASE actor' = "storing"
      <3>1. Stores
        BY <1>0, <1>30, <2>1
        DEF SnapshotReplied, stateVars, clientVars, sentVars, actorVars, nodeVars, ClientSame,
            StateSame, SentSame, NodeSame, Stores, Replied, Confirmed, Storable, Mutations
      <3>2. QED
        BY <3>1 DEF StepKinds
    <2>2. CASE actor' # "storing"
      <3>1. Answers
        BY <1>0, <1>30, <2>2
        DEF SnapshotReplied, stateVars, clientVars, sentVars, actorVars, nodeVars, ClientSame,
            SentSame, NodeSame, ActorSame, LinkSame, Answers, Replied, BeginCleanup, Waits,
            Mutations, FailAll, Fail, Falls, Emptier, Apart, TypeOK, SessionType, ThreadType
      <3>2. QED
        BY <3>1 DEF StepKinds
    <2>3. QED
      BY <2>1, <2>2
  <1>31. ASSUME SnapshotStored PROVE StepKinds
    <2>1. replies # <<>> /\ Head(replies).op \notin Mutations
      BY <1>0, <1>31 DEF SnapshotStored, StoreInv
    <2>2. cache = [cache EXCEPT ![current] = cache[current]]
      BY <1>0 DEF TypeOK, SessionType
    <2>9. Answers
      BY <1>0, <1>31, <2>1, <2>2
      DEF SnapshotStored, stateVars, clientVars, sentVars, actorVars, nodeVars, ClientSame,
          SentSame, NodeSame, ActorSame, LinkSame, Answers, Replied, BeginCleanup, Waits,
          Mutations, FailAll, Fail, Falls, Emptier, Apart, TypeOK, SessionType, ThreadType
    <2>10. QED
      BY <2>9 DEF StepKinds
  <1>32. ASSUME SnapshotRejected PROVE StepKinds
    <2>9. Answers
      BY <1>0, <1>32
      DEF SnapshotRejected, stateVars, clientVars, sentVars, actorVars, nodeVars, ClientSame,
          SentSame, NodeSame, ActorSame, LinkSame, Answers, Replied, BeginCleanup, Waits,
          Mutations, FailAll, Fail, Falls, Emptier, Apart, TypeOK, SessionType, ThreadType
    <2>10. QED
      BY <2>9 DEF StepKinds
  <1>33. ASSUME SnapshotPassDone PROVE StepKinds
    <2>9. Pauses
      BY <1>0, <1>33
      DEF SnapshotPassDone, stateVars, clientVars, sentVars, actorVars, nodeVars, ClientSame,
          StateSame, SentSame, NodeSame, Pauses, BeginCleanup, Waits
    <2>10. QED
      BY <2>9 DEF StepKinds
  <1>34. ASSUME MutationError PROVE StepKinds
    <2>1. Head(replies).s \in Sessions
      BY <1>0, <1>34, HeadOfReplies DEF MutationError, Replies
    <2>2. status'[Head(replies).s] # "active"
      BY <1>0, <1>34, <2>1
      DEF MutationError, FailAll, Held, HandleInv, TypeOK, SessionType
    <2>3. Errs
      BY <1>0, <1>34, <2>2
      DEF MutationError, stateVars, clientVars, sentVars, actorVars, nodeVars, ClientSame,
          SentSame, NodeSame, ActorSame, LinkSame, Errs, Mutations, FailAll, Fail, Falls,
          Emptier, Apart, TypeOK, SessionType, ThreadType
    <2>4. QED
      BY <2>3 DEF StepKinds
  <1>35. ASSUME Stop PROVE StepKinds
    <2>9. Stops
      BY <1>0, <1>35
      DEF Stop, stateVars, clientVars, sentVars, actorVars, nodeVars, ClientSame, SentSame,
          NodeSame, ActorSame, LinkSame, Stops, FailAll, Fail, Falls, Emptier, Apart, TypeOK,
          SessionType, ThreadType
    <2>10. QED
      BY <2>9 DEF StepKinds
  <1>36. ASSUME NodeRefuses PROVE StepKinds
    <2>9. NodeRuns
      BY <1>0, <1>36
      DEF NodeRefuses, stateVars, clientVars, sentVars, actorVars, nodeVars, ClientSame,
          StateSame, SentSame, ActorSame, NodeRuns, Node
    <2>10. QED
      BY <2>9 DEF StepKinds
  <1>37. ASSUME NodeCreate PROVE StepKinds
    <2>9. NodeRuns
      BY <1>0, <1>37
      DEF NodeCreate, stateVars, clientVars, sentVars, actorVars, nodeVars, ClientSame,
          StateSame, SentSame, ActorSame, NodeRuns, Node
    <2>10. QED
      BY <2>9 DEF StepKinds
  <1>38. ASSUME NodeWrite PROVE StepKinds
    <2>9. NodeRuns
      BY <1>0, <1>38
      DEF NodeWrite, stateVars, clientVars, sentVars, actorVars, nodeVars, ClientSame,
          StateSame, SentSame, ActorSame, NodeRuns, Node
    <2>10. QED
      BY <2>9 DEF StepKinds
  <1>39. ASSUME NodeResize PROVE StepKinds
    <2>9. NodeRuns
      BY <1>0, <1>39
      DEF NodeResize, stateVars, clientVars, sentVars, actorVars, nodeVars, ClientSame,
          StateSame, SentSame, ActorSame, NodeRuns, Node
    <2>10. QED
      BY <2>9 DEF StepKinds
  <1>40. ASSUME NodeSnapshot PROVE StepKinds
    <2>9. NodeRuns
      BY <1>0, <1>40
      DEF NodeSnapshot, stateVars, clientVars, sentVars, actorVars, nodeVars, ClientSame,
          StateSame, SentSame, ActorSame, NodeRuns, Node
    <2>10. QED
      BY <2>9 DEF StepKinds
  <1>41. ASSUME NodeDispose PROVE StepKinds
    <2>9. NodeRuns
      BY <1>0, <1>41
      DEF NodeDispose, stateVars, clientVars, sentVars, actorVars, nodeVars, ClientSame,
          StateSame, SentSame, ActorSame, NodeRuns, Node
    <2>10. QED
      BY <2>9 DEF StepKinds
  <1>42. CASE UNCHANGED vars
    <2>1. Apart
      BY <1>0, <1>42
      DEF vars, stateVars, clientVars, sentVars, actorVars, nodeVars, ClientSame, SentSame,
          NodeSame, ActorSame, LinkSame, Apart, Falls, Emptier
    <2>2. QED
      BY <2>1 DEF StepKinds
  <1>43. QED
    BY <1>1, <1>2, <1>3, <1>4, <1>5, <1>6, <1>7, <1>8, <1>9, <1>10, <1>11, <1>12, <1>13,
       <1>14, <1>15, <1>16, <1>17, <1>18, <1>19, <1>20, <1>21, <1>22, <1>23, <1>24, <1>25,
       <1>26, <1>27, <1>28, <1>29, <1>30, <1>31, <1>32, <1>33, <1>34, <1>35, <1>36, <1>37,
       <1>38, <1>39, <1>40, <1>41, <1>42
    DEF Next, WriterRuns, DeleterRuns, ActorTakes, ActorGoesOn, Node

-----------------------------------------------------------------------------
(* What is queued, and within which bounds *)

LEMMA TypesHold ==
    ASSUME TypeOK
    PROVE  /\ queue \in Seq(QFrames) /\ DOMAIN queue = 1..Len(queue) /\ Len(queue) \in Nat
           /\ pipe \in Seq(PFrames) /\ DOMAIN pipe = 1..Len(pipe) /\ Len(pipe) \in Nat
           /\ replies \in Seq(Replies) /\ DOMAIN replies = 1..Len(replies) /\ Len(replies) \in Nat
           /\ \A i \in DOMAIN queue :
                /\ queue[i] \in QFrames /\ queue[i].s \in Sessions /\ queue[i].upto \in Nat
                /\ queue[i].from \in Nat /\ queue[i].sizes \in Seq(Sizes)
           /\ \A i \in DOMAIN pipe : pipe[i] \in PFrames /\ pipe[i].s \in Sessions
           /\ \A i \in DOMAIN replies : replies[i] \in Replies /\ replies[i].s \in Sessions
  <1>1. /\ queue \in Seq(QFrames) /\ pipe \in Seq(PFrames) /\ replies \in Seq(Replies)
    BY DEF TypeOK, ActorType, NodeType, QFrames, PFrames
  <1>2. /\ DOMAIN queue = 1..Len(queue) /\ Len(queue) \in Nat
        /\ DOMAIN pipe = 1..Len(pipe) /\ Len(pipe) \in Nat
        /\ DOMAIN replies = 1..Len(replies) /\ Len(replies) \in Nat
    BY <1>1, LenProperties
  <1>3. /\ \A i \in DOMAIN queue : queue[i] \in QFrames
        /\ \A i \in DOMAIN pipe : pipe[i] \in PFrames
        /\ \A i \in DOMAIN replies : replies[i] \in Replies
    BY <1>1
  <1>4. QED
    BY <1>1, <1>2, <1>3 DEF QFrames, PFrames, Frames, Replies

LEMMA TailMembers ==
    ASSUME NEW S, NEW q \in Seq(S), q # <<>>
    PROVE  \A j \in DOMAIN Tail(q) : \E i \in DOMAIN q : Tail(q)[j] = q[i]
  <1>1. \A j \in DOMAIN Tail(q) : j + 1 \in DOMAIN q /\ Tail(q)[j] = q[j + 1]
    BY TailFacts
  <1>2. QED
    BY <1>1

LEMMA SizesHold ==
    ASSUME TypeOK, NEW s \in Sessions
    PROVE  /\ printed[s] \in Nat /\ sizes[s] \in Seq(Sizes) /\ Len(sizes[s]) \in Nat
           /\ DOMAIN sizes[s] = 1..Len(sizes[s])
           /\ sentOffset[s] \in Nat /\ sentSizes[s] \in Seq(Sizes) /\ Len(sentSizes[s]) \in Nat
           /\ \A i \in DOMAIN sizes[s] : sizes[s][i] \in Sizes /\ sizes[s][i].at \in Nat
           /\ \A i \in DOMAIN sentSizes[s] : sentSizes[s][i].at \in Nat
  <1>1. /\ printed[s] \in Nat /\ sizes[s] \in Seq(Sizes)
        /\ sentOffset[s] \in Nat /\ sentSizes[s] \in Seq(Sizes)
    BY DEF TypeOK, ThreadType, ActorType
  <1>2. /\ \A i \in DOMAIN sizes[s] : sizes[s][i] \in Sizes
        /\ \A i \in DOMAIN sentSizes[s] : sentSizes[s][i] \in Sizes
    BY <1>1
  <1>3. QED
    BY <1>1, <1>2, LenProperties DEF Sizes

\* A command counts what was printed, in the size there is.
LEMMA DueIs ==
    ASSUME NEW s \in Sessions
    PROVE  /\ Due(s).s = s /\ Due(s).upto = printed[s] /\ Due(s).sizes = sizes[s]
           /\ Due(s).op \in Mutations
           /\ Due(s).op = IF Resizing(s) THEN "resize" ELSE "write"
           /\ Due(s).from = IF writer[s] = "write" THEN printed[s] - 1 ELSE printed[s]
  BY DEF Due, Resizing, Command, Mutations

LEMMA CommandIs ==
    ASSUME NEW s \in Sessions, NEW c \in QFrames, Commands(s, c)
    PROVE  /\ c.s = s /\ c.upto = printed[s] /\ c.sizes = sizes[s]
           /\ c.op \in Mutations => c = Due(s)
           /\ writer[s] \in {"write", "resized"} \/ c.op \notin Mutations
           /\ c.op = "create" => status[s] = "none"
  BY DueIs DEF Commands, Command, Mutations

LEMMA GrowsAt ==
    ASSUME TypeOK, NEW s \in Sessions, Grows(s)
    PROVE  \E i \in DOMAIN queue :
              /\ Extends(s, i) /\ DOMAIN queue' = DOMAIN queue
              /\ \A k \in DOMAIN queue : k # i => queue'[k] = queue[k]
              /\ queue'[i].s = queue[i].s /\ queue'[i].op = queue[i].op
              /\ queue'[i].sizes = queue[i].sizes /\ queue'[i].from = queue[i].from
              /\ queue'[i].upto = queue[i].upto + 1
  <1>1. PICK i \in DOMAIN queue : Extends(s, i) /\ queue' = [queue EXCEPT ![i].upto = @ + 1]
    BY DEF Grows
  <1>2. queue[i] \in Frames(Mutations \cup {"create", "dispose"})
    BY TypesHold DEF QFrames
  <1>3. queue'[i] = [queue[i] EXCEPT !.upto = queue[i].upto + 1]
    BY <1>1
  <1>4. /\ queue'[i].s = queue[i].s /\ queue'[i].op = queue[i].op
        /\ queue'[i].sizes = queue[i].sizes /\ queue'[i].from = queue[i].from
        /\ queue'[i].upto = queue[i].upto + 1
    BY <1>2, <1>3 DEF Frames
  <1>5. DOMAIN queue' = DOMAIN queue /\ \A k \in DOMAIN queue : k # i => queue'[k] = queue[k]
    BY <1>1
  <1>6. QED
    BY <1>1, <1>4, <1>5

\* Nothing is sent before it is queued, nor queued before it is printed.
LEMMA BoundStep ==
    ASSUME IInv, IInv', OrderInv, StepKinds
    PROVE  BoundInv'
  <1>0. /\ TypeOK /\ TypeOK' /\ BoundInv
        /\ queue \in Seq(QFrames) /\ DOMAIN queue = 1..Len(queue) /\ Len(queue) \in Nat
        /\ \A i \in DOMAIN queue : queue[i].s \in Sessions /\ queue[i].upto \in Nat
    BY TypesHold DEF IInv, OrderInv
  <1>1. CASE Apart
    BY <1>0, <1>1
    DEF Apart, ClientSame, SentSame, LinkSame, BoundInv
  <1>2. ASSUME NEW s \in Sessions, Begins(s) PROVE BoundInv'
    <2>1. /\ queue' = queue /\ sentOffset' = sentOffset /\ sentSizes' = sentSizes
          /\ \A t \in Sessions : printed[t] <= printed'[t] /\ printed'[t] \in Nat
          /\ \A t \in Sessions : sizes'[t] = sizes[t]
               \/ \E x \in Sizes : x.at = printed[t] /\ sizes'[t] = Append(sizes[t], x)
      <3>1. CASE printed' = [printed EXCEPT ![s] = @ + 1] /\ sizes' = sizes
        BY <1>0, <1>2, <3>1 DEF Begins, SentSame, LinkSame, TypeOK, ThreadType
      <3>2. ASSUME NEW x \in Sizes, x.at = printed[s], printed' = printed,
                   sizes' = [sizes EXCEPT ![s] = Append(@, x)]
            PROVE  /\ \A t \in Sessions : printed[t] <= printed'[t] /\ printed'[t] \in Nat
                   /\ \A t \in Sessions : sizes'[t] = sizes[t]
                        \/ \E y \in Sizes : y.at = printed[t] /\ sizes'[t] = Append(sizes[t], y)
        BY <1>0, <3>2 DEF TypeOK, ThreadType
      <3>3. queue' = queue /\ sentOffset' = sentOffset /\ sentSizes' = sentSizes
        BY <1>2 DEF Begins, LinkSame, SentSame
      <3>4. QED
        BY <1>2, <3>1, <3>2, <3>3 DEF Begins
    <2>2. ASSUME NEW t \in Sessions PROVE Within(sizes'[t], printed'[t])
      <3>1. CASE sizes'[t] = sizes[t]
        BY <1>0, <2>1, <3>1, SizesHold DEF BoundInv, Within
      <3>2. ASSUME NEW x \in Sizes, x.at = printed[t], sizes'[t] = Append(sizes[t], x)
            PROVE  Within(sizes'[t], printed'[t])
        <4>1. /\ DOMAIN sizes'[t] = 1..(Len(sizes[t]) + 1) /\ sizes'[t][Len(sizes[t]) + 1] = x
              /\ \A i \in 1..Len(sizes[t]) : sizes'[t][i] = sizes[t][i]
          BY <1>0, <3>2, SizesHold, SameQueueFacts
        <4>2. ASSUME NEW i \in DOMAIN sizes'[t] PROVE sizes'[t][i].at <= printed'[t]
          BY <1>0, <2>1, <3>2, <4>1, <4>2, SizesHold DEF BoundInv, Within
        <4>3. QED
          BY <4>2 DEF Within
      <3>3. QED
        BY <2>1, <3>1, <3>2
    <2>3. \A t \in Sessions : sentOffset'[t] <= printed'[t] /\ Within(sentSizes'[t], sentOffset'[t])
      BY <1>0, <2>1, SizesHold DEF BoundInv
    <2>4. \A i \in DOMAIN queue' :
             /\ queue'[i].upto <= printed'[queue'[i].s] /\ Within(queue'[i].sizes, queue'[i].upto)
      BY <1>0, <2>1, SizesHold DEF BoundInv
    <2>5. QED
      BY <2>2, <2>3, <2>4 DEF BoundInv
  <1>3. ASSUME NEW s \in Sessions, GivesUp(s) PROVE BoundInv'
    BY <1>0, <1>3
    DEF GivesUp, SentSame, LinkSame, BoundInv
  <1>4. ASSUME NEW s \in Sessions, ClearsOld(s) PROVE BoundInv'
    BY <1>0, <1>4
    DEF ClearsOld, SentSame, LinkSame, BoundInv
  <1>5. ASSUME NEW s \in Sessions, Grows(s) PROVE BoundInv'
    <2>1. PICK i \in DOMAIN queue :
              /\ Extends(s, i) /\ DOMAIN queue' = DOMAIN queue
              /\ \A k \in DOMAIN queue : k # i => queue'[k] = queue[k]
              /\ queue'[i].s = queue[i].s /\ queue'[i].sizes = queue[i].sizes
              /\ queue'[i].upto = queue[i].upto + 1
      BY <1>0, <1>5, GrowsAt
    <2>2. queue[i].s = s /\ queue[i].upto + 1 = printed[s]
      BY <2>1 DEF Extends, IsLastWrite
    <2>3. \A k \in DOMAIN queue[i].sizes : queue[i].sizes[k].at \in Nat
      <3>1. queue[i].sizes \in Seq(Sizes)
        BY <1>0, TypesHold
      <3>2. \A k \in DOMAIN queue[i].sizes : queue[i].sizes[k] \in Sizes
        BY <3>1
      <3>3. QED
        BY <3>2 DEF Sizes
    <2>4. Within(queue'[i].sizes, queue'[i].upto)
      BY <1>0, <2>1, <2>3 DEF BoundInv, Within
    <2>5. \A k \in DOMAIN queue' :
             /\ queue'[k].upto <= printed[queue'[k].s] /\ Within(queue'[k].sizes, queue'[k].upto)
      BY <1>0, <2>1, <2>2, <2>4, SizesHold DEF BoundInv
    <2>6. QED
      BY <1>0, <1>5, <2>5 DEF Grows, SentSame, LinkSame, BoundInv
  <1>6. ASSUME NEW s \in Sessions, NEW c \in QFrames, Commands(s, c) PROVE BoundInv'
    <2>1. /\ DOMAIN queue' = 1..(Len(queue) + 1) /\ queue'[Len(queue) + 1] = c
          /\ \A i \in 1..Len(queue) : queue'[i] = queue[i]
      BY <1>0, <1>6, SameQueueFacts DEF Commands
    <2>2. c.s = s /\ c.upto = printed[s] /\ c.sizes = sizes[s]
      BY <1>6, CommandIs
    <2>3. \A k \in DOMAIN queue' :
             /\ queue'[k].upto <= printed[queue'[k].s] /\ Within(queue'[k].sizes, queue'[k].upto)
      BY <1>0, <2>1, <2>2, SizesHold DEF BoundInv
    <2>4. QED
      BY <1>0, <1>6, <2>3 DEF Commands, SentSame, LinkSame, BoundInv
  <1>7. ASSUME NEW f \in PFrames, Asks(f) PROVE BoundInv'
    <2>1. \A j \in DOMAIN queue' : \E i \in DOMAIN queue : queue'[j] = queue[i]
      <3>1. queue' = queue \/ (queue # <<>> /\ queue' = Tail(queue))
        BY <1>7 DEF Asks, Takes1
      <3>2. CASE queue' = queue
        BY <3>2
      <3>3. CASE queue # <<>> /\ queue' = Tail(queue)
        BY <1>0, <3>3, TailMembers
      <3>4. QED
        BY <3>1, <3>2, <3>3
    <2>2. QED
      BY <1>0, <1>7, <2>1 DEF Asks, ClientSame, SentSame, BoundInv
  <1>8. CASE Skips
    <2>1. \A j \in DOMAIN queue' : \E i \in DOMAIN queue : queue'[j] = queue[i]
      <3>1. queue' = queue \/ (queue # <<>> /\ queue' = Tail(queue))
        BY <1>8 DEF Skips, Takes1
      <3>2. CASE queue' = queue
        BY <3>2
      <3>3. CASE queue # <<>> /\ queue' = Tail(queue)
        BY <1>0, <3>3, TailMembers
      <3>4. QED
        BY <3>1, <3>2, <3>3
    <2>2. QED
      BY <1>0, <1>8, <2>1 DEF Skips, ClientSame, SentSame, BoundInv
  <1>9. CASE Sends
    <2>1. /\ \A j \in DOMAIN queue' : \E i \in DOMAIN queue : queue'[j] = queue[i]
          /\ Head(queue) = queue[1] /\ 1 \in DOMAIN queue
      <3>1. queue # <<>> /\ queue' = Tail(queue)
        BY <1>9 DEF Sends, Takes1
      <3>2. QED
        BY <1>0, <3>1, TailMembers, TailFacts
    <2>2. \A t \in Sessions : sentOffset'[t] <= printed[t] /\ Within(sentSizes'[t], sentOffset'[t])
      BY <1>0, <1>9, <2>1 DEF Sends, BoundInv, TypeOK, ActorType
    <2>3. QED
      BY <1>0, <1>9, <2>1, <2>2 DEF Sends, ClientSame, BoundInv
  <1>10. CASE Answers
    BY <1>0, <1>10
    DEF Answers, ClientSame, SentSame, BoundInv
  <1>11. CASE Pauses
    BY <1>0, <1>11
    DEF Pauses, ClientSame, SentSame, BoundInv
  <1>12. CASE Stores
    BY <1>0, <1>12
    DEF Stores, ClientSame, SentSame, BoundInv
  <1>13. CASE Errs
    BY <1>0, <1>13
    DEF Errs, ClientSame, SentSame, BoundInv
  <1>14. CASE Stops
    BY <1>0, <1>14, EmptySeq DEF Stops, ClientSame, SentSame, BoundInv
  <1>15. CASE NodeRuns
    BY <1>0, <1>15
    DEF NodeRuns, ClientSame, SentSame, BoundInv
  <1>16. QED
    BY <1>1, <1>2, <1>3, <1>4, <1>5, <1>6, <1>7, <1>8, <1>9, <1>10, <1>11, <1>12, <1>13,
       <1>14, <1>15
    DEF StepKinds


LEMMA TailGrowth ==
    ASSUME GrowthInv, queue \in Seq(QFrames), queue # <<>>, queue' = Tail(queue),
           sizes' = sizes, writer' = writer
    PROVE  GrowthInv'
  <1>1. /\ \A i \in DOMAIN queue' : i + 1 \in DOMAIN queue /\ queue'[i] = queue[i + 1]
        /\ DOMAIN queue = 1..Len(queue) /\ DOMAIN queue' = 1..(Len(queue) - 1) /\ Len(queue) \in Nat
    BY TailFacts
  <1>2. ASSUME NEW i \in DOMAIN queue', queue'[i].op \in Mutations
        PROVE  /\ Len(queue'[i].sizes) <= Len(sizes'[queue'[i].s])
               /\ Resizing(queue[i].s)' => Len(queue'[i].sizes) < Len(sizes'[queue'[i].s])
    BY <1>1, <1>2 DEF GrowthInv, Resizing
  <1>3. ASSUME NEW i \in DOMAIN queue', NEW j \in DOMAIN queue', queue'[i].s = queue'[j].s, i < j,
               queue'[i].op \in Mutations, queue'[j].op = "resize"
        PROVE  Len(queue'[i].sizes) < Len(queue'[j].sizes)
    <2>1. i + 1 \in DOMAIN queue /\ j + 1 \in DOMAIN queue /\ i + 1 < j + 1
      BY <1>1, <1>3
    <2>2. QED
      BY <1>1, <1>3, <2>1 DEF GrowthInv
  <1>4. QED
    BY <1>2, <1>3 DEF GrowthInv

\* A resize is larger than what was queued before it, and nothing queued is ahead of the
\* sizes there are.
LEMMA GrowthStep ==
    ASSUME IInv, IInv', OrderInv, StepKinds
    PROVE  GrowthInv'
  <1>0. /\ TypeOK /\ TypeOK' /\ GrowthInv
        /\ queue \in Seq(QFrames) /\ DOMAIN queue = 1..Len(queue) /\ Len(queue) \in Nat
        /\ \A i \in DOMAIN queue : queue[i].s \in Sessions /\ Len(queue[i].sizes) \in Nat
        /\ \A t \in Sessions : Len(sizes[t]) \in Nat
    BY TypesHold, SizesHold, LenProperties DEF IInv, OrderInv
  <1>1. CASE Apart
    BY <1>0, <1>1
    DEF Apart, ClientSame, GrowthInv, Resizing
  <1>2. ASSUME NEW s \in Sessions, Begins(s) PROVE GrowthInv'
    <2>1. queue' = queue
      BY <1>2 DEF Begins
    <2>2. CASE sizes' = sizes
      <3>1. \A t \in Sessions : Resizing(t)' => Resizing(t)
        BY <1>0, <1>2, <2>2 DEF Begins, TypeOK, ThreadType, Resizing
      <3>2. QED
        BY <1>0, <2>1, <2>2, <3>1 DEF GrowthInv
    <2>3. ASSUME NEW x \in Sizes, sizes' = [sizes EXCEPT ![s] = Append(@, x)],
                 writer' = [writer EXCEPT ![s] = "resize"]
          PROVE  GrowthInv'
      <3>1. DOMAIN sizes = Sessions /\ sizes[s] \in Seq(Sizes) /\ DOMAIN writer = Sessions
        BY <1>0 DEF TypeOK, ThreadType
      <3>2. Len(sizes'[s]) = Len(sizes[s]) + 1
        BY <2>3, <3>1, AppendKeeps
      <3>3. \A t \in Sessions : t # s => sizes'[t] = sizes[t] /\ (Resizing(t)' <=> Resizing(t))
        BY <2>3, <3>1 DEF Resizing
      <3>4. QED
        BY <1>0, <2>1, <3>2, <3>3 DEF GrowthInv
    <2>4. QED
      BY <1>2, <2>2, <2>3 DEF Begins
  <1>3. ASSUME NEW s \in Sessions, GivesUp(s) PROVE GrowthInv'
    <2>1. \A t \in Sessions : Resizing(t)' => Resizing(t)
      BY <1>0, <1>3 DEF GivesUp, TypeOK, ThreadType, Resizing
    <2>2. QED
      BY <1>0, <1>3, <2>1 DEF GivesUp, GrowthInv
  <1>4. ASSUME NEW s \in Sessions, ClearsOld(s) PROVE GrowthInv'
    <2>1. \A t \in Sessions : Resizing(t)' => Resizing(t)
      BY <1>0, <1>4 DEF ClearsOld, TypeOK, ThreadType, Resizing
    <2>2. QED
      BY <1>0, <1>4, <2>1 DEF ClearsOld, GrowthInv
  <1>5. ASSUME NEW s \in Sessions, Grows(s) PROVE GrowthInv'
    <2>1. PICK i \in DOMAIN queue :
              /\ DOMAIN queue' = DOMAIN queue
              /\ \A k \in DOMAIN queue : k # i => queue'[k] = queue[k]
              /\ queue'[i].s = queue[i].s /\ queue'[i].op = queue[i].op
              /\ queue'[i].sizes = queue[i].sizes
      BY <1>0, <1>5, GrowsAt
    <2>2. \A t \in Sessions : Resizing(t)' => Resizing(t)
      BY <1>0, <1>5 DEF Grows, TypeOK, ThreadType, Resizing
    <2>3. sizes' = sizes
      BY <1>5 DEF Grows
    <2>4. \A k \in DOMAIN queue' : queue'[k].s = queue[k].s /\ queue'[k].op = queue[k].op
                                  /\ queue'[k].sizes = queue[k].sizes
      BY <2>1
    <2>5. QED
      BY <1>0, <2>1, <2>2, <2>3, <2>4 DEF GrowthInv
  <1>6. ASSUME NEW s \in Sessions, NEW c \in QFrames, Commands(s, c) PROVE GrowthInv'
    <2>1. /\ DOMAIN queue' = 1..(Len(queue) + 1) /\ queue'[Len(queue) + 1] = c
          /\ \A i \in 1..Len(queue) : queue'[i] = queue[i]
      BY <1>0, <1>6, SameQueueFacts DEF Commands
    <2>2. c.s = s /\ c.sizes = sizes[s] /\ sizes' = sizes
      BY <1>6, CommandIs DEF Commands
    <2>3. \A t \in Sessions : Resizing(t)' => Resizing(t)
      BY <1>0, <1>6 DEF Commands, TypeOK, ThreadType, Resizing
    <2>4. CASE c.op \notin Mutations
      <3>1. ASSUME NEW i \in DOMAIN queue', queue'[i].op \in Mutations
            PROVE  i \in DOMAIN queue /\ queue'[i] = queue[i]
        BY <1>0, <2>1, <2>4, <3>1
      <3>2. ASSUME NEW i \in DOMAIN queue', queue'[i].op = "resize"
            PROVE  i \in DOMAIN queue /\ queue'[i] = queue[i]
        BY <3>1, <3>2 DEF Mutations
      <3>3. QED
        BY <1>0, <2>2, <2>3, <3>1, <3>2 DEF GrowthInv
    <2>5. CASE c.op \in Mutations
      <3>1. ~Resizing(s)' /\ (c.op = "resize" => Resizing(s))
        <4>1. c = Due(s) /\ writer[s] \in {"write", "resized"}
          BY <1>6, <2>5, CommandIs
        <4>2. writer' = [writer EXCEPT ![s] = "idle"]
          BY <1>6, <2>5 DEF Commands, Command, Mutations
        <4>3. QED
          BY <1>0, <4>1, <4>2, DueIs DEF TypeOK, ThreadType, Resizing
      <3>2. ASSUME NEW i \in DOMAIN queue', queue'[i].op \in Mutations
            PROVE  /\ Len(queue'[i].sizes) <= Len(sizes'[queue'[i].s])
                   /\ Resizing(queue[i].s)' => Len(queue'[i].sizes) < Len(sizes'[queue'[i].s])
        BY <1>0, <2>1, <2>2, <2>3, <3>1, <3>2 DEF GrowthInv
      <3>3. ASSUME NEW i \in DOMAIN queue', NEW j \in DOMAIN queue', queue'[i].s = queue'[j].s,
                   i < j, queue'[i].op \in Mutations, queue'[j].op = "resize"
            PROVE  Len(queue'[i].sizes) < Len(queue'[j].sizes)
        BY <1>0, <2>1, <2>2, <3>1, <3>3 DEF GrowthInv
      <3>4. QED
        BY <3>2, <3>3 DEF GrowthInv
    <2>6. QED
      BY <2>4, <2>5
  <1>7. ASSUME NEW f \in PFrames, Asks(f) PROVE GrowthInv'
    <2>1. sizes' = sizes /\ writer' = writer
      BY <1>7 DEF Asks, ClientSame
    <2>2. CASE queue' = queue
      BY <2>1, <2>2, <1>0 DEF GrowthInv, Resizing
    <2>3. CASE queue # <<>> /\ queue' = Tail(queue)
      BY <1>0, <2>1, <2>3, TailGrowth
    <2>4. QED
      BY <1>7, <2>2, <2>3 DEF Asks, Takes1
  <1>8. CASE Skips
    <2>1. queue # <<>> /\ queue' = Tail(queue)
      BY <1>8 DEF Skips, Takes1
    <2>2. /\ sizes' = sizes /\ writer' = writer
      BY <1>8 DEF Skips, ClientSame
    <2>3. GrowthInv'
      BY <1>0, <2>1, <2>2, TailGrowth
    <2>4. QED
      BY <2>3
  <1>9. CASE Sends
    <2>1. queue # <<>> /\ queue' = Tail(queue)
      BY <1>9 DEF Sends, Takes1
    <2>2. /\ sizes' = sizes /\ writer' = writer
      BY <1>9 DEF Sends, ClientSame
    <2>3. GrowthInv'
      BY <1>0, <2>1, <2>2, TailGrowth
    <2>4. QED
      BY <2>3
  <1>10. CASE Answers
    BY <1>0, <1>10
    DEF Answers, ClientSame, GrowthInv, Resizing
  <1>11. CASE Pauses
    BY <1>0, <1>11
    DEF Pauses, ClientSame, GrowthInv, Resizing
  <1>12. CASE Stores
    BY <1>0, <1>12
    DEF Stores, ClientSame, GrowthInv, Resizing
  <1>13. CASE Errs
    BY <1>0, <1>13
    DEF Errs, ClientSame, GrowthInv, Resizing
  <1>14. CASE Stops
    BY <1>0, <1>14, EmptySeq DEF Stops, GrowthInv
  <1>15. CASE NodeRuns
    BY <1>0, <1>15
    DEF NodeRuns, ClientSame, GrowthInv, Resizing
  <1>16. QED
    BY <1>1, <1>2, <1>3, <1>4, <1>5, <1>6, <1>7, <1>8, <1>9, <1>10, <1>11, <1>12, <1>13,
       <1>14, <1>15
    DEF StepKinds


LEMMA TailFresh ==
    ASSUME FreshInv, queue \in Seq(QFrames), queue # <<>>, queue' = Tail(queue),
           NEW i \in DOMAIN queue', queue'[i].op = "create"
    PROVE  /\ Unsent(queue'[i].s) /\ queue'[i].s # Head(queue).s
           /\ \A j \in DOMAIN queue' : queue'[j].s = queue'[i].s => i <= j
  <1>1. /\ \A j \in DOMAIN queue' : j + 1 \in DOMAIN queue /\ queue'[j] = queue[j + 1]
        /\ DOMAIN queue = 1..Len(queue) /\ DOMAIN queue' = 1..(Len(queue) - 1) /\ Len(queue) \in Nat
        /\ Head(queue) = queue[1] /\ 1 \in DOMAIN queue
    BY TailFacts
  <1>2. \A j \in DOMAIN queue : queue[j].s = queue[i + 1].s => i + 1 <= j
    BY <1>1 DEF FreshInv
  <1>3. QED
    BY <1>1, <1>2 DEF FreshInv

\* Nothing of a session is queued or sent before its create.
LEMMA FreshStep ==
    ASSUME IInv, IInv', OrderInv, StepKinds
    PROVE  FreshInv'
  <1>0. /\ TypeOK /\ TypeOK' /\ FreshInv /\ HandleInv
        /\ queue \in Seq(QFrames) /\ DOMAIN queue = 1..Len(queue) /\ Len(queue) \in Nat
        /\ \A i \in DOMAIN queue : queue[i].s \in Sessions
        /\ actor = "creating" => current \in Sessions
    BY TypesHold DEF IInv, OrderInv, CurrentInv
  <1>1. CASE Apart
    BY <1>0, <1>1
    DEF Apart, ClientSame, SentSame, ActorSame, LinkSame, FreshInv, Unsent, Queued, Falls
  <1>2. ASSUME NEW s \in Sessions, Begins(s) PROVE FreshInv'
    <2>1. queue' = queue /\ SentSame /\ ActorSame
      BY <1>2 DEF Begins, LinkSame
    <2>2. \A t \in Sessions : status'[t] = "none" =>
             status[t] = "none" /\ printed'[t] = printed[t] /\ sizes'[t] = sizes[t] /\ writer'[t] = "idle"
      BY <1>0, <1>2 DEF Begins, StateSame, FreshInv, Falls, TypeOK, SessionType, ThreadType
    <2>3. QED
      BY <1>0, <2>1, <2>2 DEF FreshInv, Unsent, Queued, SentSame, ActorSame
  <1>3. ASSUME NEW s \in Sessions, GivesUp(s) PROVE FreshInv'
    <2>1. queue' = queue /\ SentSame /\ ActorSame
      BY <1>3 DEF GivesUp, LinkSame
    <2>2. \A t \in Sessions : status'[t] = "none" =>
             status[t] = "none" /\ printed'[t] = printed[t] /\ sizes'[t] = sizes[t] /\ writer'[t] = "idle"
      BY <1>0, <1>3 DEF GivesUp, StateSame, FreshInv, Falls, TypeOK, SessionType, ThreadType
    <2>3. QED
      BY <1>0, <2>1, <2>2 DEF FreshInv, Unsent, Queued, SentSame, ActorSame
  <1>4. ASSUME NEW s \in Sessions, ClearsOld(s) PROVE FreshInv'
    <2>1. queue' = queue /\ SentSame /\ ActorSame
      BY <1>4 DEF ClearsOld, LinkSame
    <2>2. \A t \in Sessions : status'[t] = "none" =>
             status[t] = "none" /\ printed'[t] = printed[t] /\ sizes'[t] = sizes[t] /\ writer'[t] = "idle"
      BY <1>0, <1>4 DEF ClearsOld, StateSame, FreshInv, Falls, TypeOK, SessionType, ThreadType
    <2>3. QED
      BY <1>0, <2>1, <2>2 DEF FreshInv, Unsent, Queued, SentSame, ActorSame
  <1>5. ASSUME NEW s \in Sessions, Grows(s) PROVE FreshInv'
    <2>1. PICK i \in DOMAIN queue :
              /\ DOMAIN queue' = DOMAIN queue
              /\ \A k \in DOMAIN queue : k # i => queue'[k] = queue[k]
              /\ queue'[i].s = queue[i].s /\ queue'[i].op = queue[i].op
      BY <1>0, <1>5, GrowsAt
    <2>2. \A k \in DOMAIN queue' : queue'[k].s = queue[k].s /\ queue'[k].op = queue[k].op
      BY <2>1
    <2>3. /\ status' = status /\ printed' = printed /\ sizes' = sizes /\ SentSame /\ ActorSame
          /\ \A t \in Sessions : status[t] = "none" => writer'[t] = writer[t]
      BY <1>0, <1>5 DEF Grows, StateSame, LinkSame, FreshInv, TypeOK, SessionType, ThreadType
    <2>4. QED
      BY <1>0, <2>1, <2>2, <2>3 DEF FreshInv, Unsent, Queued, SentSame, ActorSame
  <1>6. ASSUME NEW s \in Sessions, NEW c \in QFrames, Commands(s, c) PROVE FreshInv'
    <2>1. /\ DOMAIN queue' = 1..(Len(queue) + 1) /\ queue'[Len(queue) + 1] = c
          /\ \A i \in 1..Len(queue) : queue'[i] = queue[i]
      BY <1>0, <1>6, SameQueueFacts DEF Commands
    <2>2. c.s = s /\ (c.op = "create" => status[s] = "none")
      BY <1>6, CommandIs
    <2>3. printed' = printed /\ sizes' = sizes /\ SentSame /\ ActorSame
      BY <1>6 DEF Commands, LinkSame
    <2>4. status'[s] # "none" /\ \A t \in Sessions : t # s =>
             status'[t] = status[t] /\ writer'[t] = writer[t]
      BY <1>0, <1>6 DEF Commands, FreshInv, HandleInv, TypeOK, SessionType, ThreadType
    <2>5. \A t \in Sessions : t # s => (Queued(t)' => Queued(t))
      BY <1>0, <2>1, <2>2 DEF Queued
    <2>6. \A t \in Sessions : status'[t] = "none" =>
            /\ printed'[t] = 0 /\ sizes'[t] = <<>> /\ writer'[t] = "idle" /\ Unsent(t)' /\ ~Queued(t)'
      BY <1>0, <2>3, <2>4, <2>5 DEF FreshInv, Unsent, SentSame
    <2>7. ASSUME NEW i \in DOMAIN queue', queue'[i].op = "create"
          PROVE  /\ Unsent(queue[i].s)'
                 /\ \A j \in DOMAIN queue' : queue'[j].s = queue'[i].s => i <= j
      <3>1. CASE i \in DOMAIN queue
        BY <1>0, <2>1, <2>3, <2>7, <3>1 DEF FreshInv, Unsent, SentSame
      <3>2. CASE i = Len(queue) + 1
        <4>1. status[s] = "none" /\ queue'[i].s = s
          BY <2>1, <2>2, <2>7, <3>2
        <4>2. \A j \in DOMAIN queue : queue[j].s # s
          BY <1>0, <4>1 DEF FreshInv, Queued
        <4>3. QED
          BY <1>0, <2>1, <2>3, <3>2, <4>1, <4>2 DEF FreshInv, Unsent, SentSame
      <3>3. QED
        BY <1>0, <2>1, <3>1, <3>2
    <2>8. QED
      BY <1>0, <2>3, <2>6, <2>7 DEF FreshInv, Unsent, SentSame, ActorSame
  <1>7. ASSUME NEW f \in PFrames, Asks(f) PROVE FreshInv'
    <2>1. ClientSame /\ StateSame /\ SentSame
      BY <1>7 DEF Asks
    <2>2. CASE queue' = queue
      <3>1. actor' = "creating" => Unsent(current)'
        <4>1. SUFFICES ASSUME actor' = "creating" PROVE Unsent(current)'
          OBVIOUS
        <4>2. queue # <<>> /\ Head(queue).op = "create" /\ Head(queue).s = current'
          BY <1>7, <4>1 DEF Asks, Takes1
        <4>3. Head(queue) = queue[1] /\ 1 \in DOMAIN queue
          BY <1>0, <4>2, TailFacts
        <4>4. QED
          BY <1>0, <2>1, <4>2, <4>3 DEF FreshInv, Unsent, SentSame
      <3>2. QED
        BY <1>0, <2>1, <2>2, <3>1
        DEF FreshInv, Unsent, Queued, Falls, ClientSame, StateSame, SentSame, ActorSame
    <2>3. CASE queue # <<>> /\ queue' = Tail(queue)
      <3>1. \A j \in DOMAIN queue' : \E i \in DOMAIN queue : queue'[j] = queue[i]
        BY <1>0, <2>3, TailMembers
      <3>2. \A t \in Sessions : status'[t] = "none" =>
              /\ printed'[t] = 0 /\ sizes'[t] = <<>> /\ writer'[t] = "idle" /\ Unsent(t)' /\ ~Queued(t)'
        BY <1>0, <2>1, <3>1
        DEF FreshInv, Unsent, Queued, Falls, ClientSame, StateSame, SentSame, ActorSame
      <3>3. ASSUME NEW i \in DOMAIN queue', queue'[i].op = "create"
            PROVE  /\ Unsent(queue[i].s)'
                   /\ \A j \in DOMAIN queue' : queue'[j].s = queue'[i].s => i <= j
        BY <1>0, <2>1, <2>3, <3>3, TailFresh DEF Unsent, SentSame
      <3>4. actor' = "creating" => Unsent(current)'
        <4>1. SUFFICES ASSUME actor' = "creating" PROVE Unsent(current)'
          OBVIOUS
        <4>2. Head(queue).op = "create" /\ Head(queue).s = current'
          BY <1>7, <4>1 DEF Asks
        <4>3. Head(queue) = queue[1] /\ 1 \in DOMAIN queue
          BY <1>0, <2>3, TailFacts
        <4>4. QED
          BY <1>0, <2>1, <4>2, <4>3 DEF FreshInv, Unsent, SentSame
      <3>5. QED
        BY <3>2, <3>3, <3>4 DEF FreshInv
    <2>4. QED
      BY <1>7, <2>2, <2>3 DEF Asks, Takes1
  <1>8. CASE Skips
    <2>1. ClientSame /\ StateSame /\ SentSame /\ queue # <<>> /\ queue' = Tail(queue)
      BY <1>8 DEF Skips, Takes1
    <2>2. \A j \in DOMAIN queue' : \E i \in DOMAIN queue : queue'[j] = queue[i]
      BY <1>0, <2>1, TailMembers
    <2>3. \A t \in Sessions : status'[t] = "none" =>
            /\ printed'[t] = 0 /\ sizes'[t] = <<>> /\ writer'[t] = "idle" /\ Unsent(t)' /\ ~Queued(t)'
      BY <1>0, <2>1, <2>2
      DEF FreshInv, Unsent, Queued, Falls, ClientSame, StateSame, SentSame, ActorSame
    <2>4. ASSUME NEW i \in DOMAIN queue', queue'[i].op = "create"
          PROVE  /\ Unsent(queue[i].s)'
                 /\ \A j \in DOMAIN queue' : queue'[j].s = queue'[i].s => i <= j
      BY <1>0, <2>1, <2>4, TailFresh DEF Unsent, SentSame
    <2>5. QED
      BY <1>8, <2>3, <2>4 DEF Skips, FreshInv
  <1>9. CASE Sends
    <2>1. ClientSame /\ StateSame /\ queue # <<>> /\ queue' = Tail(queue) /\ CanProcess(Head(queue).s)
      BY <1>9 DEF Sends, Takes1
    <2>2. /\ \A j \in DOMAIN queue' : \E i \in DOMAIN queue : queue'[j] = queue[i]
          /\ Head(queue).s \in Sessions
      BY <1>0, <2>1, TailMembers, TailFacts
    <2>3. \A t \in Sessions : t # Head(queue).s => (Unsent(t) => Unsent(t)')
      BY <1>0, <1>9 DEF Sends, Unsent, TypeOK, ActorType
    <2>4. \A t \in Sessions : status'[t] = "none" =>
            /\ printed'[t] = 0 /\ sizes'[t] = <<>> /\ writer'[t] = "idle" /\ Unsent(t)' /\ ~Queued(t)'
      BY <1>0, <2>1, <2>2, <2>3 DEF FreshInv, Queued, CanProcess, ClientSame, StateSame
    <2>5. ASSUME NEW i \in DOMAIN queue', queue'[i].op = "create"
          PROVE  /\ Unsent(queue[i].s)'
                 /\ \A j \in DOMAIN queue' : queue'[j].s = queue'[i].s => i <= j
      <3>1. /\ Unsent(queue'[i].s) /\ queue'[i].s # Head(queue).s
            /\ \A j \in DOMAIN queue' : queue'[j].s = queue'[i].s => i <= j
        BY <1>0, <2>1, <2>5, TailFresh
      <3>2. queue'[i].s \in Sessions
        BY <1>0, <2>2
      <3>3. Unsent(queue[i].s)'
        BY <1>0, <1>9, <3>1, <3>2 DEF Sends, Unsent, TypeOK, ActorType
      <3>4. QED
        BY <3>1, <3>3
    <2>6. QED
      BY <1>9, <2>4, <2>5 DEF Sends, FreshInv
  <1>10. CASE Answers
    BY <1>0, <1>10 DEF Answers, Waits, ClientSame, SentSame, FreshInv, Unsent, Queued, Falls
  <1>11. CASE Pauses
    BY <1>0, <1>11
    DEF Pauses, Waits, ClientSame, StateSame, SentSame, FreshInv, Unsent, Queued, Falls
  <1>12. CASE Stores
    BY <1>0, <1>12
    DEF Stores, ClientSame, StateSame, SentSame, FreshInv, Unsent, Queued, Falls
  <1>13. CASE Errs
    BY <1>0, <1>13
    DEF Errs, ClientSame, SentSame, ActorSame, FreshInv, Unsent, Queued, Falls
  <1>14. CASE Stops
    BY <1>0, <1>14, EmptySeq DEF Stops, ClientSame, SentSame, FreshInv, Unsent, Queued, Falls
  <1>15. CASE NodeRuns
    BY <1>0, <1>15
    DEF NodeRuns, ClientSame, StateSame, SentSame, ActorSame, FreshInv, Unsent, Queued, Falls
  <1>16. QED
    BY <1>1, <1>2, <1>3, <1>4, <1>5, <1>6, <1>7, <1>8, <1>9, <1>10, <1>11, <1>12, <1>13,
       <1>14, <1>15
    DEF StepKinds

-----------------------------------------------------------------------------
(* The queue of a session that works *)

LEMMA NothingQueued ==
    ASSUME NEW s, NEW q, NEW p, NEW d, \A k \in DOMAIN q : ~Mutates(s, q[k]), Follows(d, p)
    PROVE  Chain(s, q, p) /\ Joins(s, q, p, d)
  BY DEF Chain, Joins, IsFirst, IsLast, AreNext

\* What a step has to keep for one session, where the queue and what was sent stay.
Steady(t) ==
    /\ CanProcess(t)' => CanProcess(t)
    /\ InStep(t)' /\ actor' # "stopped" =>
         InStep(t) /\ actor # "stopped" /\ Due(t)' = Due(t)

\* A step that leaves the queue and what was sent alone.
LEMMA SteadyChain ==
    ASSUME ChainInv, queue' = queue, SentSame, \A t \in Sessions : Steady(t)
    PROVE  ChainInv'
  <1>1. \A t \in Sessions : Sent(t)' = Sent(t)
    BY DEF Sent, SentSame
  <1>2. QED
    BY <1>1 DEF ChainInv, Steady

\* What is left of a chain continues the command that was taken.
LEMMA TailChain ==
    ASSUME ChainInv, queue \in Seq(QFrames), queue # <<>>, queue' = Tail(queue),
           \A t \in Sessions : Steady(t),
           \A t \in Sessions : CanProcess(t) => GoesOn(t, Head(queue), Sent(t), Sent(t)')
    PROVE  ChainInv'
  <1>1. ASSUME NEW t \in Sessions, CanProcess(t)' PROVE Chain(t, queue, Sent(t))'
    BY <1>1, ChainTail DEF ChainInv, Steady
  <1>2. ASSUME NEW t \in Sessions, InStep(t)', actor' # "stopped"
        PROVE  Joins(t, queue, Sent(t), Due(t))'
    <2>1. InStep(t) /\ actor # "stopped" /\ Due(t)' = Due(t) /\ CanProcess(t)
      BY <1>2 DEF Steady, InStep, Queueing, Active, CanProcess
    <2>2. Joins(t, queue, Sent(t), Due(t))
      BY <2>1 DEF ChainInv
    <2>3. QED
      BY <2>1, <2>2, JoinsTail
  <1>3. QED
    BY <1>1, <1>2 DEF ChainInv

\* The queue continues what was sent, and the next mutation of a thread the queue.
LEMMA ChainStep ==
    ASSUME IInv, IInv', OrderInv, StepKinds
    PROVE  ChainInv'
  <1>0. /\ TypeOK /\ TypeOK' /\ ChainInv /\ GrowthInv /\ FreshInv
        /\ queue \in Seq(QFrames) /\ DOMAIN queue = 1..Len(queue) /\ Len(queue) \in Nat
        /\ \A i \in DOMAIN queue : queue[i].s \in Sessions
    BY TypesHold DEF IInv, OrderInv
  <1>1. CASE Apart
    <2>1. queue' = queue /\ SentSame
      BY <1>1 DEF Apart, LinkSame
    <2>2. \A t \in Sessions : Steady(t)
      BY <1>0, <1>1
      DEF Apart, ClientSame, SentSame, ActorSame, LinkSame, Steady, Falls, CanProcess, Active,
          InStep, Queueing, Due, Command, TypeOK, SessionType, ThreadType, Resizing
    <2>3. QED
      BY <1>0, <2>1, <2>2, SteadyChain
  <1>2. ASSUME NEW s \in Sessions, Begins(s) PROVE ChainInv'
    <2>1. /\ queue' = queue /\ actor' = actor /\ status' = status /\ writer[s] = "idle"
          /\ \A t \in Sessions : Sent(t)' = Sent(t)
      BY <1>2 DEF Begins, LinkSame, SentSame, ActorSame, StateSame, Sent
    <2>2. \A t \in Sessions : CanProcess(t)' = CanProcess(t)
      BY <2>1 DEF CanProcess
    <2>3. ASSUME NEW t \in Sessions, InStep(t)', actor' # "stopped"
          PROVE  Joins(t, queue, Sent(t), Due(t))'
      <3>1. CASE t # s
        <4>1. InStep(t) /\ Due(t)' = Due(t)
          BY <1>0, <1>2, <2>1, <2>3, <3>1
          DEF Begins, InStep, Queueing, CanProcess, Active, Due, Command, TypeOK, ThreadType, Resizing
        <4>2. QED
          BY <1>0, <2>1, <2>3, <4>1 DEF ChainInv
      <3>2. CASE t = s
        <4>1. InStep(s) /\ actor # "stopped"
          BY <1>0, <1>2, <2>1, <2>3, <3>2
          DEF Begins, InStep, Queueing, CanProcess, Active, TypeOK, ThreadType, Resizing
        <4>2. Joins(s, queue, Sent(s), Due(s))
          BY <1>0, <4>1 DEF ChainInv
        <4> DEFINE z == [upto |-> printed[s], sizes |-> sizes[s]]
        <4>3. Due(s).op = "write" /\ Due(s).from = z.upto /\ Due(s).sizes = z.sizes
          BY <2>1, DueIs DEF Resizing
        <4>4. Follows(Due(s)', z)
          <5>1. CASE writer' = [writer EXCEPT ![s] = "resize"]
            <6>1. PICK x \in Sizes : sizes' = [sizes EXCEPT ![s] = Append(@, x)]
              BY <1>2, <5>1, <1>0 DEF Begins, TypeOK, ThreadType
            <6>2. /\ sizes'[s] = Append(sizes[s], x) /\ Len(sizes'[s]) = Len(sizes[s]) + 1
                  /\ sizes'[s][Len(sizes'[s])] = x
              BY <1>0, <6>1, SizesHold, AppendKeeps DEF TypeOK, ThreadType
            <6>3. printed' = printed /\ Resizing(s)'
              BY <1>0, <1>2, <5>1 DEF Begins, TypeOK, ThreadType, Resizing
            <6>4. Due(s)' = [op |-> "resize", s |-> s, sizes |-> sizes'[s],
                             from |-> printed[s], upto |-> printed[s]]
              BY <6>3 DEF Due, Command
            <6>5. QED
              BY <6>2, <6>4 DEF Follows
          <5>2. CASE writer' # [writer EXCEPT ![s] = "resize"]
            <6>1. /\ sizes' = sizes /\ printed'[s] = printed[s] + 1 /\ printed[s] \in Nat
                  /\ writer'[s] = "write"
              BY <1>0, <1>2, <2>1, <2>3, <3>2, <5>2
              DEF Begins, InStep, Queueing, CanProcess, Active, TypeOK, ThreadType, Resizing
            <6>2. Due(s)' = [op |-> "write", s |-> s, sizes |-> sizes[s],
                             from |-> printed'[s] - 1, upto |-> printed'[s]]
              BY <6>1 DEF Due, Command, Resizing
            <6>3. printed'[s] - 1 = printed[s]
              BY <6>1
            <6>4. QED
              BY <6>2, <6>3 DEF Follows
          <5>3. QED
            BY <5>1, <5>2
        <4>5. Joins(s, queue, Sent(s), Due(s)')
          BY <4>2, <4>3, <4>4, JoinsAtRest
        <4>6. QED
          BY <2>1, <3>2, <4>5
      <3>3. QED
        BY <3>1, <3>2
    <2>4. QED
      BY <1>0, <2>1, <2>2, <2>3 DEF ChainInv
  <1>3. ASSUME NEW s \in Sessions, GivesUp(s) PROVE ChainInv'
    <2>1. queue' = queue /\ SentSame
      BY <1>3 DEF GivesUp, LinkSame
    <2>2. \A t \in Sessions : Steady(t)
      BY <1>0, <1>3
      DEF GivesUp, SentSame, ActorSame, LinkSame, Steady, Falls, CanProcess, Active, InStep, Queueing,
          Due, Command, TypeOK, SessionType, ThreadType, Resizing
    <2>3. QED
      BY <1>0, <2>1, <2>2, SteadyChain
  <1>4. ASSUME NEW s \in Sessions, ClearsOld(s) PROVE ChainInv'
    <2>1. queue' = queue /\ SentSame
      BY <1>4 DEF ClearsOld, LinkSame
    <2>2. \A t \in Sessions : Steady(t)
      BY <1>0, <1>4
      DEF ClearsOld, SentSame, ActorSame, LinkSame, Steady, Falls, CanProcess, Active, InStep, Queueing,
          Due, Command, TypeOK, SessionType, ThreadType, Resizing
    <2>3. QED
      BY <1>0, <2>1, <2>2, SteadyChain
  <1>5. ASSUME NEW s \in Sessions, Grows(s) PROVE ChainInv'
    <2>1. PICK i \in DOMAIN queue :
              /\ Extends(s, i) /\ DOMAIN queue' = DOMAIN queue
              /\ \A k \in DOMAIN queue : k # i => queue'[k] = queue[k]
              /\ queue'[i].s = queue[i].s /\ queue'[i].op = queue[i].op
              /\ queue'[i].sizes = queue[i].sizes /\ queue'[i].from = queue[i].from
              /\ queue'[i].upto = queue[i].upto + 1
      BY <1>0, <1>5, GrowsAt
    <2>2. /\ queue' \in Seq(QFrames) /\ queue[i].op = "write" /\ queue[i].s = s
          /\ queue[i].sizes = sizes[s] /\ queue'[i].upto = printed[s]
      BY <1>0, <2>1, TypesHold DEF Extends, IsLastWrite, TypeOK, ActorType, QFrames
    <2>3. IsLast(s, queue, i)
      <3>1. Mutates(s, queue[i])
        BY <2>2 DEF Mutates, Mutations
      <3>2. ASSUME NEW k \in DOMAIN queue, i < k, Mutates(s, queue[k]) PROVE FALSE
        <4>1. queue[k].op = "resize" /\ queue[k].s = s
          BY <2>1, <3>2 DEF Extends, IsLastWrite, Mutates, Mutations
        <4>2. Len(queue[i].sizes) < Len(queue[k].sizes) /\ Len(queue[k].sizes) <= Len(sizes[s])
          BY <1>0, <2>2, <3>1, <3>2, <4>1 DEF GrowthInv, Mutates
        <4>3. Len(queue[i].sizes) = Len(sizes[s]) /\ Len(sizes[s]) \in Nat /\ Len(queue[k].sizes) \in Nat
          BY <1>0, <2>2, SizesHold, TypesHold, LenProperties
        <4>4. QED
          BY <4>2, <4>3
      <3>3. QED
        BY <3>1, <3>2 DEF IsLast
    <2>4. /\ actor' = actor /\ status' = status /\ \A t \in Sessions : Sent(t)' = Sent(t)
      BY <1>5 DEF Grows, LinkSame, SentSame, ActorSame, StateSame, Sent
    <2>5. ASSUME NEW t \in Sessions, CanProcess(t)' PROVE Chain(t, queue, Sent(t))'
      <3>1. Chain(t, queue, Sent(t))
        BY <1>0, <2>4, <2>5 DEF ChainInv, CanProcess
      <3>2. Chain(t, queue', Sent(t))
        BY <1>0, <2>1, <2>2, <2>3, <3>1, ChainExtend
      <3>3. QED
        BY <2>4, <3>2
    <2>6. ASSUME NEW t \in Sessions, InStep(t)', actor' # "stopped"
          PROVE  Joins(t, queue, Sent(t), Due(t))'
      <3>1. t # s => Joins(t, queue, Sent(t), Due(t)')
        <4>1. SUFFICES ASSUME t # s PROVE InStep(t) /\ Due(t)' = Due(t)
          BY <1>0, <2>4, <2>6, <4>1 DEF ChainInv
        <4>2. QED
          BY <1>0, <1>5, <2>4, <2>6, <4>1
          DEF Grows, InStep, Queueing, CanProcess, Active, Due, Command, TypeOK, ThreadType, Resizing
      <3>2. t = s => Follows(Due(t)', queue'[i])
        <4>1. writer'[s] = "idle" /\ printed' = printed /\ sizes' = sizes
          BY <1>0, <1>5 DEF Grows, TypeOK, ThreadType, Resizing
        <4>2. Due(s)' = [op |-> "write", s |-> s, sizes |-> sizes[s],
                         from |-> printed[s], upto |-> printed[s]]
          BY <4>1 DEF Due, Command, Resizing
        <4>3. QED
          BY <2>1, <2>2, <4>2 DEF Follows
      <3>3. Joins(t, queue', Sent(t), Due(t)')
        BY <1>0, <2>1, <2>2, <2>3, <3>1, <3>2, JoinsExtend
      <3>4. QED
        BY <2>4, <3>3
    <2>7. QED
      BY <2>5, <2>6 DEF ChainInv
  <1>6. ASSUME NEW s \in Sessions, NEW c \in QFrames, Commands(s, c) PROVE ChainInv'
    <2>1. queue' = Append(queue, c) /\ actor # "stopped" /\ printed' = printed /\ sizes' = sizes
      BY <1>6 DEF Commands
    <2>2. /\ actor' = actor /\ \A t \in Sessions : Sent(t)' = Sent(t)
      BY <1>6 DEF Commands, LinkSame, SentSame, ActorSame, Sent
    <2>3. /\ c.s = s /\ c.upto = printed[s] /\ c.sizes = sizes[s]
          /\ c.op \in Mutations => c = Due(s) /\ writer[s] \in {"write", "resized"}
      BY <1>6, CommandIs
    <2>4. CASE c = Command(s, "create") /\ status[s] = "none" /\ writer' = writer
               /\ status' = [status EXCEPT ![s] = "active"]
      <3>1. \A t \in Sessions : ~Mutates(t, c)
        BY <2>4 DEF Command, Mutates, Mutations
      <3>2. ASSUME NEW t \in Sessions, t # s
            PROVE  /\ CanProcess(t)' = CanProcess(t) /\ InStep(t)' = InStep(t) /\ Due(t)' = Due(t)
        BY <1>0, <2>1, <2>4, <3>2
        DEF InStep, Queueing, CanProcess, Active, Due, Command, TypeOK, SessionType, ThreadType, Resizing
      <3>3. ASSUME NEW t \in Sessions, t # s
            PROVE  /\ CanProcess(t)' => Chain(t, queue, Sent(t))'
                   /\ InStep(t)' /\ actor' # "stopped" => Joins(t, queue, Sent(t), Due(t))'
        BY <1>0, <2>1, <2>2, <3>1, <3>2, <3>3, ChainAppend, JoinsOther DEF ChainInv
      <3>4. Chain(s, queue, Sent(s))' /\ Joins(s, queue, Sent(s), Due(s))'
        <4>1. /\ printed[s] = 0 /\ sizes[s] = <<>> /\ writer[s] = "idle" /\ Unsent(s) /\ ~Queued(s)
          BY <1>0, <2>4 DEF FreshInv
        <4>2. \A k \in DOMAIN queue' : ~Mutates(s, queue'[k])
          BY <1>0, <2>1, <3>1, <4>1, SameQueueFacts DEF Queued, Mutates
        <4>3. Due(s)' = [op |-> "write", s |-> s, sizes |-> <<>>, from |-> 0, upto |-> 0]
          BY <2>1, <2>4, <4>1 DEF Due, Command, Resizing
        <4>4. Follows(Due(s)', Sent(s)')
          <5>1. Sent(s).upto = 0 /\ Sent(s).sizes = <<>>
            BY <4>1 DEF Sent, Unsent
          <5>2. Follows([op |-> "write", s |-> s, sizes |-> <<>>, from |-> 0, upto |-> 0], Sent(s))
            BY <5>1 DEF Follows
          <5>3. QED
            BY <2>2, <4>3, <5>2
        <4>5. QED
          BY <4>2, <4>4, NothingQueued
      <3>5. QED
        BY <3>3, <3>4 DEF ChainInv
    <2>5. CASE c = Command(s, "dispose") /\ writer' = writer /\ status' = status
      <3>1. \A t \in Sessions : ~Mutates(t, c)
        BY <2>5 DEF Command, Mutates, Mutations
      <3>2. \A t \in Sessions :
               CanProcess(t)' = CanProcess(t) /\ InStep(t)' = InStep(t) /\ Due(t)' = Due(t)
        BY <2>1, <2>5 DEF InStep, Queueing, CanProcess, Active, Due, Command, Resizing
      <3>3. ASSUME NEW t \in Sessions
            PROVE  /\ CanProcess(t)' => Chain(t, queue, Sent(t))'
                   /\ InStep(t)' /\ actor' # "stopped" => Joins(t, queue, Sent(t), Due(t))'
        BY <1>0, <2>1, <2>2, <3>1, <3>2, ChainAppend, JoinsOther DEF ChainInv
      <3>4. QED
        BY <3>3 DEF ChainInv
    <2>6. CASE /\ c = Due(s) /\ writer[s] \in {"write", "resized"}
               /\ status' = status /\ writer' = [writer EXCEPT ![s] = "idle"]
      <3>1. Mutates(s, c) /\ \A t \in Sessions : t # s => ~Mutates(t, c)
        BY <2>3, <2>6, DueIs DEF Mutates
      <3>2. \A t \in Sessions : CanProcess(t)' = CanProcess(t)
        BY <2>6 DEF CanProcess
      <3>3. CanProcess(s) => Joins(s, queue, Sent(s), c)
        BY <1>0, <2>1, <2>6 DEF ChainInv, InStep, Queueing, Active, Resizing
      <3>4. ASSUME NEW t \in Sessions, CanProcess(t)' PROVE Chain(t, queue, Sent(t))'
        <4>1. Chain(t, queue, Sent(t)) /\ (Mutates(t, c) => Joins(t, queue, Sent(t), c))
          BY <1>0, <3>1, <3>2, <3>3, <3>4 DEF ChainInv
        <4>2. QED
          BY <1>0, <2>1, <2>2, <4>1, ChainAppend
      <3>5. ASSUME NEW t \in Sessions, InStep(t)', actor' # "stopped"
            PROVE  Joins(t, queue, Sent(t), Due(t))'
        <4>1. CASE t # s
          <5>1. InStep(t) /\ Due(t)' = Due(t)
            BY <1>0, <2>1, <2>6, <3>5, <4>1
            DEF InStep, Queueing, CanProcess, Active, Due, Command, TypeOK, ThreadType, Resizing
          <5>2. QED
            BY <1>0, <2>1, <2>2, <3>1, <4>1, <5>1, JoinsOther DEF ChainInv
        <4>2. CASE t = s
          <5>1. writer'[s] = "idle"
            BY <1>0, <2>6 DEF TypeOK, ThreadType, Resizing
          <5>2. Due(s)' = [op |-> "write", s |-> s, sizes |-> sizes[s],
                           from |-> printed[s], upto |-> printed[s]]
            BY <2>1, <5>1 DEF Due, Command, Resizing
          <5>3. Follows(Due(s)', c)
            BY <2>3, <5>2 DEF Follows
          <5>4. QED
            BY <1>0, <2>1, <2>2, <3>1, <4>2, <5>3, JoinsAppended
        <4>3. QED
          BY <4>1, <4>2
      <3>6. QED
        BY <3>4, <3>5 DEF ChainInv
    <2>7. QED
      BY <1>6, <2>4, <2>5, <2>6 DEF Commands
  <1>7. ASSUME NEW f \in PFrames, Asks(f) PROVE ChainInv'
    <2>1. /\ \A t \in Sessions : Steady(t)
          /\ SentSame /\ \A t \in Sessions : Sent(t)' = Sent(t)
      BY <1>7
      DEF Asks, ClientSame, StateSame, SentSame, Steady, CanProcess, Active, InStep, Queueing, Due,
          Command, Resizing, Sent
    <2>2. CASE queue' = queue
      BY <1>0, <2>1, <2>2, SteadyChain
    <2>3. CASE queue # <<>> /\ queue' = Tail(queue) /\ Head(queue).op \notin Mutations
      <3>1. \A t \in Sessions : GoesOn(t, Head(queue), Sent(t), Sent(t)')
        BY <2>1, <2>3 DEF GoesOn, Mutates
      <3>2. QED
        BY <1>0, <2>1, <2>3, <3>1, TailChain
    <2>4. QED
      BY <1>7, <2>2, <2>3 DEF Asks, Takes1
  <1>8. CASE Skips
    <2>1. /\ \A t \in Sessions : Steady(t) /\ Sent(t)' = Sent(t)
          /\ queue # <<>> /\ queue' = Tail(queue) /\ ~CanProcess(Head(queue).s)
      BY <1>8
      DEF Skips, Takes1, ClientSame, StateSame, SentSame, Steady, CanProcess, Active, InStep, Queueing,
          Due, Command, Resizing, Sent
    <2>2. \A t \in Sessions : CanProcess(t) => GoesOn(t, Head(queue), Sent(t), Sent(t)')
      BY <2>1 DEF GoesOn, Mutates
    <2>3. QED
      BY <1>0, <2>1, <2>2, TailChain
  <1>9. CASE Sends
    <2>1. /\ \A t \in Sessions : Steady(t)
          /\ queue # <<>> /\ queue' = Tail(queue) /\ Head(queue).op \in Mutations
      BY <1>9
      DEF Sends, Takes1, ClientSame, StateSame, Steady, CanProcess, Active, InStep, Queueing, Due,
          Command, Resizing
    <2>2. Head(queue).s \in Sessions
      BY <1>0, <2>1, TailFacts
    <2>3. \A t \in Sessions : GoesOn(t, Head(queue), Sent(t), Sent(t)')
      BY <1>0, <1>9, <2>1, <2>2 DEF Sends, GoesOn, Mutates, Sent, TypeOK, ActorType
    <2>4. QED
      BY <1>0, <2>1, <2>3, TailChain
  <1>10. CASE Answers
    <2>1. queue' = queue /\ SentSame
      BY <1>10 DEF Answers, LinkSame
    <2>2. \A t \in Sessions : Steady(t)
      BY <1>0, <1>10
      DEF Answers, ClientSame, SentSame, Steady, Falls, CanProcess, Active, InStep, Queueing, Due,
          Command, TypeOK, SessionType, ThreadType, Resizing
    <2>3. QED
      BY <1>0, <2>1, <2>2, SteadyChain
  <1>11. CASE Pauses
    <2>1. queue' = queue /\ SentSame
      BY <1>11 DEF Pauses, LinkSame
    <2>2. \A t \in Sessions : Steady(t)
      BY <1>0, <1>11
      DEF Pauses, ClientSame, StateSame, SentSame, Steady, Falls, CanProcess, Active, InStep, Queueing,
          Due, Command, TypeOK, SessionType, ThreadType, Resizing
    <2>3. QED
      BY <1>0, <2>1, <2>2, SteadyChain
  <1>12. CASE Stores
    <2>1. queue' = queue /\ SentSame
      BY <1>12 DEF Stores, LinkSame
    <2>2. \A t \in Sessions : Steady(t)
      BY <1>0, <1>12
      DEF Stores, ClientSame, StateSame, SentSame, Steady, Falls, CanProcess, Active, InStep, Queueing,
          Due, Command, TypeOK, SessionType, ThreadType, Resizing
    <2>3. QED
      BY <1>0, <2>1, <2>2, SteadyChain
  <1>13. CASE Errs
    <2>1. queue' = queue /\ SentSame
      BY <1>13 DEF Errs, LinkSame
    <2>2. \A t \in Sessions : Steady(t)
      BY <1>0, <1>13
      DEF Errs, ClientSame, SentSame, ActorSame, Steady, Falls, CanProcess, Active, InStep, Queueing,
          Due, Command, TypeOK, SessionType, ThreadType, Resizing
    <2>3. QED
      BY <1>0, <2>1, <2>2, SteadyChain
  <1>14. CASE Stops
    BY <1>14, ChainEmpty DEF Stops, ChainInv
  <1>15. CASE NodeRuns
    <2>1. queue' = queue /\ SentSame
      BY <1>15 DEF NodeRuns, LinkSame
    <2>2. \A t \in Sessions : Steady(t)
      BY <1>0, <1>15
      DEF NodeRuns, ClientSame, StateSame, SentSame, ActorSame, Steady, Falls, CanProcess,
          Active, InStep, Queueing, Due, Command, TypeOK, SessionType, ThreadType, Resizing
    <2>3. QED
      BY <1>0, <2>1, <2>2, SteadyChain
  <1>16. QED
    BY <1>1, <1>2, <1>3, <1>4, <1>5, <1>6, <1>7, <1>8, <1>9, <1>10, <1>11, <1>12, <1>13,
       <1>14, <1>15
    DEF StepKinds

-----------------------------------------------------------------------------
(* The pipes *)

\* Node takes one frame and answers it, or applies a mutation silently.
NodeTakes ==
    /\ pipe # <<>> /\ pipe' = Tail(pipe)
    /\ \/ replies' = replies /\ Frame.op \in Mutations
       \/ \E r \in Replies : replies' = Append(replies, r) /\ r.op = Frame.op /\ r.s = Frame.s

LEMMA RefusedWith ==
    ASSUME TypeOK, pipe # <<>>, NEW ok \in BOOLEAN, NEW at \in Applied, Reply(ok, at)
    PROVE  \E r \in Replies : /\ replies' = Append(replies, r) /\ r.op = Frame.op /\ r.s = Frame.s
                              /\ r.ok = ok /\ r.offset = at.offset /\ r.sizes = at.sizes
  <1> DEFINE r == [op |-> Frame.op, s |-> Frame.s, ok |-> ok, offset |-> at.offset, sizes |-> at.sizes]
  <1>1. r \in Replies
    BY HeadOfPipe DEF PFrames, Frames, Replies, Applied
  <1>2. replies' = Append(replies, r)
    BY DEF Reply
  <1>3. QED
    BY <1>1, <1>2

\* Every step of Node takes the first frame.
LEMMA NodeTakesOne == ASSUME TypeOK, Node PROVE NodeTakes
  <1>1. CASE NodeRefuses
    BY <1>1, RefusedWith, NothingApplied DEF NodeRefuses, NodeTakes
  <1>2. CASE NodeCreate
    BY <1>2, RefusedWith, NothingApplied DEF NodeCreate, NodeTakes
  <1>3. CASE NodeWrite
    BY <1>3 DEF NodeWrite, NodeTakes, Mutations
  <1>4. CASE NodeResize
    BY <1>4 DEF NodeResize, NodeTakes, Mutations
  <1>5. CASE NodeSnapshot
    <2>1. node[Frame.s] \in Applied
      BY <1>5, NodeKnown DEF NodeSnapshot
    <2>2. QED
      BY <1>5, <2>1, RefusedWith DEF NodeSnapshot, NodeTakes
  <1>6. CASE NodeDispose
    <2>1. node[Frame.s] \in Applied
      BY <1>6, NodeKnown DEF NodeDispose
    <2>2. QED
      BY <1>6, <2>1, RefusedWith DEF NodeDispose, NodeTakes
  <1>7. QED
    BY <1>1, <1>2, <1>3, <1>4, <1>5, <1>6 DEF Node

LEMMA OpsApart ==
    /\ \A o \in Requests : o \notin Mutations
    /\ \A r \in Replies : r.op \notin Requests => r.op \in Mutations
    /\ \A f \in QFrames : f.op \in Mutations => f.op \notin Requests
  BY DEF Requests, Mutations, Replies, QFrames, Frames

\* The answer that is awaited is the last thing under way.
LEMMA AnswerIsLast ==
    ASSUME TypeOK, AwaitInv, replies # <<>>, Head(replies).op \notin Mutations
    PROVE  /\ Waits /\ Len(replies) = 1 /\ Tail(replies) = <<>> /\ pipe = <<>>
           /\ Head(replies) = replies[1] /\ 1 \in DOMAIN replies /\ DOMAIN replies = {1}
           /\ replies[1].s = current /\ replies[1].op = Asked
  <1>1. /\ Head(replies) = replies[1] /\ 1 \in DOMAIN replies /\ Len(replies) \in Nat
        /\ DOMAIN replies = 1..Len(replies)
        /\ Len(Tail(replies)) = Len(replies) - 1 /\ Tail(replies) \in Seq(Replies)
    BY TypesHold, TailKeeps, TailFacts
  <1>2. replies[1].op \in Requests
    BY <1>1, TypesHold, OpsApart
  <1>3. /\ Waits /\ Len(replies) = 1 /\ pipe = <<>> /\ replies[1].s = current
        /\ replies[1].op = Asked
    BY <1>1, <1>2 DEF AwaitInv
  <1>4. Tail(replies) = <<>> /\ DOMAIN replies = {1}
    <2>1. Len(Tail(replies)) = 0
      BY <1>1, <1>3
    <2>2. Tail(replies) = <<>>
      BY <1>1, <2>1, EmptySeq
    <2>3. DOMAIN replies = 1..1
      BY <1>1, <1>3
    <2>4. QED
      BY <2>2, <2>3
  <1>5. QED
    BY <1>1, <1>3, <1>4

\* While nothing is awaited, no request and no answer is under way.
LEMMA NoRequests ==
    ASSUME TypeOK, AwaitInv, ~Waits
    PROVE  /\ \A i \in DOMAIN pipe : pipe[i].op \notin Requests
           /\ \A k \in DOMAIN replies : replies[k].op \notin Requests /\ replies[k].op \in Mutations
  BY TypesHold, OpsApart DEF AwaitInv

\* One request is under way, behind every mutation that was sent.
LEMMA AwaitStep ==
    ASSUME IInv, IInv', OrderInv, StepKinds
    PROVE  AwaitInv'
  <1>0. /\ TypeOK /\ TypeOK' /\ AwaitInv
        /\ pipe \in Seq(PFrames) /\ DOMAIN pipe = 1..Len(pipe) /\ Len(pipe) \in Nat
        /\ replies \in Seq(Replies) /\ DOMAIN replies = 1..Len(replies) /\ Len(replies) \in Nat
        /\ queue \in Seq(QFrames)
    BY TypesHold DEF IInv, OrderInv
  <1>1. CASE Apart
    BY <1>0, <1>1
    DEF Apart, NodeSame, ActorSame, LinkSame, AwaitInv, Waits, Asked
  <1>2. ASSUME NEW s \in Sessions, Begins(s) PROVE AwaitInv'
    BY <1>0, <1>2
    DEF Begins, NodeSame, ActorSame, LinkSame, AwaitInv, Waits, Asked
  <1>3. ASSUME NEW s \in Sessions, GivesUp(s) PROVE AwaitInv'
    BY <1>0, <1>3
    DEF GivesUp, NodeSame, ActorSame, LinkSame, AwaitInv, Waits, Asked
  <1>4. ASSUME NEW s \in Sessions, ClearsOld(s) PROVE AwaitInv'
    BY <1>0, <1>4
    DEF ClearsOld, NodeSame, ActorSame, LinkSame, AwaitInv, Waits, Asked
  <1>5. ASSUME NEW s \in Sessions, Grows(s) PROVE AwaitInv'
    BY <1>0, <1>5
    DEF Grows, NodeSame, ActorSame, LinkSame, AwaitInv, Waits, Asked
  <1>6. ASSUME NEW s \in Sessions, NEW c \in QFrames, Commands(s, c) PROVE AwaitInv'
    BY <1>0, <1>6
    DEF Commands, NodeSame, ActorSame, LinkSame, AwaitInv, Waits, Asked
  <1>7. ASSUME NEW f \in PFrames, Asks(f) PROVE AwaitInv'
    <2>1. /\ DOMAIN pipe' = 1..(Len(pipe) + 1) /\ pipe'[Len(pipe) + 1] = f /\ Len(pipe') = Len(pipe) + 1
          /\ \A i \in 1..Len(pipe) : pipe'[i] = pipe[i]
      BY <1>0, <1>7, SameQueueFacts, AppendKeeps DEF Asks
    <2>2. /\ \A i \in DOMAIN pipe : pipe[i].op \notin Requests
          /\ \A k \in DOMAIN replies : replies[k].op \notin Requests /\ replies[k].op \in Mutations
      BY <1>0, <1>7, NoRequests DEF Asks
    <2>3. replies' = replies /\ Waits' /\ f.s = current' /\ f.op = Asked'
      BY <1>7 DEF Asks
    <2>4. ASSUME NEW i \in DOMAIN pipe', pipe'[i].op \in Requests
          PROVE  i = Len(pipe') /\ pipe'[i].s = current' /\ pipe'[i].op = Asked'
      BY <1>0, <2>1, <2>2, <2>3, <2>4
    <2>5. QED
      BY <2>2, <2>3, <2>4 DEF AwaitInv
  <1>8. CASE Skips
    <2>1. pipe' = pipe /\ replies' = replies
      BY <1>8 DEF Skips, NodeSame
    <2>2. ~Waits
      BY <1>8 DEF Skips, Waits
    <2>3. QED
      BY <1>0, <2>1, <2>2, NoRequests DEF AwaitInv
  <1>9. CASE Sends
    <2>1. ~Waits /\ replies' = replies /\ pipe' = Append(pipe, Head(queue))
      BY <1>9 DEF Sends, Waits
    <2>2. Head(queue) \in QFrames /\ Head(queue) \in PFrames /\ Head(queue).op \notin Requests
      BY <1>0, <1>9, HeadOfQueue, OpsApart DEF Sends, Takes1, QFrames, PFrames, Frames
    <2>3. /\ DOMAIN pipe' = 1..(Len(pipe) + 1) /\ pipe'[Len(pipe) + 1] = Head(queue)
          /\ \A i \in 1..Len(pipe) : pipe'[i] = pipe[i]
      BY <1>0, <2>1, <2>2, SameQueueFacts
    <2>4. QED
      BY <1>0, <2>1, <2>2, <2>3, NoRequests DEF AwaitInv
  <1>10. CASE Answers
    <2>1. pipe' = <<>> /\ replies' = <<>>
      BY <1>0, <1>10, AnswerIsLast DEF Answers
    <2>2. QED
      BY <2>1, EmptySeq DEF AwaitInv
  <1>11. CASE Pauses
    <2>1. pipe' = pipe /\ replies' = replies
      BY <1>11 DEF Pauses, NodeSame
    <2>2. ~Waits
      BY <1>11 DEF Pauses, Waits
    <2>3. QED
      BY <1>0, <2>1, <2>2, NoRequests DEF AwaitInv
  <1>12. CASE Stores
    BY <1>0, <1>12
    DEF Stores, NodeSame, AwaitInv, Waits, Asked
  <1>13. CASE Errs
    <2>1. /\ replies # <<>> /\ replies' = Tail(replies) /\ pipe' = pipe /\ ActorSame
      BY <1>13 DEF Errs
    <2>2. /\ \A k \in DOMAIN replies' : k + 1 \in DOMAIN replies /\ replies'[k] = replies[k + 1]
          /\ Len(replies') = Len(replies) - 1 /\ DOMAIN replies' = 1..(Len(replies) - 1)
      BY <1>0, <2>1, TailFacts, TailKeeps
    <2>3. Waits' = Waits /\ Asked' = Asked
      BY <2>1 DEF ActorSame, Waits, Asked
    <2>4. ASSUME NEW k \in DOMAIN replies', replies'[k].op \in Requests
          PROVE  /\ Waits' /\ k = Len(replies') /\ replies'[k].s = current' /\ replies'[k].op = Asked'
                 /\ pipe' = <<>>
      BY <1>0, <2>1, <2>2, <2>3, <2>4 DEF AwaitInv, ActorSame
    <2>5. ASSUME NEW i \in DOMAIN pipe', pipe'[i].op \in Requests
          PROVE  /\ Waits' /\ i = Len(pipe') /\ pipe'[i].s = current' /\ pipe'[i].op = Asked'
                 /\ \A k \in DOMAIN replies' : replies'[k].op \in Mutations
      BY <1>0, <2>1, <2>2, <2>3, <2>5 DEF AwaitInv, ActorSame
    <2>6. QED
      BY <2>4, <2>5 DEF AwaitInv
  <1>14. CASE Stops
    BY <1>14, EmptySeq DEF Stops, AwaitInv
  <1>15. CASE NodeRuns
    <2>1. NodeTakes /\ ActorSame
      BY <1>0, <1>15, NodeTakesOne DEF NodeRuns
    <2>2. /\ \A i \in DOMAIN pipe' : i + 1 \in DOMAIN pipe /\ pipe'[i] = pipe[i + 1]
          /\ Len(pipe') = Len(pipe) - 1 /\ DOMAIN pipe' = 1..(Len(pipe) - 1)
          /\ Frame = pipe[1] /\ 1 \in DOMAIN pipe /\ pipe # <<>> /\ pipe' \in Seq(PFrames)
      BY <1>0, <2>1, TailFacts, TailKeeps DEF NodeTakes, Frame
    <2>3. Waits' = Waits /\ Asked' = Asked /\ current' = current
      BY <2>1 DEF ActorSame, Waits, Asked
    <2>4. \A k \in DOMAIN replies : replies[k].op \in Mutations
      BY <1>0, <2>2, TypesHold, OpsApart DEF AwaitInv
    <2>5. ASSUME NEW k \in DOMAIN replies', replies'[k].op \notin Mutations
          PROVE  k = Len(replies') /\ replies'[k].op = Frame.op /\ replies'[k].s = Frame.s
      <3>1. CASE replies' = replies
        BY <2>4, <2>5, <3>1
      <3>2. ASSUME NEW r \in Replies, replies' = Append(replies, r), r.op = Frame.op, r.s = Frame.s
            PROVE  k = Len(replies') /\ replies'[k].op = Frame.op /\ replies'[k].s = Frame.s
        <4>1. /\ DOMAIN replies' = 1..(Len(replies) + 1) /\ replies'[Len(replies) + 1] = r
              /\ Len(replies') = Len(replies) + 1
              /\ \A i \in 1..Len(replies) : replies'[i] = replies[i]
          BY <1>0, <3>2, SameQueueFacts, AppendKeeps
        <4>2. QED
          BY <1>0, <2>4, <2>5, <3>2, <4>1
      <3>3. QED
        BY <2>1, <3>1, <3>2 DEF NodeTakes
    <2>6. CASE Frame.op \in Requests
      <3>1. /\ Waits /\ Len(pipe) = 1 /\ Frame.s = current /\ Frame.op = Asked
        BY <1>0, <2>2, <2>6 DEF AwaitInv
      <3>2. pipe' = <<>> /\ DOMAIN pipe' = {}
        BY <2>2, <3>1, EmptySeq
      <3>3. QED
        BY <2>3, <2>5, <3>1, <3>2, OpsApart DEF AwaitInv
    <2>7. CASE Frame.op \notin Requests
      <3>1. Frame.op \in Mutations
        BY <1>0, <2>2, <2>7, HeadOfPipe DEF PFrames, Frames
      <3>2. \A k \in DOMAIN replies' : replies'[k].op \in Mutations
        BY <2>5, <3>1
      <3>3. ASSUME NEW i \in DOMAIN pipe', pipe'[i].op \in Requests
            PROVE  Waits' /\ i = Len(pipe') /\ pipe'[i].s = current' /\ pipe'[i].op = Asked'
        BY <1>0, <2>2, <2>3, <3>3 DEF AwaitInv
      <3>4. QED
        BY <3>2, <3>3, OpsApart DEF AwaitInv
    <2>8. QED
      BY <2>6, <2>7
  <1>16. QED
    BY <1>1, <1>2, <1>3, <1>4, <1>5, <1>6, <1>7, <1>8, <1>9, <1>10, <1>11, <1>12, <1>13,
       <1>14, <1>15
    DEF StepKinds

\* Node only hears of sessions that were created.
LEMMA KnownStep ==
    ASSUME IInv, IInv', OrderInv, StepKinds
    PROVE  KnownInv'
  <1>0. /\ TypeOK /\ TypeOK' /\ KnownInv /\ FreshInv
        /\ pipe \in Seq(PFrames) /\ DOMAIN pipe = 1..Len(pipe) /\ Len(pipe) \in Nat
        /\ replies \in Seq(Replies) /\ DOMAIN replies = 1..Len(replies) /\ Len(replies) \in Nat
        /\ queue \in Seq(QFrames)
        /\ \A i \in DOMAIN pipe : pipe[i].s \in Sessions
        /\ \A k \in DOMAIN replies : replies[k].s \in Sessions
    BY TypesHold DEF IInv, OrderInv
  <1>1. CASE Apart
    <2>1. NodeSame /\ \A t \in Sessions : status'[t] = "none" => status[t] = "none"
      BY <1>0, <1>1 DEF Apart, NodeSame, LinkSame, Falls, TypeOK, SessionType
    <2>2. QED
      BY <1>0, <2>1 DEF KnownInv, NodeSame
  <1>2. ASSUME NEW s \in Sessions, Begins(s) PROVE KnownInv'
    <2>1. NodeSame /\ \A t \in Sessions : status'[t] = "none" => status[t] = "none"
      BY <1>0, <1>2 DEF Begins, StateSame, NodeSame, LinkSame, Falls, TypeOK, SessionType
    <2>2. QED
      BY <1>0, <2>1 DEF KnownInv, NodeSame
  <1>3. ASSUME NEW s \in Sessions, GivesUp(s) PROVE KnownInv'
    <2>1. NodeSame /\ \A t \in Sessions : status'[t] = "none" => status[t] = "none"
      BY <1>0, <1>3 DEF GivesUp, NodeSame, LinkSame, Falls, TypeOK, SessionType
    <2>2. QED
      BY <1>0, <2>1 DEF KnownInv, NodeSame
  <1>4. ASSUME NEW s \in Sessions, ClearsOld(s) PROVE KnownInv'
    <2>1. NodeSame /\ \A t \in Sessions : status'[t] = "none" => status[t] = "none"
      BY <1>0, <1>4 DEF ClearsOld, NodeSame, LinkSame, Falls, TypeOK, SessionType
    <2>2. QED
      BY <1>0, <2>1 DEF KnownInv, NodeSame
  <1>5. ASSUME NEW s \in Sessions, Grows(s) PROVE KnownInv'
    <2>1. NodeSame /\ \A t \in Sessions : status'[t] = "none" => status[t] = "none"
      BY <1>0, <1>5 DEF Grows, StateSame, NodeSame, LinkSame, Falls, TypeOK, SessionType
    <2>2. QED
      BY <1>0, <2>1 DEF KnownInv, NodeSame
  <1>6. ASSUME NEW s \in Sessions, NEW c \in QFrames, Commands(s, c) PROVE KnownInv'
    <2>1. NodeSame /\ \A t \in Sessions : status'[t] = "none" => status[t] = "none"
      BY <1>0, <1>6 DEF Commands, NodeSame, LinkSame, Falls, TypeOK, SessionType
    <2>2. QED
      BY <1>0, <2>1 DEF KnownInv, NodeSame
  <1>7. ASSUME NEW f \in PFrames, Asks(f) PROVE KnownInv'
    <2>1. /\ StateSame /\ replies' = replies /\ node' = node /\ pipe' = Append(pipe, f)
          /\ status[f.s] # "none"
      BY <1>7 DEF Asks
    <2>2. /\ DOMAIN pipe' = 1..(Len(pipe) + 1) /\ pipe'[Len(pipe) + 1] = f
          /\ \A i \in 1..Len(pipe) : pipe'[i] = pipe[i]
      BY <1>0, <2>1, SameQueueFacts
    <2>3. QED
      BY <1>0, <2>1, <2>2 DEF KnownInv, StateSame
  <1>8. CASE Skips
    <2>1. NodeSame /\ \A t \in Sessions : status'[t] = "none" => status[t] = "none"
      BY <1>0, <1>8 DEF Skips, StateSame, NodeSame, Falls, TypeOK, SessionType
    <2>2. QED
      BY <1>0, <2>1 DEF KnownInv, NodeSame
  <1>9. CASE Sends
    <2>1. /\ StateSame /\ replies' = replies /\ node' = node /\ pipe' = Append(pipe, Head(queue))
          /\ status[Head(queue).s] # "none"
      BY <1>9 DEF Sends, CanProcess
    <2>2. Head(queue) \in PFrames
      BY <1>0, <1>9, HeadOfQueue DEF Sends, Takes1, QFrames, PFrames, Frames
    <2>3. /\ DOMAIN pipe' = 1..(Len(pipe) + 1) /\ pipe'[Len(pipe) + 1] = Head(queue)
          /\ \A i \in 1..Len(pipe) : pipe'[i] = pipe[i]
      BY <1>0, <2>1, <2>2, SameQueueFacts
    <2>4. QED
      BY <1>0, <2>1, <2>3 DEF KnownInv, StateSame
  <1>10. CASE Answers
    <2>1. /\ pipe' = pipe /\ node' = node /\ replies # <<>> /\ replies' = Tail(replies)
          /\ \A t \in Sessions : status'[t] = "none" => status[t] = "none"
      BY <1>0, <1>10 DEF Answers, Falls
    <2>2. \A j \in DOMAIN replies' : \E i \in DOMAIN replies : replies'[j] = replies[i]
      BY <1>0, <2>1, TailMembers
    <2>3. ASSUME NEW j \in DOMAIN replies' PROVE status'[replies'[j].s] # "none"
      <3>1. PICK i \in DOMAIN replies : replies'[j] = replies[i]
        BY <2>2
      <3>2. QED
        BY <1>0, <2>1, <3>1 DEF KnownInv
    <2>4. QED
      BY <1>0, <2>1, <2>3 DEF KnownInv
  <1>11. CASE Pauses
    <2>1. NodeSame /\ \A t \in Sessions : status'[t] = "none" => status[t] = "none"
      BY <1>0, <1>11 DEF Pauses, StateSame, NodeSame, Falls, TypeOK, SessionType
    <2>2. QED
      BY <1>0, <2>1 DEF KnownInv, NodeSame
  <1>12. CASE Stores
    <2>1. NodeSame /\ \A t \in Sessions : status'[t] = "none" => status[t] = "none"
      BY <1>0, <1>12 DEF Stores, StateSame, NodeSame, Falls, TypeOK, SessionType
    <2>2. QED
      BY <1>0, <2>1 DEF KnownInv, NodeSame
  <1>13. CASE Errs
    <2>1. /\ pipe' = pipe /\ node' = node /\ replies # <<>> /\ replies' = Tail(replies)
          /\ \A t \in Sessions : status'[t] = "none" => status[t] = "none"
      BY <1>0, <1>13 DEF Errs, Falls
    <2>2. \A j \in DOMAIN replies' : \E i \in DOMAIN replies : replies'[j] = replies[i]
      BY <1>0, <2>1, TailMembers
    <2>3. ASSUME NEW j \in DOMAIN replies' PROVE status'[replies'[j].s] # "none"
      <3>1. PICK i \in DOMAIN replies : replies'[j] = replies[i]
        BY <2>2
      <3>2. QED
        BY <1>0, <2>1, <3>1 DEF KnownInv
    <2>4. QED
      BY <1>0, <2>1, <2>3 DEF KnownInv
  <1>14. CASE Stops
    BY <1>14, EmptySeq DEF Stops, KnownInv, Each
  <1>15. CASE NodeRuns
    <2>1. NodeTakes /\ status' = status /\ pipe # <<>> /\ pipe' = Tail(pipe)
      BY <1>0, <1>15, NodeTakesOne DEF NodeRuns, StateSame, NodeTakes
    <2>2. /\ \A j \in DOMAIN pipe' : \E i \in DOMAIN pipe : pipe'[j] = pipe[i]
          /\ Frame = pipe[1] /\ 1 \in DOMAIN pipe /\ Frame.s \in Sessions
      BY <1>0, <2>1, TailMembers, HeadOfPipe
    <2>3. \A k \in DOMAIN replies' : replies'[k].s = Frame.s
                \/ \E i \in DOMAIN replies : replies'[k] = replies[i]
      <3>1. CASE replies' = replies
        BY <3>1
      <3>2. ASSUME NEW r \in Replies, replies' = Append(replies, r), r.s = Frame.s
            PROVE  \A k \in DOMAIN replies' : replies'[k].s = Frame.s
                      \/ \E i \in DOMAIN replies : replies'[k] = replies[i]
        <4>1. /\ DOMAIN replies' = 1..(Len(replies) + 1) /\ replies'[Len(replies) + 1] = r
              /\ \A i \in 1..Len(replies) : replies'[i] = replies[i]
          BY <1>0, <3>2, SameQueueFacts
        <4>2. QED
          BY <1>0, <3>2, <4>1
      <3>3. QED
        BY <2>1, <3>1, <3>2 DEF NodeTakes
    <2>4. \A t \in Sessions : t # Frame.s /\ node'[t] # None => node[t] # None
      <3>1. node' = node \/ \E v \in Applied \cup {None} : node' = [node EXCEPT ![Frame.s] = v]
        <4>1. CASE NodeRefuses \/ NodeSnapshot
          BY <4>1 DEF NodeRefuses, NodeSnapshot
        <4>2. CASE NodeCreate \/ NodeDispose
          BY <4>2, NothingApplied DEF NodeCreate, NodeDispose
        <4>3. CASE NodeWrite \/ NodeResize
          <5>1. node' \in [Sessions -> Applied \cup {None}] /\ node \in [Sessions -> Applied \cup {None}]
            BY <1>0 DEF TypeOK, NodeType
          <5>2. \A t \in Sessions : t # Frame.s => node'[t] = node[t]
            BY <1>0, <4>3, <5>1 DEF NodeWrite, NodeResize
          <5>3. node' = [node EXCEPT ![Frame.s] = node'[Frame.s]]
            BY <2>2, <5>1, <5>2
          <5>4. QED
            BY <2>2, <5>1, <5>3
        <4>4. QED
          BY <1>15, <4>1, <4>2, <4>3 DEF NodeRuns, Node
      <3>2. QED
        BY <1>0, <2>2, <3>1 DEF TypeOK, NodeType
    <2>5. status[Frame.s] # "none"
      BY <1>0, <2>2 DEF KnownInv
    <2>6. \A j \in DOMAIN pipe' : status'[pipe'[j].s] # "none"
      BY <1>0, <2>1, <2>2 DEF KnownInv
    <2>7. \A k \in DOMAIN replies' : status'[replies'[k].s] # "none"
      BY <1>0, <2>1, <2>3, <2>5 DEF KnownInv
    <2>8. \A t \in Sessions : node'[t] # None => status'[t] # "none"
      BY <1>0, <2>1, <2>4, <2>5 DEF KnownInv
    <2>9. QED
      BY <2>6, <2>7, <2>8 DEF KnownInv
  <1>16. QED
    BY <1>1, <1>2, <1>3, <1>4, <1>5, <1>6, <1>7, <1>8, <1>9, <1>10, <1>11, <1>12, <1>13,
       <1>14, <1>15
    DEF StepKinds

-----------------------------------------------------------------------------
(* What Node has applied *)

\* A session is no longer broken only once its own error was read.
LEMMA BrokenTail ==
    ASSUME replies \in Seq(Replies), replies # <<>>, replies' = Tail(replies), NEW t \in Sessions,
           ~Mutates(t, Head(replies)), ~Broken(t)'
    PROVE  ~Broken(t)
  <1>1. \A i \in DOMAIN replies : i = 1 \/ (i - 1 \in DOMAIN replies' /\ replies'[i - 1] = replies[i])
    BY TailFacts
  <1>2. Head(replies) = replies[1]
    BY TailFacts
  <1>3. QED
    BY <1>1, <1>2 DEF Broken

LEMMA BrokenAppend ==
    ASSUME replies \in Seq(Replies), NEW r \in Replies, replies' = Append(replies, r),
           NEW t \in Sessions, ~Broken(t)'
    PROVE  ~Broken(t) /\ ~Mutates(t, r)
  <1>1. /\ DOMAIN replies = 1..Len(replies) /\ Len(replies) \in Nat
        /\ DOMAIN replies' = 1..(Len(replies) + 1) /\ replies'[Len(replies) + 1] = r
        /\ \A i \in 1..Len(replies) : replies'[i] = replies[i]
    BY SameQueueFacts
  <1>2. QED
    BY <1>1 DEF Broken

\* A step that leaves the pipe and Node alone, and heals no session.
LEMMA SteadyNode ==
    ASSUME NodeInv, pipe' = pipe, node' = node, SentSame,
           \A t \in Sessions : Active(t)' /\ node[t] # None /\ ~Broken(t)' => Active(t) /\ ~Broken(t)
    PROVE  NodeInv'
  <1>1. \A t \in Sessions : Done(t)' = Done(t) /\ Rest(t)' = Rest(t)
    BY DEF Done, Rest, SentSame
  <1>2. QED
    BY <1>1 DEF NodeInv

\* The frame that Node executes, as a part of the chain of its session.
LEMMA TailNode ==
    ASSUME NodeInv, pipe \in Seq(PFrames), pipe # <<>>, pipe' = Tail(pipe), SentSame,
           NEW t \in Sessions, Active(t), node[t] # None, ~Broken(t),
           GoesOn(t, Frame, Done(t), Done(t)')
    PROVE  Chain(t, pipe, Done(t))' /\ Joins(t, pipe, Done(t), Rest(t))'
  <1>1. Chain(t, pipe, Done(t)) /\ Joins(t, pipe, Done(t), Rest(t)) /\ Rest(t)' = Rest(t)
    BY DEF NodeInv, Rest, SentSame
  <1>2. GoesOn(t, Head(pipe), Done(t), Done(t)')
    BY DEF Frame
  <1>3. QED
    BY <1>1, <1>2, ChainTail, JoinsTail

\* What Node takes next continues what it has applied.
LEMMA FrameFollows ==
    ASSUME NodeInv, pipe \in Seq(PFrames), pipe # <<>>,
           NEW t \in Sessions, Active(t), node[t] # None, ~Broken(t), Mutates(t, Frame)
    PROVE  Follows(Frame, Done(t))
  <1>1. /\ Frame = pipe[1] /\ 1 \in DOMAIN pipe /\ DOMAIN pipe = 1..Len(pipe)
    BY TailFacts DEF Frame
  <1>2. IsFirst(t, pipe, 1)
    BY <1>1 DEF IsFirst
  <1>3. QED
    BY <1>1, <1>2 DEF NodeInv, Chain

\* The pipe leads from what Node has applied to what was sent.
LEMMA NodeInvStep ==
    ASSUME IInv, IInv', OrderInv, StepKinds
    PROVE  NodeInv'
  <1>0. /\ TypeOK /\ TypeOK' /\ NodeInv /\ ChainInv /\ AwaitInv /\ KnownInv /\ FreshInv
        /\ pipe \in Seq(PFrames) /\ DOMAIN pipe = 1..Len(pipe) /\ Len(pipe) \in Nat
        /\ replies \in Seq(Replies) /\ DOMAIN replies = 1..Len(replies) /\ Len(replies) \in Nat
        /\ queue \in Seq(QFrames)
    BY TypesHold DEF IInv, OrderInv
  <1>1. CASE Apart
    <2>1. /\ NodeSame /\ SentSame
          /\ \A t \in Sessions : Active(t)' => Active(t) \/ status[t] = "none"
      BY <1>0, <1>1 DEF Apart, SentSame, NodeSame, LinkSame, Falls, Active, TypeOK, SessionType
    <2>2. \A t \in Sessions : node[t] # None => status[t] # "none"
      BY <1>0 DEF KnownInv
    <2>3. \A t \in Sessions : Broken(t)' = Broken(t)
      BY <2>1 DEF NodeSame, Broken
    <2>4. QED
      BY <1>0, <2>1, <2>2, <2>3, SteadyNode DEF NodeSame
  <1>2. ASSUME NEW s \in Sessions, Begins(s) PROVE NodeInv'
    <2>1. /\ NodeSame /\ SentSame
          /\ \A t \in Sessions : Active(t)' => Active(t) \/ status[t] = "none"
      BY <1>0, <1>2
      DEF Begins, StateSame, SentSame, NodeSame, LinkSame, Falls, Active, TypeOK, SessionType
    <2>2. \A t \in Sessions : node[t] # None => status[t] # "none"
      BY <1>0 DEF KnownInv
    <2>3. \A t \in Sessions : Broken(t)' = Broken(t)
      BY <2>1 DEF NodeSame, Broken
    <2>4. QED
      BY <1>0, <2>1, <2>2, <2>3, SteadyNode DEF NodeSame
  <1>3. ASSUME NEW s \in Sessions, GivesUp(s) PROVE NodeInv'
    <2>1. /\ NodeSame /\ SentSame
          /\ \A t \in Sessions : Active(t)' => Active(t) \/ status[t] = "none"
      BY <1>0, <1>3
      DEF GivesUp, SentSame, NodeSame, LinkSame, Falls, Active, TypeOK, SessionType
    <2>2. \A t \in Sessions : node[t] # None => status[t] # "none"
      BY <1>0 DEF KnownInv
    <2>3. \A t \in Sessions : Broken(t)' = Broken(t)
      BY <2>1 DEF NodeSame, Broken
    <2>4. QED
      BY <1>0, <2>1, <2>2, <2>3, SteadyNode DEF NodeSame
  <1>4. ASSUME NEW s \in Sessions, ClearsOld(s) PROVE NodeInv'
    <2>1. /\ NodeSame /\ SentSame
          /\ \A t \in Sessions : Active(t)' => Active(t) \/ status[t] = "none"
      BY <1>0, <1>4
      DEF ClearsOld, SentSame, NodeSame, LinkSame, Falls, Active, TypeOK, SessionType
    <2>2. \A t \in Sessions : node[t] # None => status[t] # "none"
      BY <1>0 DEF KnownInv
    <2>3. \A t \in Sessions : Broken(t)' = Broken(t)
      BY <2>1 DEF NodeSame, Broken
    <2>4. QED
      BY <1>0, <2>1, <2>2, <2>3, SteadyNode DEF NodeSame
  <1>5. ASSUME NEW s \in Sessions, Grows(s) PROVE NodeInv'
    <2>1. /\ NodeSame /\ SentSame
          /\ \A t \in Sessions : Active(t)' => Active(t) \/ status[t] = "none"
      BY <1>0, <1>5
      DEF Grows, StateSame, SentSame, NodeSame, LinkSame, Falls, Active, TypeOK, SessionType
    <2>2. \A t \in Sessions : node[t] # None => status[t] # "none"
      BY <1>0 DEF KnownInv
    <2>3. \A t \in Sessions : Broken(t)' = Broken(t)
      BY <2>1 DEF NodeSame, Broken
    <2>4. QED
      BY <1>0, <2>1, <2>2, <2>3, SteadyNode DEF NodeSame
  <1>6. ASSUME NEW s \in Sessions, NEW c \in QFrames, Commands(s, c) PROVE NodeInv'
    <2>1. /\ NodeSame /\ SentSame
          /\ \A t \in Sessions : Active(t)' => Active(t) \/ status[t] = "none"
      BY <1>0, <1>6
      DEF Commands, SentSame, NodeSame, LinkSame, Falls, Active, TypeOK, SessionType
    <2>2. \A t \in Sessions : node[t] # None => status[t] # "none"
      BY <1>0 DEF KnownInv
    <2>3. \A t \in Sessions : Broken(t)' = Broken(t)
      BY <2>1 DEF NodeSame, Broken
    <2>4. QED
      BY <1>0, <2>1, <2>2, <2>3, SteadyNode DEF NodeSame
  <1>7. ASSUME NEW f \in PFrames, Asks(f) PROVE NodeInv'
    <2>1. /\ pipe' = Append(pipe, f) /\ f.op \in Requests /\ node' = node
          /\ \A t \in Sessions : /\ Active(t)' = Active(t) /\ Broken(t)' = Broken(t)
                                /\ Done(t)' = Done(t) /\ Rest(t)' = Rest(t)
      BY <1>7 DEF Asks, StateSame, SentSame, Active, Broken, Done, Rest
    <2>2. \A t \in Sessions : ~Mutates(t, f)
      BY <2>1, OpsApart DEF Mutates
    <2>3. ASSUME NEW t \in Sessions, Active(t)', node'[t] # None, ~Broken(t)'
          PROVE  Chain(t, pipe, Done(t))' /\ Joins(t, pipe, Done(t), Rest(t))'
      <3>1. Chain(t, pipe, Done(t)) /\ Joins(t, pipe, Done(t), Rest(t))
        BY <1>0, <2>1, <2>3 DEF NodeInv
      <3>2. QED
        BY <1>0, <2>1, <2>2, <3>1, ChainAppend, JoinsOther
    <2>4. QED
      BY <2>3 DEF NodeInv
  <1>8. CASE Skips
    <2>1. /\ NodeSame /\ SentSame
          /\ \A t \in Sessions : Active(t)' => Active(t) \/ status[t] = "none"
      BY <1>0, <1>8 DEF Skips, StateSame, SentSame, NodeSame, Falls, Active, TypeOK, SessionType
    <2>2. \A t \in Sessions : node[t] # None => status[t] # "none"
      BY <1>0 DEF KnownInv
    <2>3. \A t \in Sessions : Broken(t)' = Broken(t)
      BY <2>1 DEF NodeSame, Broken
    <2>4. QED
      BY <1>0, <2>1, <2>2, <2>3, SteadyNode DEF NodeSame
  <1>9. CASE Sends
    <2> DEFINE c == Head(queue)
    <2>1. /\ pipe' = Append(pipe, c) /\ c.op \in Mutations /\ CanProcess(c.s) /\ node' = node
          /\ \A t \in Sessions : Active(t)' = Active(t) /\ Broken(t)' = Broken(t) /\ Done(t)' = Done(t)
      BY <1>9 DEF Sends, StateSame, Active, Broken, Done
    <2>2. /\ c \in QFrames /\ c \in PFrames /\ c.s \in Sessions /\ c = queue[1] /\ 1 \in DOMAIN queue
          /\ DOMAIN queue = 1..Len(queue)
      BY <1>0, <1>9, HeadOfQueue, TypesHold DEF Sends, Takes1, QFrames, PFrames, Frames
    <2>3. Follows(c, Sent(c.s))
      <3>1. IsFirst(c.s, queue, 1)
        BY <2>1, <2>2 DEF IsFirst, Mutates
      <3>2. QED
        BY <1>0, <2>1, <2>2, <3>1 DEF ChainInv, Chain
    <2>4. /\ sentOffset' = [sentOffset EXCEPT ![c.s] = c.upto]
          /\ sentSizes' = [sentSizes EXCEPT ![c.s] = c.sizes]
      BY <1>9 DEF Sends
    <2> HIDE DEF c
    <2>5. ASSUME NEW t \in Sessions, Active(t)', node'[t] # None, ~Broken(t)'
          PROVE  Chain(t, pipe, Done(t))' /\ Joins(t, pipe, Done(t), Rest(t))'
      <3>1. Chain(t, pipe, Done(t)) /\ Joins(t, pipe, Done(t), Rest(t))
        BY <1>0, <2>1, <2>5 DEF NodeInv
      <3>2. CASE t # c.s
        <4>1. ~Mutates(t, c) /\ Rest(t)' = Rest(t)
          BY <1>0, <2>2, <2>4, <3>2 DEF Mutates, Rest, TypeOK, ActorType
        <4>2. QED
          BY <1>0, <2>1, <2>2, <3>1, <4>1, ChainAppend, JoinsOther
      <3>3. CASE t = c.s
        <4>1. Mutates(t, c)
          BY <2>1, <3>3 DEF Mutates
        <4>2. Joins(t, pipe, Done(t), c)
          <5>1. /\ Rest(t).op = "write" /\ Sent(t).upto = Rest(t).from
                /\ Sent(t).sizes = Rest(t).sizes
            BY DEF Rest, Sent
          <5>2. QED
            BY <2>3, <3>1, <3>3, <5>1, JoinsAtRest
        <4>3. Follows(Rest(t)', c)
          <5>1. Rest(t)' = [op |-> "write", from |-> c.upto, sizes |-> c.sizes]
            BY <1>0, <2>2, <2>4, <3>3 DEF Rest, TypeOK, ActorType
          <5>2. QED
            BY <5>1 DEF Follows
        <4>4. QED
          BY <1>0, <2>1, <2>2, <3>1, <4>1, <4>2, <4>3, ChainAppend, JoinsAppended
      <3>4. QED
        BY <3>2, <3>3
    <2>6. QED
      BY <2>5 DEF NodeInv
  <1>10. CASE Answers
    <2>1. /\ pipe' = pipe /\ node' = node /\ SentSame /\ replies # <<>> /\ replies' = Tail(replies)
          /\ Head(replies).op \notin Mutations /\ \A t \in Sessions : Active(t)' => Active(t)
      BY <1>10 DEF Answers, Falls, Active
    <2>2. \A t \in Sessions : ~Broken(t)' => ~Broken(t)
      BY <1>0, <2>1, BrokenTail DEF Mutates
    <2>3. QED
      BY <1>0, <2>1, <2>2, SteadyNode
  <1>11. CASE Pauses
    <2>1. /\ NodeSame /\ SentSame
          /\ \A t \in Sessions : Active(t)' => Active(t) \/ status[t] = "none"
      BY <1>0, <1>11
      DEF Pauses, StateSame, SentSame, NodeSame, Falls, Active, TypeOK, SessionType
    <2>2. \A t \in Sessions : node[t] # None => status[t] # "none"
      BY <1>0 DEF KnownInv
    <2>3. \A t \in Sessions : Broken(t)' = Broken(t)
      BY <2>1 DEF NodeSame, Broken
    <2>4. QED
      BY <1>0, <2>1, <2>2, <2>3, SteadyNode DEF NodeSame
  <1>12. CASE Stores
    <2>1. /\ NodeSame /\ SentSame
          /\ \A t \in Sessions : Active(t)' => Active(t) \/ status[t] = "none"
      BY <1>0, <1>12
      DEF Stores, StateSame, SentSame, NodeSame, Falls, Active, TypeOK, SessionType
    <2>2. \A t \in Sessions : node[t] # None => status[t] # "none"
      BY <1>0 DEF KnownInv
    <2>3. \A t \in Sessions : Broken(t)' = Broken(t)
      BY <2>1 DEF NodeSame, Broken
    <2>4. QED
      BY <1>0, <2>1, <2>2, <2>3, SteadyNode DEF NodeSame
  <1>13. CASE Errs
    <2>1. /\ pipe' = pipe /\ node' = node /\ SentSame /\ replies # <<>> /\ replies' = Tail(replies)
          /\ \A t \in Sessions : Active(t)' => Active(t) /\ ~Mutates(t, Head(replies))
      BY <1>13 DEF Errs, Falls, Active, Mutates
    <2>2. \A t \in Sessions : Active(t)' /\ ~Broken(t)' => ~Broken(t)
      BY <1>0, <2>1, BrokenTail
    <2>3. QED
      BY <1>0, <2>1, <2>2, SteadyNode
  <1>14. CASE Stops
    BY <1>14 DEF Stops, NodeInv, Each
  <1>15. CASE NodeRuns
    <2>1. /\ NodeTakes /\ StateSame /\ SentSame /\ ActorSame /\ Node
          /\ pipe # <<>> /\ pipe' = Tail(pipe)
      BY <1>0, <1>15, NodeTakesOne DEF NodeRuns, NodeTakes
    <2>2. /\ Frame = pipe[1] /\ 1 \in DOMAIN pipe /\ Frame.s \in Sessions /\ Frame \in PFrames
      BY <1>0, <2>1, HeadOfPipe DEF PFrames, Frames
    <2>3. ASSUME NEW t \in Sessions, Active(t)', ~Broken(t)' PROVE Active(t) /\ ~Broken(t)
      <3>1. CASE replies' = replies
        BY <2>1, <2>3, <3>1 DEF Broken, Active, StateSame
      <3>2. ASSUME NEW r \in Replies, replies' = Append(replies, r) PROVE Active(t) /\ ~Broken(t)
        BY <1>0, <2>1, <2>3, <3>2, BrokenAppend DEF Active, StateSame
      <3>3. QED
        BY <2>1, <3>1, <3>2 DEF NodeTakes
    <2>4. ASSUME NEW t \in Sessions, Active(t)', node'[t] # None, ~Broken(t)',
                 node[t] # None => GoesOn(t, Frame, Done(t), Done(t)')
          PROVE  node[t] # None => Chain(t, pipe, Done(t))' /\ Joins(t, pipe, Done(t), Rest(t))'
      BY <1>0, <2>1, <2>3, <2>4, TailNode
    <2>5. ASSUME NEW t \in Sessions, Active(t)', node'[t] # None, ~Broken(t)'
          PROVE  Chain(t, pipe, Done(t))' /\ Joins(t, pipe, Done(t), Rest(t))'
      <3>1. CASE node'[t] = node[t] /\ ~Mutates(t, Frame)
        <4>1. Done(t)' = Done(t)
          BY <3>1 DEF Done
        <4>2. GoesOn(t, Frame, Done(t), Done(t)')
          BY <3>1, <4>1 DEF GoesOn
        <4>3. QED
          BY <2>4, <2>5, <3>1, <4>2
      <3>2. CASE NodeRefuses
        <4>1. node' = node /\ ~Mutates(t, Frame)
          <5>1. PICK r \in Replies : /\ replies' = Append(replies, r) /\ r.op = Frame.op
                                    /\ r.s = Frame.s
            BY <1>0, <3>2, RefusedWith, NothingApplied DEF NodeRefuses
          <5>2. ~Mutates(t, r)
            BY <1>0, <2>5, <5>1, BrokenAppend
          <5>3. QED
            BY <3>2, <5>1, <5>2 DEF NodeRefuses, Mutates
        <4>2. QED
          BY <3>1, <4>1
      <3>3. CASE NodeCreate
        <4>1. Frame.op = "create" /\ node' = [node EXCEPT ![Frame.s] = Nothing] /\ ~Mutates(t, Frame)
          BY <3>3 DEF NodeCreate, Mutates, Mutations
        <4>2. CASE t # Frame.s
          BY <1>0, <2>2, <3>1, <4>1, <4>2 DEF TypeOK, NodeType
        <4>3. CASE t = Frame.s
          <5>1. Len(pipe) = 1 /\ Frame.s = current /\ Asked = "create"
            BY <1>0, <2>2, <4>1 DEF AwaitInv, Requests
          <5>2. Unsent(t)
            BY <1>0, <4>3, <5>1 DEF Asked, FreshInv
          <5>3. pipe' = <<>>
            BY <1>0, <2>1, <5>1, TailKeeps, EmptySeq
          <5>4. node'[t] = Nothing
            BY <1>0, <2>2, <4>1, <4>3 DEF TypeOK, NodeType
          <5>5. Done(t)' = [upto |-> 0, sizes |-> <<>>]
            BY <5>4 DEF Done, Nothing
          <5>6. Rest(t)' = [op |-> "write", from |-> 0, sizes |-> <<>>]
            BY <2>1, <5>2 DEF Rest, SentSame, Unsent
          <5>7. Follows(Rest(t)', Done(t)')
            BY <5>5, <5>6 DEF Follows
          <5>8. QED
            BY <5>3, <5>7, EmptyChain
        <4>4. QED
          BY <4>2, <4>3
      <3>4. CASE NodeWrite \/ NodeResize
        <4>1. Frame.op \in Mutations /\ node[Frame.s] \in Applied
          BY <1>0, <3>4, NodeKnown DEF NodeWrite, NodeResize, Mutations
        <4>2. CASE t # Frame.s
          BY <1>0, <2>2, <3>1, <3>4, <4>2 DEF NodeWrite, NodeResize, Mutates, TypeOK, NodeType
        <4>3. CASE t = Frame.s
          <5>1. node[t] # None
            BY <3>4, <4>3 DEF NodeWrite, NodeResize, Refused, Known
          <5>2. Follows(Frame, Done(t))
            BY <1>0, <2>1, <2>3, <2>5, <4>1, <4>3, <5>1, FrameFollows DEF Mutates
          <5>3. node'[t].offset = Frame.upto /\ node'[t].sizes = Frame.sizes
            <6>1. CASE NodeWrite
              <7>1. node'[t] = [node[t] EXCEPT !.offset = Frame.upto]
                BY <1>0, <2>2, <4>3, <6>1 DEF NodeWrite, TypeOK, NodeType
              <7>2. Frame.op = "write"
                BY <6>1 DEF NodeWrite
              <7>3. Frame.sizes = node[t].sizes
                BY <5>2, <7>2 DEF Follows, Done
              <7>4. QED
                BY <4>1, <4>3, <7>1, <7>3 DEF Applied
            <6>2. CASE NodeResize
              <7>1. node'[t] = [node[t] EXCEPT !.sizes = Append(@, Frame.sizes[Len(Frame.sizes)])]
                BY <1>0, <2>2, <4>3, <6>2 DEF NodeResize, TypeOK, NodeType
              <7>2. Frame.op = "resize"
                BY <6>2 DEF NodeResize
              <7>3. /\ Frame.sizes = Append(node[t].sizes, Frame.sizes[Len(Frame.sizes)])
                    /\ Frame.upto = node[t].offset
                BY <5>2, <7>2 DEF Follows, Done
              <7>4. QED
                BY <4>1, <4>3, <7>1, <7>3 DEF Applied
            <6>3. QED
              BY <3>4, <6>1, <6>2
          <5>4. GoesOn(t, Frame, Done(t), Done(t)')
            BY <4>1, <4>3, <5>3 DEF GoesOn, Done, Mutates
          <5>5. QED
            BY <2>4, <2>5, <5>1, <5>4
        <4>4. QED
          BY <4>2, <4>3
      <3>5. CASE NodeSnapshot
        BY <3>1, <3>5 DEF NodeSnapshot, Mutates, Mutations
      <3>6. CASE NodeDispose
        <4>1. t # Frame.s
          BY <1>0, <2>2, <2>5, <3>6 DEF NodeDispose, TypeOK, NodeType
        <4>2. QED
          BY <1>0, <2>2, <3>1, <3>6, <4>1 DEF NodeDispose, Mutates, TypeOK, NodeType
      <3>7. QED
        BY <2>1, <3>2, <3>3, <3>4, <3>5, <3>6 DEF Node
    <2>6. QED
      BY <2>5 DEF NodeInv
  <1>16. QED
    BY <1>1, <1>2, <1>3, <1>4, <1>5, <1>6, <1>7, <1>8, <1>9, <1>10, <1>11, <1>12, <1>13,
       <1>14, <1>15
    DEF StepKinds

-----------------------------------------------------------------------------
(* Snapshots *)

LEMMA ClientDomains ==
    ASSUME TypeOK
    PROVE  DOMAIN writer = Sessions /\ DOMAIN sizes = Sessions /\ DOMAIN printed = Sessions
  BY DEF TypeOK, ThreadType

\* A step that leaves the answers and what was sent alone.
LEMMA SteadyAnswers ==
    ASSUME AnswersInv, KnownInv, TypeOK, replies' = replies, SentSame,
           \A t \in Sessions : Active(t)' => Active(t) \/ status[t] = "none"
    PROVE  AnswersInv'
  <1>1. \A k \in DOMAIN replies : replies[k].s \in Sessions
    BY TypesHold
  <1>2. ASSUME NEW k \in DOMAIN replies', replies'[k].op = "snapshot", replies'[k].ok,
               Active(replies[k].s)', ~Broken(replies[k].s)'
        PROVE  IsAllSent(replies[k])'
    <2>1. Active(replies[k].s) /\ ~Broken(replies[k].s)
      BY <1>1, <1>2 DEF KnownInv, Broken
    <2>2. IsAllSent(replies[k])
      BY <1>2, <2>1 DEF AnswersInv
    <2>3. QED
      BY <2>2 DEF IsAllSent, SentSame
  <1>3. QED
    BY <1>2 DEF AnswersInv

\* What the actor is about to store stays as good as it was.
Keeps(t) ==
    \/ writer'[t] = "resize"
    \/ sizes'[t] = sizes[t] /\ writer[t] # "resize"

LEMMA SteadyStoring ==
    ASSUME StoringInv, SentSame,
           actor' = "storing" => actor = "storing" /\ current' = current,
           actor' = "storing" => Head(replies') = Head(replies),
           actor' = "storing" => Keeps(current) \/ ClientSame
    PROVE  StoringInv'
  BY DEF StoringInv, IsAllSent, SentSame, Keeps, ClientSame

\* A snapshot that Node answers with is of all that was sent.
LEMMA SnapshotStep ==
    ASSUME IInv, IInv', OrderInv, StepKinds
    PROVE  SnapshotInv'
  <1>0. /\ TypeOK /\ TypeOK' /\ NodeInv /\ AwaitInv /\ KnownInv /\ AnswersInv /\ StoringInv
        /\ CurrentInv /\ StoreInv
        /\ replies \in Seq(Replies) /\ DOMAIN replies = 1..Len(replies) /\ Len(replies) \in Nat
        /\ \A k \in DOMAIN replies : replies[k].s \in Sessions
        /\ DOMAIN writer = Sessions /\ DOMAIN sizes = Sessions
    BY TypesHold, ClientDomains DEF IInv, OrderInv, SnapshotInv
  <1>1. CASE Apart
    <2>1. /\ replies' = replies /\ SentSame
          /\ \A t \in Sessions : Active(t)' => Active(t) \/ status[t] = "none"
      BY <1>0, <1>1
      DEF Apart, ClientSame, SentSame, NodeSame, ActorSame, LinkSame, Falls, Active, TypeOK,
          SessionType
    <2>2. AnswersInv'
      BY <1>0, <2>1, SteadyAnswers
    <2>3. actor = "storing" => /\ current \in Sessions
                               /\ Keeps(current) \/ ClientSame
      BY <1>0, <1>1 DEF Apart, CurrentInv, Keeps, ClientSame, Locked
    <2>4. StoringInv'
      <3>1. actor' = actor /\ current' = current /\ replies' = replies
        BY <1>1 DEF Apart, LinkSame, ActorSame, NodeSame
      <3>2. QED
        BY <1>0, <2>1, <2>3, <3>1, SteadyStoring
    <2>5. QED
      BY <2>2, <2>4 DEF SnapshotInv
  <1>2. ASSUME NEW s \in Sessions, Begins(s) PROVE SnapshotInv'
    <2>1. /\ replies' = replies /\ SentSame
          /\ \A t \in Sessions : Active(t)' => Active(t) \/ status[t] = "none"
      BY <1>0, <1>2
      DEF Begins, StateSame, SentSame, NodeSame, ActorSame, LinkSame, Falls, Active, TypeOK,
          SessionType
    <2>2. AnswersInv'
      BY <1>0, <2>1, SteadyAnswers
    <2>3. actor = "storing" => /\ current \in Sessions
                               /\ Keeps(current) \/ ClientSame
      <3>1. CASE sizes' = sizes /\ writer' = [writer EXCEPT ![s] = IF Active(s) THEN "write" ELSE "idle"]
        BY <1>0, <1>2, <3>1 DEF Begins, CurrentInv, Keeps, ClientSame
      <3>2. CASE /\ writer' = [writer EXCEPT ![s] = "resize"]
                 /\ \E x \in Sizes : sizes' = [sizes EXCEPT ![s] = Append(@, x)]
        BY <1>0, <1>2, <3>2 DEF Begins, CurrentInv, Keeps, ClientSame
      <3>3. QED
        BY <1>2, <3>1, <3>2 DEF Begins
    <2>4. StoringInv'
      <3>1. actor' = actor /\ current' = current /\ replies' = replies
        BY <1>2 DEF Begins, LinkSame, ActorSame, NodeSame
      <3>2. QED
        BY <1>0, <2>1, <2>3, <3>1, SteadyStoring
    <2>5. QED
      BY <2>2, <2>4 DEF SnapshotInv
  <1>3. ASSUME NEW s \in Sessions, GivesUp(s) PROVE SnapshotInv'
    <2>1. /\ replies' = replies /\ SentSame
          /\ \A t \in Sessions : Active(t)' => Active(t) \/ status[t] = "none"
      BY <1>0, <1>3
      DEF GivesUp, SentSame, NodeSame, ActorSame, LinkSame, Falls, Active, TypeOK, SessionType
    <2>2. AnswersInv'
      BY <1>0, <2>1, SteadyAnswers
    <2>3. actor = "storing" => /\ current \in Sessions
                               /\ Keeps(current) \/ ClientSame
      BY <1>0, <1>3 DEF GivesUp, CurrentInv, Keeps, ClientSame, Locked
    <2>4. StoringInv'
      <3>1. actor' = actor /\ current' = current /\ replies' = replies
        BY <1>3 DEF GivesUp, LinkSame, ActorSame, NodeSame
      <3>2. QED
        BY <1>0, <2>1, <2>3, <3>1, SteadyStoring
    <2>5. QED
      BY <2>2, <2>4 DEF SnapshotInv
  <1>4. ASSUME NEW s \in Sessions, ClearsOld(s) PROVE SnapshotInv'
    <2>1. /\ replies' = replies /\ SentSame
          /\ \A t \in Sessions : Active(t)' => Active(t) \/ status[t] = "none"
      BY <1>0, <1>4
      DEF ClearsOld, SentSame, NodeSame, ActorSame, LinkSame, Falls, Active, TypeOK, SessionType
    <2>2. AnswersInv'
      BY <1>0, <2>1, SteadyAnswers
    <2>3. actor = "storing" => /\ current \in Sessions
                               /\ Keeps(current) \/ ClientSame
      BY <1>0, <1>4 DEF ClearsOld, CurrentInv, Keeps, ClientSame, Locked
    <2>4. StoringInv'
      <3>1. actor' = actor /\ current' = current /\ replies' = replies
        BY <1>4 DEF ClearsOld, LinkSame, ActorSame, NodeSame
      <3>2. QED
        BY <1>0, <2>1, <2>3, <3>1, SteadyStoring
    <2>5. QED
      BY <2>2, <2>4 DEF SnapshotInv
  <1>5. ASSUME NEW s \in Sessions, Grows(s) PROVE SnapshotInv'
    <2>1. /\ replies' = replies /\ SentSame
          /\ \A t \in Sessions : Active(t)' => Active(t) \/ status[t] = "none"
      BY <1>0, <1>5
      DEF Grows, StateSame, SentSame, NodeSame, ActorSame, LinkSame, Falls, Active, TypeOK,
          SessionType
    <2>2. AnswersInv'
      BY <1>0, <2>1, SteadyAnswers
    <2>3. actor = "storing" => /\ current \in Sessions
                               /\ Keeps(current) \/ ClientSame
      BY <1>0, <1>5 DEF Grows, CurrentInv, Keeps, ClientSame, Locked
    <2>4. StoringInv'
      <3>1. actor' = actor /\ current' = current /\ replies' = replies
        BY <1>5 DEF Grows, LinkSame, ActorSame, NodeSame
      <3>2. QED
        BY <1>0, <2>1, <2>3, <3>1, SteadyStoring
    <2>5. QED
      BY <2>2, <2>4 DEF SnapshotInv
  <1>6. ASSUME NEW s \in Sessions, NEW c \in QFrames, Commands(s, c) PROVE SnapshotInv'
    <2>1. /\ replies' = replies /\ SentSame
          /\ \A t \in Sessions : Active(t)' => Active(t) \/ status[t] = "none"
      BY <1>0, <1>6
      DEF Commands, SentSame, NodeSame, ActorSame, LinkSame, Falls, Active, TypeOK, SessionType
    <2>2. AnswersInv'
      BY <1>0, <2>1, SteadyAnswers
    <2>3. actor = "storing" => /\ current \in Sessions
                               /\ Keeps(current) \/ ClientSame
      <3>1. CASE writer' = writer
        BY <1>0, <1>6, <3>1 DEF Commands, CurrentInv, Keeps, ClientSame
      <3>2. CASE writer[s] # "resize" /\ writer' = [writer EXCEPT ![s] = "idle"]
        BY <1>0, <1>6, <3>2 DEF Commands, CurrentInv, Keeps, ClientSame
      <3>3. QED
        BY <1>6, <3>1, <3>2 DEF Commands
    <2>4. StoringInv'
      <3>1. actor' = actor /\ current' = current /\ replies' = replies
        BY <1>6 DEF Commands, LinkSame, ActorSame, NodeSame
      <3>2. QED
        BY <1>0, <2>1, <2>3, <3>1, SteadyStoring
    <2>5. QED
      BY <2>2, <2>4 DEF SnapshotInv
  <1>7. ASSUME NEW f \in PFrames, Asks(f) PROVE SnapshotInv'
    <2>1. /\ replies' = replies /\ SentSame
          /\ \A t \in Sessions : Active(t)' => Active(t) \/ status[t] = "none"
      BY <1>0, <1>7
      DEF Asks, ClientSame, StateSame, SentSame, Falls, Active, TypeOK, SessionType
    <2>2. AnswersInv'
      BY <1>0, <2>1, SteadyAnswers
    <2>4. StoringInv'
      BY <1>7 DEF Asks, StoringInv, Waits
    <2>5. QED
      BY <2>2, <2>4 DEF SnapshotInv
  <1>8. CASE Skips
    <2>1. /\ replies' = replies /\ SentSame
          /\ \A t \in Sessions : Active(t)' => Active(t) \/ status[t] = "none"
      BY <1>0, <1>8
      DEF Skips, ClientSame, StateSame, SentSame, NodeSame, Falls, Active, TypeOK, SessionType
    <2>2. AnswersInv'
      BY <1>0, <2>1, SteadyAnswers
    <2>4. StoringInv'
      BY <1>8 DEF Skips, StoringInv, Waits
    <2>5. QED
      BY <2>2, <2>4 DEF SnapshotInv
  <1>9. CASE Sends
    <2>1. \A k \in DOMAIN replies : replies[k].op \notin Requests
      BY <1>0, <1>9, NoRequests DEF Sends, Waits
    <2>2. AnswersInv'
      BY <1>9, <2>1 DEF Sends, AnswersInv, Requests
    <2>3. StoringInv'
      BY <1>9 DEF Sends, StoringInv
    <2>4. QED
      BY <2>2, <2>3 DEF SnapshotInv
  <1>10. CASE Answers
    <2>1. replies' = <<>> /\ ~Waits'
      BY <1>0, <1>10, AnswerIsLast DEF Answers
    <2>2. AnswersInv'
      BY <2>1, EmptySeq DEF AnswersInv
    <2>3. StoringInv'
      BY <2>1 DEF StoringInv, Waits
    <2>4. QED
      BY <2>2, <2>3 DEF SnapshotInv
  <1>11. CASE Pauses
    <2>1. /\ replies' = replies /\ SentSame
          /\ \A t \in Sessions : Active(t)' => Active(t) \/ status[t] = "none"
      BY <1>0, <1>11
      DEF Pauses, ClientSame, StateSame, SentSame, NodeSame, Falls, Active, TypeOK, SessionType
    <2>2. AnswersInv'
      BY <1>0, <2>1, SteadyAnswers
    <2>4. StoringInv'
      BY <1>11 DEF Pauses, StoringInv, Waits
    <2>5. QED
      BY <2>2, <2>4 DEF SnapshotInv
  <1>12. CASE Stores
    <2>1. /\ replies' = replies /\ SentSame /\ status' = status /\ current' = current
          /\ \A t \in Sessions : Active(t)' => Active(t) \/ status[t] = "none"
      BY <1>12 DEF Stores, StateSame, NodeSame, Active
    <2>2. AnswersInv'
      BY <1>0, <2>1, SteadyAnswers
    <2>3. /\ Head(replies) = replies[1] /\ DOMAIN replies = {1} /\ replies[1].s = current
          /\ replies[1].op = "snapshot" /\ replies[1].op \notin Mutations
      BY <1>0, <1>12, AnswerIsLast DEF Stores, Asked, Mutations
    <2>4. Active(current) /\ ~Broken(current)
      BY <1>12, <2>3 DEF Stores, Broken, Mutates
    <2>5. IsAllSent(replies[1])
      BY <1>0, <1>12, <2>3, <2>4 DEF Stores, AnswersInv
    <2>6. StoringInv'
      BY <1>12, <2>1, <2>3, <2>5 DEF Stores, StoringInv, IsAllSent, SentSame, ClientSame
    <2>7. QED
      BY <2>2, <2>6 DEF SnapshotInv
  <1>13. CASE Errs
    <2>1. /\ replies # <<>> /\ replies' = Tail(replies) /\ SentSame
          /\ \A t \in Sessions : Active(t)' => Active(t) /\ ~Mutates(t, Head(replies))
      BY <1>13 DEF Errs, Falls, Active, Mutates
    <2>2. \A t \in Sessions : Active(t)' /\ ~Broken(t)' => ~Broken(t)
      BY <1>0, <2>1, BrokenTail
    <2>3. \A j \in DOMAIN replies' : \E i \in DOMAIN replies : replies'[j] = replies[i]
      BY <1>0, <2>1, TailMembers
    <2>4. ASSUME NEW j \in DOMAIN replies', NEW t \in Sessions, t = replies'[j].s,
                 replies'[j].op = "snapshot", replies'[j].ok, Active(t)', ~Broken(t)'
          PROVE  replies'[j].offset = sentOffset[t] /\ replies'[j].sizes = sentSizes[t]
      <3>1. PICK i \in DOMAIN replies : replies'[j] = replies[i]
        BY <2>3
      <3>2. Active(t) /\ ~Broken(t)
        BY <2>1, <2>2, <2>4
      <3>3. QED
        BY <1>0, <2>4, <3>1, <3>2 DEF AnswersInv, IsAllSent
    <2>5. AnswersInv'
      <3>1. \A j \in DOMAIN replies' : replies'[j].s \in Sessions
        BY <1>0, <2>3
      <3>2. ASSUME NEW j \in DOMAIN replies', replies'[j].op = "snapshot", replies'[j].ok,
                   Active(replies[j].s)', ~Broken(replies[j].s)'
            PROVE  IsAllSent(replies[j])'
        <4>1. /\ replies'[j].offset = sentOffset[replies'[j].s]
              /\ replies'[j].sizes = sentSizes[replies'[j].s]
          BY <2>4, <3>1, <3>2 DEF Active, Broken
        <4>2. QED
          BY <2>1, <4>1 DEF IsAllSent, SentSame
      <3>3. QED
        BY <3>2 DEF AnswersInv
    <2>6. StoringInv'
      BY <1>0, <1>13 DEF Errs, ActorSame, StoreInv, StoringInv
    <2>7. QED
      BY <2>5, <2>6 DEF SnapshotInv
  <1>14. CASE Stops
    <2>1. AnswersInv' /\ StoringInv'
      BY <1>14, EmptySeq DEF Stops, AnswersInv, StoringInv
    <2>2. QED
      BY <2>1 DEF SnapshotInv
  <1>15. CASE NodeRuns
    <2>1. /\ Node /\ NodeTakes /\ StateSame /\ SentSame /\ ActorSame /\ ClientSame /\ pipe # <<>>
      BY <1>0, <1>15, NodeTakesOne DEF NodeRuns, NodeTakes
    <2>2. CASE replies' = replies
      <3>1. AnswersInv'
        BY <1>0, <2>1, <2>2, SteadyAnswers DEF StateSame, Active
      <3>2. StoringInv'
        BY <1>0, <2>1, <2>2, SteadyStoring DEF ActorSame, ClientSame
      <3>3. QED
        BY <3>1, <3>2 DEF SnapshotInv
    <2>3. ASSUME NEW r \in Replies, replies' = Append(replies, r), r.op = Frame.op, r.s = Frame.s,
                 \/ r.op # "snapshot" \/ ~r.ok
                 \/ /\ NodeSnapshot /\ r.offset = node[Frame.s].offset
                    /\ r.sizes = node[Frame.s].sizes
          PROVE  SnapshotInv'
      <3>1. /\ DOMAIN replies' = 1..(Len(replies) + 1) /\ replies'[Len(replies) + 1] = r
            /\ \A i \in 1..Len(replies) : replies'[i] = replies[i]
            /\ replies # <<>> => Head(replies') = Head(replies)
        BY <1>0, <2>3, SameQueueFacts, AppendKeeps
      <3>2. \A t \in Sessions : ~Broken(t)' => ~Broken(t)
        BY <1>0, <2>3, BrokenAppend
      <3>3. \A t \in Sessions : Active(t)' = Active(t)
        BY <2>1 DEF StateSame, Active
      <3>4. ASSUME NEW k \in DOMAIN replies', NEW t \in Sessions, t = replies'[k].s,
                   replies'[k].op = "snapshot", replies'[k].ok, Active(t)', ~Broken(t)'
            PROVE  replies'[k].offset = sentOffset[t] /\ replies'[k].sizes = sentSizes[t]
        <4>1. Active(t) /\ ~Broken(t)
          BY <3>2, <3>3, <3>4
        <4>2. CASE k \in DOMAIN replies
          <5>1. replies'[k] = replies[k]
            BY <1>0, <3>1, <4>2
          <5>2. QED
            BY <1>0, <3>4, <4>1, <4>2, <5>1 DEF AnswersInv, IsAllSent
        <4>3. CASE k = Len(replies) + 1
          <5>1. /\ replies'[k] = r /\ Frame.s = t /\ Frame.op = "snapshot" /\ NodeSnapshot
                /\ r.offset = node[t].offset /\ r.sizes = node[t].sizes
            BY <2>3, <3>1, <3>4, <4>3
          <5>2. node[t] # None
            BY <5>1 DEF NodeSnapshot, Refused, Known
          <5>3. Frame = pipe[1] /\ 1 \in DOMAIN pipe /\ DOMAIN pipe = 1..Len(pipe)
            BY <1>0, <2>1, HeadOfPipe, TypesHold
          <5>4. Len(pipe) = 1
            BY <1>0, <5>1, <5>3 DEF AwaitInv, Requests
          <5>5. \A i \in DOMAIN pipe : ~Mutates(t, pipe[i])
            <6>1. \A i \in DOMAIN pipe : i = 1
              BY <5>3, <5>4
            <6>2. QED
              BY <5>1, <5>3, <6>1 DEF Mutates, Mutations
          <5>6. Follows(Rest(t), Done(t))
            BY <1>0, <4>1, <5>2, <5>5 DEF NodeInv, Joins
          <5>7. QED
            BY <5>1, <5>6 DEF Follows, Rest, Done
        <4>4. QED
          BY <1>0, <3>1, <4>2, <4>3
      <3>5. \A k \in DOMAIN replies' : replies'[k].s \in Sessions
        BY <1>0, <2>3, <3>1 DEF Replies
      <3>6. ASSUME NEW k \in DOMAIN replies', replies'[k].op = "snapshot", replies'[k].ok,
                   Active(replies[k].s)', ~Broken(replies[k].s)'
            PROVE  IsAllSent(replies[k])'
        <4>1. /\ replies'[k].offset = sentOffset[replies'[k].s]
              /\ replies'[k].sizes = sentSizes[replies'[k].s]
          BY <3>4, <3>5, <3>6 DEF Active, Broken
        <4>2. QED
          BY <2>1, <4>1 DEF IsAllSent, SentSame
      <3>7. AnswersInv'
        BY <3>6 DEF AnswersInv
      <3>8. StoringInv'
        BY <1>0, <2>1, <3>1, SteadyStoring DEF ActorSame, ClientSame, StoreInv
      <3>9. QED
        BY <3>7, <3>8 DEF SnapshotInv
    <2>4. CASE NodeRefuses \/ NodeCreate \/ NodeDispose
      <3>1. PICK r \in Replies : /\ replies' = Append(replies, r) /\ r.op = Frame.op /\ r.s = Frame.s
                                 /\ r.op # "snapshot" \/ ~r.ok
        <4>1. CASE NodeRefuses
          BY <1>0, <4>1, RefusedWith, NothingApplied DEF NodeRefuses
        <4>2. CASE NodeCreate
          BY <1>0, <4>2, RefusedWith, NothingApplied DEF NodeCreate
        <4>3. CASE NodeDispose
          BY <1>0, <4>3, RefusedWith, NodeKnown DEF NodeDispose
        <4>4. QED
          BY <2>4, <4>1, <4>2, <4>3
      <3>2. QED
        BY <2>3, <3>1
    <2>5. CASE NodeWrite \/ NodeResize
      BY <2>2, <2>5 DEF NodeWrite, NodeResize
    <2>6. CASE NodeSnapshot
      <3>1. PICK r \in Replies : /\ replies' = Append(replies, r) /\ r.op = Frame.op /\ r.s = Frame.s
                                 /\ r.offset = node[Frame.s].offset /\ r.sizes = node[Frame.s].sizes
        BY <1>0, <2>6, RefusedWith, NodeKnown DEF NodeSnapshot
      <3>2. QED
        BY <2>3, <2>6, <3>1
    <2>7. QED
      BY <2>1, <2>4, <2>5, <2>6 DEF Node
  <1>16. QED
    BY <1>1, <1>2, <1>3, <1>4, <1>5, <1>6, <1>7, <1>8, <1>9, <1>10, <1>11, <1>12, <1>13,
       <1>14, <1>15
    DEF StepKinds

\* A cached snapshot is exact.
LEMMA ExactStep ==
    ASSUME IInv, IInv', OrderInv, StepKinds
    PROVE  ExactInv'
  <1>0. /\ TypeOK /\ TypeOK' /\ ExactInv /\ BoundInv /\ StoringInv /\ CurrentInv /\ StoreInv
        /\ \A t \in Sessions : printed[t] \in Nat /\ sentOffset[t] \in Nat
        /\ \A t \in Sessions : cache[t] # None => cache[t].offset \in Nat
        /\ DOMAIN writer = Sessions /\ DOMAIN sizes = Sessions /\ DOMAIN printed = Sessions
    <2>1. \A t \in Sessions : cache[t] # None => cache[t] \in Applied
      BY DEF IInv, TypeOK, SessionType
    <2>2. QED
      BY <2>1, SizesHold, ClientDomains DEF IInv, OrderInv, Applied, SnapshotInv
  <1>1. CASE Apart
    <2>1. \A t \in Sessions : cache'[t] # None /\ writer'[t] # "resize" =>
             /\ cache'[t] = cache[t] /\ cache[t] # None /\ writer[t] # "resize"
             /\ sizes'[t] = sizes[t] /\ printed'[t] = printed[t]
      BY <1>0, <1>1 DEF Apart, ClientSame, Emptier, TypeOK, SessionType, ThreadType
    <2>2. QED
      BY <1>0, <2>1 DEF ExactInv
  <1>2. ASSUME NEW s \in Sessions, Begins(s) PROVE ExactInv'
    <2>1. \A t \in Sessions : cache'[t] = cache[t]
      BY <1>2 DEF Begins, StateSame
    <2>2. CASE /\ sizes' = sizes /\ printed' = [printed EXCEPT ![s] = @ + 1]
               /\ writer' = [writer EXCEPT ![s] = IF Active(s) THEN "write" ELSE "idle"]
      <3>1. \A t \in Sessions : writer'[t] # "resize" => writer[t] # "resize"
        BY <1>0, <1>2, <2>2 DEF Begins
      <3>2. \A t \in Sessions : printed[t] <= printed'[t] /\ printed'[t] \in Nat
        BY <1>0, <2>2
      <3>3. QED
        BY <1>0, <2>1, <2>2, <3>1, <3>2 DEF ExactInv
    <2>3. CASE /\ printed' = printed /\ writer' = [writer EXCEPT ![s] = "resize"]
               /\ \E x \in Sizes : sizes' = [sizes EXCEPT ![s] = Append(@, x)]
      <3>1. \A t \in Sessions : writer'[t] # "resize" => writer[t] # "resize" /\ sizes'[t] = sizes[t]
        BY <1>0, <2>3
      <3>2. QED
        BY <1>0, <2>1, <2>3, <3>1 DEF ExactInv
    <2>4. QED
      BY <1>2, <2>2, <2>3 DEF Begins
  <1>3. ASSUME NEW s \in Sessions, GivesUp(s) PROVE ExactInv'
    <2>1. \A t \in Sessions : cache'[t] # None /\ writer'[t] # "resize" =>
             /\ cache'[t] = cache[t] /\ cache[t] # None /\ writer[t] # "resize"
             /\ sizes'[t] = sizes[t] /\ printed'[t] = printed[t]
      BY <1>0, <1>3 DEF GivesUp, Emptier, TypeOK, SessionType, ThreadType
    <2>2. QED
      BY <1>0, <2>1 DEF ExactInv
  <1>4. ASSUME NEW s \in Sessions, ClearsOld(s) PROVE ExactInv'
    <2>1. \A t \in Sessions : cache'[t] # None /\ writer'[t] # "resize" =>
             /\ cache'[t] = cache[t] /\ cache[t] # None /\ writer[t] # "resize"
             /\ sizes'[t] = sizes[t] /\ printed'[t] = printed[t]
      BY <1>0, <1>4 DEF ClearsOld, Emptier, TypeOK, SessionType, ThreadType
    <2>2. QED
      BY <1>0, <2>1 DEF ExactInv
  <1>5. ASSUME NEW s \in Sessions, Grows(s) PROVE ExactInv'
    <2>1. \A t \in Sessions : cache'[t] # None /\ writer'[t] # "resize" =>
             /\ cache'[t] = cache[t] /\ cache[t] # None /\ writer[t] # "resize"
             /\ sizes'[t] = sizes[t] /\ printed'[t] = printed[t]
      BY <1>0, <1>5 DEF Grows, StateSame, Emptier, TypeOK, SessionType, ThreadType
    <2>2. QED
      BY <1>0, <2>1 DEF ExactInv
  <1>6. ASSUME NEW s \in Sessions, NEW c \in QFrames, Commands(s, c) PROVE ExactInv'
    <2>1. \A t \in Sessions : writer'[t] # "resize" => writer[t] # "resize"
      BY <1>0, <1>6 DEF Commands, TypeOK, ThreadType
    <2>2. cache' = cache /\ sizes' = sizes /\ printed' = printed
      BY <1>6 DEF Commands
    <2>3. QED
      BY <1>0, <2>1, <2>2 DEF ExactInv
  <1>7. ASSUME NEW f \in PFrames, Asks(f) PROVE ExactInv'
    <2>1. \A t \in Sessions : cache'[t] # None /\ writer'[t] # "resize" =>
             /\ cache'[t] = cache[t] /\ cache[t] # None /\ writer[t] # "resize"
             /\ sizes'[t] = sizes[t] /\ printed'[t] = printed[t]
      BY <1>0, <1>7 DEF Asks, ClientSame, StateSame, Emptier, TypeOK, SessionType, ThreadType
    <2>2. QED
      BY <1>0, <2>1 DEF ExactInv
  <1>8. CASE Skips
    <2>1. \A t \in Sessions : cache'[t] # None /\ writer'[t] # "resize" =>
             /\ cache'[t] = cache[t] /\ cache[t] # None /\ writer[t] # "resize"
             /\ sizes'[t] = sizes[t] /\ printed'[t] = printed[t]
      BY <1>0, <1>8 DEF Skips, ClientSame, StateSame, Emptier, TypeOK, SessionType, ThreadType
    <2>2. QED
      BY <1>0, <2>1 DEF ExactInv
  <1>9. CASE Sends
    <2>1. \A t \in Sessions : cache'[t] # None /\ writer'[t] # "resize" =>
             /\ cache'[t] = cache[t] /\ cache[t] # None /\ writer[t] # "resize"
             /\ sizes'[t] = sizes[t] /\ printed'[t] = printed[t]
      BY <1>0, <1>9 DEF Sends, ClientSame, StateSame, Emptier, TypeOK, SessionType, ThreadType
    <2>2. QED
      BY <1>0, <2>1 DEF ExactInv
  <1>10. CASE Answers
    <2>1. CASE cache' = cache
      BY <1>0, <1>10, <2>1 DEF Answers, ClientSame, ExactInv
    <2>2. CASE /\ actor = "storing"
               /\ cache' = [cache EXCEPT ![current] = [offset |-> Head(replies).offset,
                                                       sizes |-> Head(replies).sizes]]
      <3>1. /\ current \in Sessions /\ IsAllSent(Head(replies)) /\ Head(replies).s = current
            /\ sizes[current] = sentSizes[current] \/ writer[current] = "resize"
        BY <1>0, <2>2 DEF CurrentInv, StoringInv
      <3>2. ClientSame
        BY <1>10 DEF Answers
      <3>3. ASSUME NEW t \in Sessions, cache'[t] # None, writer'[t] # "resize"
            PROVE  /\ cache'[t].sizes = sizes'[t] /\ cache'[t].offset <= printed'[t]
                   /\ Within(sizes'[t], cache'[t].offset)
        <4>1. CASE t = current
          <5>1. cache'[t] = [offset |-> sentOffset[t], sizes |-> sentSizes[t]]
            BY <1>0, <2>2, <3>1, <4>1 DEF IsAllSent, TypeOK, SessionType
          <5>2. sizes[t] = sentSizes[t]
            BY <3>1, <3>2, <3>3, <4>1 DEF ClientSame
          <5>3. QED
            BY <1>0, <3>2, <5>1, <5>2 DEF BoundInv, ClientSame
        <4>2. CASE t # current
          <5>1. cache'[t] = cache[t]
            BY <1>0, <2>2, <4>2 DEF TypeOK, SessionType
          <5>2. QED
            BY <1>0, <3>2, <3>3, <5>1 DEF ExactInv, ClientSame
        <4>3. QED
          BY <4>1, <4>2
      <3>4. QED
        BY <3>3 DEF ExactInv
    <2>3. QED
      BY <1>10, <2>1, <2>2 DEF Answers
  <1>11. CASE Pauses
    <2>1. \A t \in Sessions : cache'[t] # None /\ writer'[t] # "resize" =>
             /\ cache'[t] = cache[t] /\ cache[t] # None /\ writer[t] # "resize"
             /\ sizes'[t] = sizes[t] /\ printed'[t] = printed[t]
      BY <1>0, <1>11 DEF Pauses, ClientSame, StateSame, Emptier, TypeOK, SessionType, ThreadType
    <2>2. QED
      BY <1>0, <2>1 DEF ExactInv
  <1>12. CASE Stores
    <2>1. \A t \in Sessions : cache'[t] # None /\ writer'[t] # "resize" =>
             /\ cache'[t] = cache[t] /\ cache[t] # None /\ writer[t] # "resize"
             /\ sizes'[t] = sizes[t] /\ printed'[t] = printed[t]
      BY <1>0, <1>12 DEF Stores, ClientSame, StateSame, Emptier, TypeOK, SessionType, ThreadType
    <2>2. QED
      BY <1>0, <2>1 DEF ExactInv
  <1>13. CASE Errs
    <2>1. \A t \in Sessions : cache'[t] # None /\ writer'[t] # "resize" =>
             /\ cache'[t] = cache[t] /\ cache[t] # None /\ writer[t] # "resize"
             /\ sizes'[t] = sizes[t] /\ printed'[t] = printed[t]
      BY <1>0, <1>13 DEF Errs, ClientSame, Emptier, TypeOK, SessionType, ThreadType
    <2>2. QED
      BY <1>0, <2>1 DEF ExactInv
  <1>14. CASE Stops
    <2>1. \A t \in Sessions : cache'[t] # None /\ writer'[t] # "resize" =>
             /\ cache'[t] = cache[t] /\ cache[t] # None /\ writer[t] # "resize"
             /\ sizes'[t] = sizes[t] /\ printed'[t] = printed[t]
      BY <1>0, <1>14 DEF Stops, ClientSame, Emptier, TypeOK, SessionType, ThreadType
    <2>2. QED
      BY <1>0, <2>1 DEF ExactInv
  <1>15. CASE NodeRuns
    <2>1. \A t \in Sessions : cache'[t] # None /\ writer'[t] # "resize" =>
             /\ cache'[t] = cache[t] /\ cache[t] # None /\ writer[t] # "resize"
             /\ sizes'[t] = sizes[t] /\ printed'[t] = printed[t]
      BY <1>0, <1>15
      DEF NodeRuns, ClientSame, StateSame, Emptier, TypeOK, SessionType, ThreadType
    <2>2. QED
      BY <1>0, <2>1 DEF ExactInv
  <1>16. QED
    BY <1>1, <1>2, <1>3, <1>4, <1>5, <1>6, <1>7, <1>8, <1>9, <1>10, <1>11, <1>12, <1>13,
       <1>14, <1>15
    DEF StepKinds

-----------------------------------------------------------------------------
(* The theorems *)

LEMMA InitOrder == Init => OrderInv
  <1> SUFFICES ASSUME Init PROVE OrderInv
    OBVIOUS
  <1>1. /\ DOMAIN queue = {} /\ DOMAIN pipe = {} /\ DOMAIN replies = {}
        /\ queue = <<>> /\ pipe = <<>> /\ replies = <<>> /\ actor = "idle"
        /\ \A s \in Sessions : DOMAIN sizes[s] = {} /\ DOMAIN sentSizes[s] = {}
    BY EmptySeq DEF Init, Each
  <1>2. BoundInv /\ GrowthInv
    BY <1>1 DEF Init, Each, BoundInv, GrowthInv, Within
  <1>3. FreshInv /\ AwaitInv /\ KnownInv
    BY <1>1 DEF Init, Each, FreshInv, Unsent, Queued, AwaitInv, KnownInv
  <1>4. ChainInv /\ NodeInv
    BY <1>1 DEF Init, Each, ChainInv, NodeInv, CanProcess, InStep, Queueing, Active
  <1>5. SnapshotInv /\ ExactInv
    BY <1>1 DEF Init, Each, SnapshotInv, AnswersInv, StoringInv, ExactInv
  <1>6. QED
    BY <1>2, <1>3, <1>4, <1>5 DEF OrderInv

LEMMA NextOrder == IInv /\ OrderInv /\ [Next]_vars => IInv' /\ OrderInv'
  <1> SUFFICES ASSUME IInv, OrderInv, [Next]_vars PROVE IInv' /\ OrderInv'
    OBVIOUS
  <1>1. IInv' /\ StepKinds
    BY NextInv, NextKinds
  <1>2. BoundInv' /\ GrowthInv' /\ FreshInv' /\ ChainInv'
    BY <1>1, BoundStep, GrowthStep, FreshStep, ChainStep
  <1>3. AwaitInv' /\ KnownInv' /\ NodeInv' /\ SnapshotInv' /\ ExactInv'
    BY <1>1, AwaitStep, KnownStep, NodeInvStep, SnapshotStep, ExactStep
  <1>4. QED
    BY <1>1, <1>2, <1>3 DEF OrderInv

LEMMA AlwaysInOrder == Spec => [](IInv /\ OrderInv)
  BY InitInv, InitOrder, NextOrder, PTL DEF Spec

\* What a client is served is never of another size and never counts output that Node
\* has not applied: resize clears the snapshot and raises the revision before it queues,
\* and store_snapshot compares both under the lock that clearing it takes.
THEOREM SnapshotsAreExact == Spec => []ServedIsExact
  <1>1. IInv /\ OrderInv => ServedIsExact
    BY DEF OrderInv, ExactInv, Within, ServedIsExact
  <1>2. QED
    BY <1>1, AlwaysInOrder, PTL

\* The order checks of process_command cannot fail for what a session that works has
\* queued: batches continue each other, and a resize closes the batch before it.
THEOREM NothingIsRejected == Spec => []AcceptedInOrder
  <1>1. IInv /\ OrderInv => AcceptedInOrder
    <2> SUFFICES ASSUME IInv, OrderInv, queue # <<>>, Head(queue).op \in {"write", "resize"},
                        CanProcess(Head(queue).s)
                 PROVE  InOrder(Head(queue))
      BY DEF AcceptedInOrder
    <2> DEFINE c == Head(queue)
    <2>1. /\ c = queue[1] /\ 1 \in DOMAIN queue /\ c.s \in Sessions /\ DOMAIN queue = 1..Len(queue)
          /\ sentSizes[c.s] \in Seq(Sizes) /\ c.sizes \in Seq(Sizes) /\ c.op \in Mutations
      BY HeadOfQueue, TypesHold, SizesHold DEF IInv, Mutations
    <2>2. IsFirst(c.s, queue, 1)
      BY <2>1 DEF IsFirst, Mutates
    <2>3. Follows(c, Sent(c.s))
      BY <2>1, <2>2 DEF OrderInv, ChainInv, Chain
    <2>4. CASE c.op = "write"
      BY <2>3, <2>4 DEF InOrder, Follows, Sent
    <2>5. CASE c.op = "resize"
      <3>1. c.from = sentOffset[c.s] /\ c.sizes = Append(sentSizes[c.s], c.sizes[Len(c.sizes)])
        BY <2>3, <2>5 DEF Follows, Sent
      <3>2. c.sizes # <<>> /\ c.sizes[Len(c.sizes)] \in Sizes
        <4>1. SizeInv
          BY DEF IInv
        <4>2. c.sizes # <<>>
          BY <2>1, <2>5, <4>1 DEF SizeInv
        <4>3. Len(c.sizes) \in DOMAIN c.sizes
          BY <2>1, <4>2, EmptySeq, LenProperties
        <4>4. QED
          BY <2>1, <4>2, <4>3
      <3>3. Len(c.sizes) = Len(sentSizes[c.s]) + 1
        BY <2>1, <3>1, <3>2, AppendProperties
      <3>4. QED
        BY <2>5, <3>1, <3>3 DEF InOrder
    <2>6. QED
      BY <2>1, <2>4, <2>5 DEF Mutations
  <1>2. QED
    BY <1>1, AlwaysInOrder, PTL

=============================================================================
