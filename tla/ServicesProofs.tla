---------------------------- MODULE ServicesProofs ----------------------------
(***************************************************************************)
(* What TLAPS proves of the services around the runs.                      *)
(***************************************************************************)
EXTENDS MCServices, FiniteSetTheorems, SequenceTheorems,
        WellFoundedInduction, TLAPS

-----------------------------------------------------------------------------
(* The process of the subprocess backend *)

\* The thread reads the output, or goes, only once the command has exited.
GoneOnlyAfterExit == watch.at \in {"communicate", "done", "canceled"} => Exited

LEMMA ProcessStays == ProcessSpec => [](ProcessTypeOK /\ GoneOnlyAfterExit)
<1> USE DEF ProcessTypeOK, GoneOnlyAfterExit, Exited
<1>1. ProcessInit => ProcessTypeOK /\ GoneOnlyAfterExit
  <2> SUFFICES ASSUME ProcessInit PROVE ProcessTypeOK /\ GoneOnlyAfterExit
    OBVIOUS
  <2>1. 0 \in 0..PipeSize
    BY ProcessAssumption
  <2>2. child \in [state : {"runs", "stopped", "exited"}, left : 0..MaxOutput,
                   pipe : 0..PipeSize, helper : BOOLEAN, stubborn : BOOLEAN, term : BOOLEAN]
    BY <2>1 DEF ProcessInit
  <2>. QED
    BY <2>2 DEF ProcessInit
<1>2. ProcessTypeOK /\ GoneOnlyAfterExit /\ [ProcessNext]_processVars
         => (ProcessTypeOK /\ GoneOnlyAfterExit)'
  <2> SUFFICES ASSUME ProcessTypeOK, GoneOnlyAfterExit, [ProcessNext]_processVars
               PROVE  ProcessTypeOK' /\ GoneOnlyAfterExit'
    OBVIOUS
  <2> USE DEF Watching, Watch
  <2>1. CASE ChildWrites
    <3>1. child.left - 1 \in 0..MaxOutput /\ child.pipe + 1 \in 0..PipeSize
      BY <2>1, ProcessAssumption DEF ChildWrites
    <3>. QED
      BY <2>1, <3>1 DEF ChildWrites
  <2>2. CASE ChildForks \/ ChildExits \/ ChildIsTerminated \/ HelperEnds
    BY <2>2 DEF ChildForks, ChildExits, ChildIsTerminated, HelperEnds
  <2>3. CASE Poll \/ LookForCancel
    BY <2>3 DEF Poll, LookForCancel
  <2>4. CASE LookForControl
    BY <2>4 DEF LookForControl
  <2>5. CASE Terminate \/ Reap \/ Kill
    BY <2>5 DEF Terminate, Reap, Kill
  <2>6. CASE Communicate
    BY <2>6, ProcessAssumption DEF Communicate
  <2>7. CASE AskCancelProcess \/ AskPauseResume
    BY <2>7 DEF AskCancelProcess, AskPauseResume
  <2>8. CASE UNCHANGED processVars
    BY <2>8 DEF processVars
  <2>. QED
    BY <2>1, <2>2, <2>3, <2>4, <2>5, <2>6, <2>7, <2>8 DEF ProcessNext, WatchStep
<1>. QED
  BY <1>1, <1>2, PTL DEF ProcessSpec

-----------------------------------------------------------------------------
(* The embedding queue *)

\* What the definition of kept asks of g, up to m.
Keeps(jobs, set, g, m) ==
    g = [n \in 0..m |-> IF n = 0 THEN <<>>
                        ELSE IF jobs[n] \in set THEN Append(g[n - 1], jobs[n]) ELSE g[n - 1]]

LEMMA KeptExists ==
    ASSUME NEW jobs, NEW set, NEW len \in Nat
    PROVE  \E g : Keeps(jobs, set, g, len)
<1> DEFINE Bad == {m \in Nat : m <= len /\ ~\E g : Keeps(jobs, set, g, m)}
<1>1. CASE Bad = {}
  <2>1. len \notin Bad /\ len <= len
    BY <1>1
  <2>. QED
    BY <2>1
<1>2. CASE Bad # {}
  <2>1. PICK k \in Bad : \A m \in Bad : <<m, k>> \notin OpToRel(<, Nat)
    BY <1>2, WFMin, NatLessThanWellFounded, Zenon
  <2>0. k \in Nat /\ k <= len /\ ~\E g : Keeps(jobs, set, g, k)
    BY <2>1, Zenon
  <2>2. k # 0
    <3> DEFINE g == [n \in 0..0 |-> <<>>]
    <3>1. Keeps(jobs, set, g, 0)
      BY DEF Keeps
    <3>. HIDE DEF g
    <3>. QED
      BY <3>1, <2>0
  <2>3. k \in Nat /\ k - 1 \in Nat /\ k - 1 < k /\ k - 1 <= len
    BY <2>0, <2>2
  <2>4. k - 1 \notin Bad
    BY <2>1, <2>3, Zenon DEF OpToRel
  <2>5. PICK g : Keeps(jobs, set, g, k - 1)
    BY <2>3, <2>4
  <2> DEFINE h == [n \in 0..k |-> IF n < k THEN g[n]
                                  ELSE IF jobs[k] \in set THEN Append(g[k - 1], jobs[k]) ELSE g[k - 1]]
             e == [n \in 0..k |-> IF n = 0 THEN <<>>
                                  ELSE IF jobs[n] \in set THEN Append(h[n - 1], jobs[n]) ELSE h[n - 1]]
  <2>6. ASSUME NEW n \in 0..k PROVE h[n] = e[n]
    <3>1. CASE n = 0
      BY <2>3, <2>5, <3>1 DEF Keeps
    <3>2. CASE n # 0 /\ n < k
      <4>1. n - 1 \in 0..k /\ n - 1 < k /\ n \in 0..k - 1
        BY <2>3, <3>2
      <4>2. h[n] = g[n] /\ h[n - 1] = g[n - 1]
        BY <3>2, <4>1
      <4>3. g[n] = IF jobs[n] \in set THEN Append(g[n - 1], jobs[n]) ELSE g[n - 1]
        BY <2>5, <3>2, <4>1 DEF Keeps
      <4>. HIDE DEF h
      <4>. QED
        BY <3>2, <4>2, <4>3
    <3>3. CASE n = k
      <4>1. k - 1 \in 0..k /\ h[k - 1] = g[k - 1] /\ k \in 0..k
        BY <2>3
      <4>2. h[k] = IF jobs[k] \in set THEN Append(g[k - 1], jobs[k]) ELSE g[k - 1]
        BY <2>3
      <4>. HIDE DEF h
      <4>. QED
        BY <2>2, <3>3, <4>1, <4>2
    <3>. QED
      BY <2>3, <3>1, <3>2, <3>3
  <2>7. h = [n \in 0..k |-> h[n]] /\ e = [n \in 0..k |-> e[n]]
    OBVIOUS
  <2>8. h = e
    <3>. HIDE DEF h, e
    <3>. QED
      BY <2>6, <2>7
  <2>9. Keeps(jobs, set, h, k)
    BY <2>8 DEF Keeps
  <2>. HIDE DEF h
  <2>. QED
    BY <2>0, <2>9
<1>. QED
  BY <1>1, <1>2

LEMMA AmongSteps ==
    ASSUME NEW jobs, Len(jobs) \in Nat, NEW set
    PROVE  \E kept : /\ kept[0] = <<>>
                     /\ \A n \in 1..Len(jobs) :
                           kept[n] = IF jobs[n] \in set THEN Append(kept[n - 1], jobs[n]) ELSE kept[n - 1]
                     /\ Among(jobs, set) = kept[Len(jobs)]
<1> DEFINE kept[n \in 0..Len(jobs)] ==
               IF n = 0 THEN <<>>
               ELSE IF jobs[n] \in set THEN Append(kept[n - 1], jobs[n]) ELSE kept[n - 1]
           k == CHOOSE g : Keeps(jobs, set, g, Len(jobs))
<1>1. Among(jobs, set) = kept[Len(jobs)]
  BY DEF Among
<1>2. kept = k
  BY DEF Keeps
<1>3. Keeps(jobs, set, k, Len(jobs))
  <2>1. \E g : Keeps(jobs, set, g, Len(jobs))
    BY KeptExists
  <2>. QED
    BY <2>1, Zenon
<1>. HIDE DEF kept, k
<1>4. k[0] = <<>>
  BY <1>3 DEF Keeps
<1>5. ASSUME NEW n \in 1..Len(jobs)
      PROVE  k[n] = IF jobs[n] \in set THEN Append(k[n - 1], jobs[n]) ELSE k[n - 1]
  <2>1. \A m \in Nat : \A i \in 1..m : i \in 0..m /\ i # 0
    OBVIOUS
  <2>2. n \in 0..Len(jobs) /\ n # 0
    BY <2>1
  <2>3. k = [i \in 0..Len(jobs) |-> IF i = 0 THEN <<>>
                                    ELSE IF jobs[i] \in set THEN Append(k[i - 1], jobs[i]) ELSE k[i - 1]]
    BY <1>3, Zenon DEF Keeps
  <2>4. k[n] = IF n = 0 THEN <<>>
               ELSE IF jobs[n] \in set THEN Append(k[n - 1], jobs[n]) ELSE k[n - 1]
    BY <2>2, <2>3, Zenon
  <2>. QED
    BY <2>2, <2>4, Zenon
<1>. QED
  BY <1>1, <1>2, <1>4, <1>5

\* x is in the first n of jobs.
InFirst(x, jobs, n) == \E i \in 1..n : jobs[i] = x

\* What kept has of the first n jobs.
KeptOf(jobs, set, T, k, n) ==
    /\ k \in Seq(T)
    /\ \A x : InFirst(x, k, Len(k)) <=> x \in set /\ InFirst(x, jobs, n)
    /\ IsInjective(jobs) => \A i, j \in 1..Len(k) : k[i] = k[j] => i = j

LEMMA OneMoreKept ==
    ASSUME NEW T, NEW jobs \in Seq(T), NEW set, NEW n \in Nat \ {0}, n <= Len(jobs),
           NEW k, KeptOf(jobs, set, T, k, n - 1)
    PROVE  KeptOf(jobs, set, T, IF jobs[n] \in set THEN Append(k, jobs[n]) ELSE k, n)
<1>1. Len(jobs) \in Nat /\ DOMAIN jobs = 1..Len(jobs)
  BY LenProperties
<1>2. \A m \in Nat : n <= m => n \in 1..m
  OBVIOUS
<1>3. n \in 1..Len(jobs) /\ jobs[n] \in T
  BY <1>1, <1>2, ElementOfSeq
<1>4. k \in Seq(T) /\ Len(k) \in Nat
  BY LenProperties DEF KeptOf
<1>5. \A x : InFirst(x, jobs, n) <=> InFirst(x, jobs, n - 1) \/ x = jobs[n]
  <2>1. \A i : i \in 1..n <=> i \in 1..(n - 1) \/ i = n
    OBVIOUS
  <2>. QED
    BY <2>1 DEF InFirst
<1>6. CASE jobs[n] \notin set
  <2>1. \A x : InFirst(x, k, Len(k)) <=> x \in set /\ InFirst(x, jobs, n)
    BY <1>5, <1>6 DEF KeptOf
  <2>. QED
    BY <1>6, <2>1 DEF KeptOf
<1>7. CASE jobs[n] \in set
  <2> DEFINE l == Append(k, jobs[n])
             c == Len(k)
  <2>1. /\ l \in Seq(T) /\ Len(l) = c + 1 /\ \A i \in 1..c : l[i] = k[i]
        /\ l[c + 1] = jobs[n]
    BY <1>3, <1>4, AppendProperties
  <2>2. c \in Nat
    BY <1>4
  <2>. HIDE DEF l, c
  <2>3. \A i : i \in 1..(c + 1) <=> i \in 1..c \/ i = c + 1
    BY <2>2
  <2>4. \A x : InFirst(x, l, c + 1) <=> InFirst(x, k, c) \/ x = jobs[n]
    BY <2>1, <2>3 DEF InFirst
  <2>5. \A x : InFirst(x, k, c) <=> x \in set /\ InFirst(x, jobs, n - 1)
    BY DEF KeptOf, c
  <2>6. \A x : InFirst(x, l, Len(l)) <=> x \in set /\ InFirst(x, jobs, n)
    BY <1>5, <1>7, <2>1, <2>4, <2>5, Zenon
  <2>7. ASSUME IsInjective(jobs), NEW i \in 1..Len(l), NEW j \in 1..Len(l), l[i] = l[j] PROVE i = j
    <3>1. ~InFirst(jobs[n], jobs, n - 1)
      <4> SUFFICES ASSUME NEW h \in 1..(n - 1), jobs[h] = jobs[n] PROVE FALSE
        BY DEF InFirst
      <4>1. \A m \in Nat : n <= m => h \in 1..m /\ h # n
        OBVIOUS
      <4>2. h \in DOMAIN jobs /\ n \in DOMAIN jobs /\ h # n
        BY <1>1, <1>3, <4>1
      <4>. QED
        BY <2>7, <4>2 DEF IsInjective
    <3>2. ~InFirst(jobs[n], k, c)
      BY <2>5, <3>1
    <3>3. \A h \in 1..c : k[h] # jobs[n]
      BY <3>2 DEF InFirst
    <3>4. \A g, h \in 1..c : k[g] = k[h] => g = h
      BY <2>7 DEF KeptOf, c
    <3>. QED
      BY <2>1, <2>3, <2>7, <3>3, <3>4
  <2>. QED
    BY <1>7, <2>1, <2>6, <2>7 DEF KeptOf, l
<1>. QED
  BY <1>6, <1>7

\* What Among keeps: just the jobs that are in the set, each once if it was
\* there once.
LEMMA AmongKeeps ==
    ASSUME NEW T, NEW jobs \in Seq(T), NEW set
    PROVE  /\ Among(jobs, set) \in Seq(T)
           /\ \A x : x \in ToSet(Among(jobs, set)) <=> x \in set /\ x \in ToSet(jobs)
           /\ IsInjective(jobs) => IsInjective(Among(jobs, set))
<1> DEFINE len == Len(jobs)
<1>1. len \in Nat /\ DOMAIN jobs = 1..len
  BY LenProperties
<1>2. PICK kept : /\ kept[0] = <<>>
                  /\ \A n \in 1..Len(jobs) :
                        kept[n] = IF jobs[n] \in set THEN Append(kept[n - 1], jobs[n]) ELSE kept[n - 1]
                  /\ Among(jobs, set) = kept[Len(jobs)]
  BY <1>1, AmongSteps
<1> DEFINE Bad == {n \in Nat : n <= len /\ ~KeptOf(jobs, set, T, kept[n], n)}
<1>3. Bad = {}
  <2> SUFFICES ASSUME Bad # {} PROVE FALSE
    OBVIOUS
  <2>1. PICK k \in Bad : \A m \in Bad : <<m, k>> \notin OpToRel(<, Nat)
    BY WFMin, NatLessThanWellFounded, Zenon
  <2>2. k \in Nat /\ k <= len /\ ~KeptOf(jobs, set, T, kept[k], k)
    BY <2>1, Zenon
  <2>3. KeptOf(jobs, set, T, kept[0], 0)
    <3>1. Len(<<>>) = 0 /\ <<>> \in Seq(T)
      OBVIOUS
    <3>2. \A x, s : ~InFirst(x, s, 0)
      BY DEF InFirst
    <3>. QED
      BY <1>2, <3>1, <3>2 DEF KeptOf
  <2>4. k # 0
    BY <2>2, <2>3
  <2>. HIDE DEF len
  <2>5. k - 1 \in Nat /\ k - 1 < k /\ k - 1 <= len /\ k \in 1..len
    BY <1>1, <2>2, <2>4
  <2>6. k - 1 \notin Bad
    BY <2>1, <2>2, <2>5, Zenon DEF OpToRel
  <2>7. KeptOf(jobs, set, T, kept[k - 1], k - 1)
    BY <2>5, <2>6
  <2>8. KeptOf(jobs, set, T, IF jobs[k] \in set THEN Append(kept[k - 1], jobs[k]) ELSE kept[k - 1], k)
    BY <2>2, <2>4, <2>7, OneMoreKept DEF len
  <2>9. kept[k] = IF jobs[k] \in set THEN Append(kept[k - 1], jobs[k]) ELSE kept[k - 1]
    BY <1>2, <2>5 DEF len
  <2>10. KeptOf(jobs, set, T, kept[k], k)
    BY <2>8, <2>9, Zenon
  <2>. QED
    BY <2>2, <2>10
<1>4. KeptOf(jobs, set, T, kept[len], len)
  <2>. HIDE DEF len
  <2>1. len \notin Bad /\ len <= len
    BY <1>1, <1>3
  <2>. QED
    BY <1>1, <2>1
<1>5. KeptOf(jobs, set, T, Among(jobs, set), len)
  BY <1>2, <1>4
<1>. HIDE DEF len
<1> DEFINE a == Among(jobs, set)
<1>. HIDE DEF a
<1>6. a \in Seq(T) /\ DOMAIN a = 1..Len(a)
  BY <1>5, LenProperties DEF KeptOf, a
<1>7. \A x : x \in ToSet(a) <=> InFirst(x, a, Len(a))
  BY <1>6 DEF ToSet, InFirst
<1>8. \A x : x \in ToSet(jobs) <=> InFirst(x, jobs, len)
  BY <1>1 DEF ToSet, InFirst
<1>9. \A x : x \in ToSet(a) <=> x \in set /\ x \in ToSet(jobs)
  BY <1>5, <1>7, <1>8 DEF KeptOf, a
<1>10. IsInjective(jobs) => IsInjective(a)
  BY <1>5, <1>6 DEF KeptOf, IsInjective, a
<1>. QED
  BY <1>6, <1>9, <1>10 DEF a

DrainLabels == {"idle", "skipping", "read", "store", "mark", "failing", "dead"}
\* Labels of a drain that has no batch.
Batchless == {"idle", "skipping", "dead"}

\* A job has a row just if it is queued, and has one row.
JobsFit(s, q) ==
    /\ s \in [Jobs -> {"none", "pending", "indexed", "failed"}]
    /\ q \in Seq(Jobs) /\ IsInjective(q)
    /\ \A job : job \in ToSet(q) <=> job \in Jobs /\ s[job] # "none"

\* A drain has a batch of jobs that have a row; between its two writes the
\* vector of its job is there.
DrainFits(x, q, v) ==
    /\ x \in [at : DrainLabels, batch : Seq(ToSet(q))]
    /\ x.at \in Batchless <=> x.batch = <<>>
    /\ x.at = "mark" => Head(x.batch)[1] \in v

VectorsFit(s, v) ==
    /\ v \subseteq Sources
    /\ \A job \in Jobs : s[job] = "indexed" => job[1] \in v

EmbeddingSound ==
    /\ JobsFit(jobStatus, queued) /\ VectorsFit(jobStatus, vectors)
    /\ DOMAIN drain = Drains /\ drain = [d \in Drains |-> drain[d]]
    /\ \A d \in Drains : DrainFits(drain[d], queued, vectors)

LEMMA DrainLasts ==
    ASSUME NEW q, NEW r, ToSet(q) \subseteq ToSet(r), NEW v, NEW w, v \subseteq w,
           NEW x, DrainFits(x, q, v)
    PROVE  DrainFits(x, r, w)
<1>1. Seq(ToSet(q)) \subseteq Seq(ToSet(r))
  BY SeqMonotonic
<1>. QED
  BY <1>1 DEF DrainFits

LEMMA DrainMoves ==
    ASSUME EmbeddingSound, NEW d \in Drains, NEW x, drain' = [drain EXCEPT ![d] = x],
           DrainFits(x, queued, vectors'), queued' = queued, JobsFit(jobStatus', queued),
           vectors \subseteq vectors', VectorsFit(jobStatus', vectors')
    PROVE  EmbeddingSound'
<1>1. /\ DOMAIN drain' = Drains /\ drain' = [e \in Drains |-> drain'[e]]
      /\ drain'[d] = x /\ \A e \in Drains \ {d} : drain'[e] = drain[e]
  BY DEF EmbeddingSound
<1>2. \A e \in Drains \ {d} : DrainFits(drain[e], queued, vectors')
  BY DrainLasts DEF EmbeddingSound
<1>3. \A e \in Drains : DrainFits(drain'[e], queued', vectors')
  BY <1>1, <1>2
<1>. QED
  BY <1>1, <1>3 DEF EmbeddingSound

\* Of the jobs to be queued those that have a row are left out.
LEMMA QueueSound ==
    ASSUME EmbeddingSound, NEW new \in Seq(Jobs), IsInjective(new), Queue(new),
           UNCHANGED <<vectors, drain>>
    PROVE  EmbeddingSound'
<1> DEFINE free == {job \in Jobs : jobStatus[job] = "none"}
           fresh == Among(new, free)
<1>1. /\ queued' = queued \o fresh
      /\ jobStatus' = [job \in Jobs |-> IF job \in ToSet(fresh) THEN "pending" ELSE jobStatus[job]]
  BY DEF Queue
<1>2. /\ fresh \in Seq(Jobs) /\ IsInjective(fresh)
      /\ \A x : x \in ToSet(fresh) <=> x \in free /\ x \in ToSet(new)
  BY AmongKeeps
<1>3. \A x \in ToSet(fresh) : x \in Jobs /\ jobStatus[x] = "none"
  BY <1>2
<1>. HIDE DEF fresh
<1>4. JobsFit(jobStatus, queued)
  BY DEF EmbeddingSound
<1>5. /\ queued \in Seq(Jobs) /\ IsInjective(queued)
      /\ jobStatus \in [Jobs -> {"none", "pending", "indexed", "failed"}]
      /\ \A job : job \in ToSet(queued) <=> job \in Jobs /\ jobStatus[job] # "none"
  BY <1>4 DEF JobsFit
<1> DEFINE m == Len(queued)
           n == Len(fresh)
           both == queued \o fresh
<1>6. /\ m \in Nat /\ n \in Nat /\ DOMAIN queued = 1..m /\ DOMAIN fresh = 1..n
  BY <1>2, <1>5, LenProperties
<1>7. /\ both \in Seq(Jobs) /\ Len(both) = m + n /\ DOMAIN both = 1..(m + n)
      /\ \A i \in 1..(m + n) : both[i] = IF i <= m THEN queued[i] ELSE fresh[i - m]
  BY <1>2, <1>5, ConcatProperties, LenProperties
<1>. HIDE DEF m, n, both
<1>8. \A i \in 1..(m + n) : (i \in 1..m /\ i <= m) \/ (~(i <= m) /\ i - m \in 1..n)
  <2>1. \A a, b \in Nat : \A i \in 1..(a + b) : (i \in 1..a /\ i <= a) \/ (~(i <= a) /\ i - a \in 1..b)
    OBVIOUS
  <2>. QED
    BY <1>6, <2>1, Zenon
<1>9. /\ \A i \in 1..m : i \in 1..(m + n) /\ i <= m
      /\ \A i \in 1..n : i + m \in 1..(m + n) /\ ~(i + m <= m) /\ (i + m) - m = i
  BY <1>6
<1>10. ASSUME NEW x PROVE x \in ToSet(both) <=> x \in ToSet(queued) \/ x \in ToSet(fresh)
  <2>1. ASSUME NEW i \in 1..(m + n), both[i] = x PROVE x \in ToSet(queued) \/ x \in ToSet(fresh)
    <3>1. CASE i <= m
      BY <1>6, <1>7, <1>8, <2>1, <3>1 DEF ToSet
    <3>2. CASE ~(i <= m)
      BY <1>6, <1>7, <1>8, <2>1, <3>2 DEF ToSet
    <3>. QED
      BY <3>1, <3>2
  <2>2. ASSUME x \in ToSet(queued) PROVE x \in ToSet(both)
    <3>1. PICK i \in 1..m : queued[i] = x
      BY <1>6, <2>2 DEF ToSet
    <3>. QED
      BY <1>7, <1>9, <3>1 DEF ToSet
  <2>3. ASSUME x \in ToSet(fresh) PROVE x \in ToSet(both)
    <3>1. PICK i \in 1..n : fresh[i] = x
      BY <1>6, <2>3 DEF ToSet
    <3>2. both[i + m] = x /\ i + m \in 1..(m + n)
      BY <1>7, <1>9, <3>1
    <3>. QED
      BY <1>7, <3>2 DEF ToSet
  <2>. QED
    BY <1>7, <2>1, <2>2, <2>3 DEF ToSet
<1>11. IsInjective(both)
  <2> SUFFICES ASSUME NEW i \in 1..(m + n), NEW j \in 1..(m + n), both[i] = both[j] PROVE i = j
    BY <1>7 DEF IsInjective
  <2>1. \A k \in 1..(m + n) :
           \/ k \in DOMAIN queued /\ both[k] = queued[k] /\ k <= m
           \/ k - m \in DOMAIN fresh /\ both[k] = fresh[k - m] /\ ~(k <= m)
    BY <1>6, <1>7, <1>8
  <2>2. \A k \in DOMAIN queued : queued[k] \in ToSet(queued)
    BY DEF ToSet
  <2>3. \A k \in DOMAIN fresh : fresh[k] \in ToSet(fresh)
    BY DEF ToSet
  <2>4. \A k \in DOMAIN queued, l \in DOMAIN fresh : queued[k] # fresh[l]
    BY <1>3, <1>5, <2>2, <2>3
  <2>5. CASE i <= m /\ j <= m
    BY <1>5, <2>1, <2>5 DEF IsInjective
  <2>6. CASE ~(i <= m) /\ ~(j <= m)
    <3>1. i - m = j - m
      BY <1>2, <2>1, <2>6 DEF IsInjective
    <3>. QED
      BY <1>6, <3>1
  <2>7. CASE (i <= m /\ ~(j <= m)) \/ (~(i <= m) /\ j <= m)
    BY <2>1, <2>4, <2>7
  <2>. QED
    BY <2>5, <2>6, <2>7
<1>12. jobStatus' \in [Jobs -> {"none", "pending", "indexed", "failed"}]
  BY <1>1, <1>5
<1>13. \A job \in Jobs : jobStatus'[job] = IF job \in ToSet(fresh) THEN "pending" ELSE jobStatus[job]
  BY <1>1
<1>14. ASSUME NEW job PROVE job \in ToSet(both) <=> job \in Jobs /\ jobStatus'[job] # "none"
  BY <1>3, <1>5, <1>10, <1>13
<1>15. queued' = both
  BY <1>1 DEF both
<1>16. JobsFit(jobStatus', queued')
  BY <1>7, <1>11, <1>12, <1>14, <1>15 DEF JobsFit
<1>17. VectorsFit(jobStatus', vectors')
  BY <1>13 DEF VectorsFit, EmbeddingSound
<1>18. \A d \in Drains : DrainFits(drain[d], queued', vectors')
  <2>1. ToSet(queued) \subseteq ToSet(queued') /\ vectors \subseteq vectors'
    BY <1>10, <1>15
  <2>. QED
    BY <2>1, DrainLasts DEF EmbeddingSound
<1>. QED
  BY <1>16, <1>17, <1>18 DEF EmbeddingSound

LEMMA QueuesSound ==
    ASSUME EmbeddingSound, (\E s \in Sources : AddSource(s)) \/ (\E m \in Models : QueueForModel(m))
    PROVE  EmbeddingSound'
<1>1. ASSUME NEW s \in Sources, AddSource(s) PROVE EmbeddingSound'
  <2> DEFINE new == << <<s, DefaultModel>> >>
  <2>1. new \in Seq(Jobs) /\ IsInjective(new)
    BY EmbeddingAssumption DEF Jobs, IsInjective
  <2>2. Queue(new) /\ UNCHANGED <<vectors, drain>>
    BY <1>1 DEF AddSource
  <2>. HIDE DEF new
  <2>. QED
    BY <2>1, <2>2, QueueSound
<1>2. ASSUME NEW m \in Models, QueueForModel(m) PROVE EmbeddingSound'
  <2> DEFINE old == Among(queued, Sources \X {DefaultModel})
             new == [i \in DOMAIN old |-> <<old[i][1], m>>]
  <2>1. Queue(new) /\ UNCHANGED <<vectors, drain>>
    BY <1>2 DEF QueueForModel
  <2>2. queued \in Seq(Jobs) /\ IsInjective(queued)
    BY DEF EmbeddingSound, JobsFit
  <2>3. /\ old \in Seq(Jobs) /\ IsInjective(old)
        /\ \A x : x \in ToSet(old) <=> x \in Sources \X {DefaultModel} /\ x \in ToSet(queued)
    BY <2>2, AmongKeeps
  <2>. HIDE DEF old
  <2>4. Len(old) \in Nat /\ DOMAIN old = 1..Len(old)
    BY <2>3, LenProperties
  <2>5. \A i \in DOMAIN old : old[i] \in Sources \X {DefaultModel}
    BY <2>3 DEF ToSet
  <2>6. \A i \in DOMAIN old : /\ old[i][1] \in Sources /\ old[i] = <<old[i][1], DefaultModel>>
                              /\ <<old[i][1], m>> \in Jobs
    BY <2>5 DEF Jobs
  <2>7. new \in Seq(Jobs)
    BY <2>4, <2>6
  <2>8. \A i \in DOMAIN old : new[i] = <<old[i][1], m>>
    OBVIOUS
  <2>9. DOMAIN new = DOMAIN old
    OBVIOUS
  <2>. HIDE DEF new
  <2>10. IsInjective(new)
    <3> SUFFICES ASSUME NEW i \in DOMAIN old, NEW j \in DOMAIN old, new[i] = new[j] PROVE i = j
      BY <2>9 DEF IsInjective
    <3>1. old[i][1] = old[j][1]
      BY <2>8
    <3>2. old[i] = old[j]
      BY <2>6, <3>1
    <3>. QED
      BY <2>3, <3>2 DEF IsInjective
  <2>. QED
    BY <2>1, <2>7, <2>10, QueueSound
<1>. QED
  BY <1>1, <1>2

\* A batch is of jobs that have a row.
LEMMA PendingFits ==
    ASSUME EmbeddingSound, NEW filter
    PROVE  Pending(filter) \in Seq(ToSet(queued))
<1> DEFINE pending == Among(queued, {job \in Sources \X filter : jobStatus[job] = "pending"})
           n == IF Len(pending) < Batch THEN Len(pending) ELSE Batch
<1>1. queued \in Seq(Jobs)
  BY DEF EmbeddingSound, JobsFit
<1>2. Len(queued) \in Nat /\ DOMAIN queued = 1..Len(queued)
  BY <1>1, LenProperties
<1>3. queued = [i \in 1..Len(queued) |-> queued[i]]
  BY <1>1
<1>4. \A i \in 1..Len(queued) : queued[i] \in ToSet(queued)
  BY <1>2 DEF ToSet
<1>5. queued \in Seq(ToSet(queued))
  <2>1. queued \in [1..Len(queued) -> ToSet(queued)]
    BY <1>3, <1>4
  <2>. QED
    BY <1>2, <2>1
<1>6. pending \in Seq(ToSet(queued))
  BY <1>5, AmongKeeps
<1>7. Pending(filter) = SubSeq(pending, 1, n)
  BY DEF Pending
<1>. HIDE DEF pending
<1>8. Len(pending) \in Nat /\ Batch \in Nat \ {0}
  BY <1>6, LenProperties, EmbeddingAssumption
<1>9. n \in Nat /\ n <= Len(pending)
  BY <1>8
<1>. HIDE DEF n
<1>10. \A i \in 1..n : pending[i] \in ToSet(queued)
  <2>1. \A a, b \in Nat : a <= b => \A i \in 1..a : i \in 1..b
    OBVIOUS
  <2>. QED
    BY <1>6, <1>8, <1>9, <2>1, ElementOfSeq
<1>. QED
  BY <1>7, <1>9, <1>10, SubSeqProperties

\* What of a drain is left to do.
LEMMA AdvancedFits ==
    ASSUME EmbeddingSound, NEW d \in Drains
    PROVE  \E x : /\ Advanced(d) = [drain EXCEPT ![d] = x] /\ DrainFits(x, queued, vectors)
                  /\ x.at # "mark"
<1> DEFINE b == drain[d].batch
<1>1. DrainFits(NoDrain, queued, vectors) /\ NoDrain.at # "mark"
  BY DEF DrainFits, NoDrain, DrainLabels, Batchless
<1>2. b \in Seq(ToSet(queued))
  BY DEF EmbeddingSound, DrainFits
<1>3. CASE Len(b) > 1
  <2> DEFINE x == [at |-> "read", batch |-> Tail(b)]
  <2>1. Advanced(d) = [drain EXCEPT ![d] = x]
    BY <1>3 DEF Advanced
  <2>. HIDE DEF b
  <2>2. b # <<>> /\ Len(b) \in Nat
    BY <1>2, <1>3, LenProperties
  <2>3. Tail(b) \in Seq(ToSet(queued)) /\ Len(Tail(b)) = Len(b) - 1
    BY <1>2, <2>2, HeadTailProperties
  <2>4. Tail(b) # <<>>
    <3>1. \A n \in Nat : n > 1 => n - 1 # 0
      OBVIOUS
    <3>2. Len(Tail(b)) # 0 /\ Len(<<>>) = 0
      BY <1>3, <2>2, <2>3, <3>1
    <3>. QED
      BY <3>2
  <2>5. DrainFits(x, queued, vectors) /\ x.at # "mark"
    BY <2>3, <2>4 DEF DrainFits, DrainLabels, Batchless
  <2>. HIDE DEF x
  <2>. QED
    BY <2>1, <2>5
<1>4. CASE ~(Len(b) > 1)
  <2>1. Advanced(d) = [drain EXCEPT ![d] = NoDrain]
    BY <1>4 DEF Advanced
  <2>. QED
    BY <1>1, <2>1
<1>. QED
  BY <1>3, <1>4

\* The job at hand has a row, whose status may be written.
LEMMA CurrentFits ==
    ASSUME EmbeddingSound, NEW d \in Drains, drain[d].at \notin Batchless
    PROVE  Current(d) \in Jobs /\ Current(d) \in ToSet(queued)
<1> DEFINE b == drain[d].batch
<1>1. b \in Seq(ToSet(queued)) /\ b # <<>>
  BY DEF EmbeddingSound, DrainFits
<1>2. Current(d) = Head(b)
  BY DEF Current
<1>. HIDE DEF b
<1>3. Head(b) \in ToSet(queued)
  BY <1>1, HeadTailProperties
<1>. QED
  BY <1>2, <1>3 DEF EmbeddingSound, JobsFit

LEMMA StatusWritten ==
    ASSUME EmbeddingSound, NEW job \in Jobs, job \in ToSet(queued), NEW t \in {"indexed", "failed"},
           Statused(job, t)
    PROVE  JobsFit(jobStatus', queued)
<1>1. /\ JobsFit(jobStatus, queued) /\ jobStatus' = [jobStatus EXCEPT ![job] = t]
  BY DEF EmbeddingSound, Statused
<1>2. \A x \in Jobs : jobStatus'[x] = IF x = job THEN t ELSE jobStatus[x]
  BY <1>1 DEF JobsFit
<1>3. jobStatus' \in [Jobs -> {"none", "pending", "indexed", "failed"}]
  BY <1>1 DEF JobsFit
<1>. QED
  BY <1>1, <1>2, <1>3 DEF JobsFit

\* A drain goes to another label, with its batch.
LEMMA DrainRelabeled ==
    ASSUME EmbeddingSound, NEW d \in Drains, NEW l \in DrainLabels, drain' = [drain EXCEPT ![d].at = l],
           l \in Batchless <=> drain[d].at \in Batchless,
           queued' = queued, jobStatus' = jobStatus, vectors \subseteq vectors', vectors' \subseteq Sources,
           l = "mark" => Current(d)[1] \in vectors'
    PROVE  EmbeddingSound'
<1> DEFINE x == drain[d]
           y == [x EXCEPT !.at = l]
<1>1. drain' = [drain EXCEPT ![d] = y] /\ Current(d) = Head(x.batch)
  BY DEF Current
<1>2. DrainFits(x, queued, vectors) /\ (l \in Batchless <=> x.at \in Batchless)
  BY DEF EmbeddingSound
<1>. HIDE DEF x
<1>3. y \in [at : DrainLabels, batch : Seq(ToSet(queued))] /\ y.at = l /\ y.batch = x.batch
  BY <1>2 DEF DrainFits
<1>4. DrainFits(y, queued, vectors')
  BY <1>1, <1>2, <1>3 DEF DrainFits
<1>. HIDE DEF y
<1>5. JobsFit(jobStatus', queued) /\ VectorsFit(jobStatus', vectors')
  BY DEF EmbeddingSound, VectorsFit
<1>. QED
  BY <1>1, <1>4, <1>5, DrainMoves

LEMMA DrainSteps ==
    ASSUME EmbeddingSound, NEW d \in Drains,
           \/ WorkerStep(d) \/ SkipTick(d) \/ TickDies(d) \/ StatementFails(d)
           \/ MarkFailedFails(d) \/ KillDrain(d)
    PROVE  EmbeddingSound'
<1>1. JobsFit(jobStatus, queued) /\ VectorsFit(jobStatus, vectors) /\ vectors \subseteq Sources
  BY DEF EmbeddingSound, VectorsFit
<1>2. CASE TakeBatch(d)
  <2>1. PICK filter : /\ Pending(filter) # <<>>
                      /\ drain' = [drain EXCEPT ![d] = [at |-> "read", batch |-> Pending(filter)]]
    BY <1>2 DEF TakeBatch
  <2> DEFINE b == Pending(filter)
             x == [at |-> "read", batch |-> b]
  <2>2. b \in Seq(ToSet(queued)) /\ b # <<>>
    BY <2>1, PendingFits
  <2>3. queued' = queued /\ jobStatus' = jobStatus /\ vectors' = vectors
    BY <1>2 DEF TakeBatch
  <2>. HIDE DEF b
  <2>4. DrainFits(x, queued, vectors')
    BY <2>2 DEF DrainFits, DrainLabels, Batchless
  <2>5. drain' = [drain EXCEPT ![d] = x]
    BY <2>1 DEF b
  <2>. HIDE DEF x
  <2>. QED
    BY <1>1, <2>3, <2>4, <2>5, DrainMoves
<1>3. CASE TickDies(d) \/ Embed(d) \/ StatementFails(d)
  <2>1. queued' = queued /\ jobStatus' = jobStatus /\ vectors' = vectors
    BY <1>3 DEF TickDies, Embed, StatementFails
  <2>2. \E l \in {"dead", "store", "failing"} :
           /\ drain' = [drain EXCEPT ![d].at = l]
           /\ l \in Batchless <=> drain[d].at \in Batchless
    BY <1>3, Zenon DEF TickDies, Embed, StatementFails, Draining, Batchless
  <2>. QED
    BY <1>1, <2>1, <2>2, DrainRelabeled DEF DrainLabels
<1>4. CASE StoreVector(d)
  <2>1. /\ drain' = [drain EXCEPT ![d].at = "mark"] /\ queued' = queued /\ jobStatus' = jobStatus
        /\ vectors' = vectors \cup {Current(d)[1]} /\ drain[d].at = "store"
    BY <1>4 DEF StoreVector, Draining
  <2>2. Current(d) \in Jobs
    BY <2>1, CurrentFits DEF Batchless
  <2>3. Current(d)[1] \in Sources
    BY <2>2 DEF Jobs
  <2>4. /\ vectors \subseteq vectors' /\ vectors' \subseteq Sources /\ Current(d)[1] \in vectors'
    BY <1>1, <2>1, <2>3
  <2>. QED
    BY <2>1, <2>4, DrainRelabeled DEF DrainLabels, Batchless
<1>5. CASE MarkIndexed(d) \/ MarkFailed(d)
  <2>1. PICK t \in {"indexed", "failed"} : /\ Statused(Current(d), t)
                                           /\ t = "indexed" => drain[d].at = "mark"
    BY <1>5 DEF MarkIndexed, MarkFailed, Draining
  <2>2. /\ drain' = Advanced(d) /\ queued' = queued /\ vectors' = vectors
        /\ drain[d].at \in {"mark", "failing"}
    BY <1>5 DEF MarkIndexed, MarkFailed, Draining
  <2>3. Current(d) \in Jobs /\ Current(d) \in ToSet(queued)
    BY <2>2, CurrentFits DEF Batchless
  <2>4. JobsFit(jobStatus', queued)
    BY <2>1, <2>3, StatusWritten
  <2>5. drain[d].at = "mark" => Current(d)[1] \in vectors
    BY DEF EmbeddingSound, DrainFits, Current
  <2>6. \A job \in Jobs : jobStatus'[job] = IF job = Current(d) THEN t ELSE jobStatus[job]
    BY <1>1, <2>1, <2>3 DEF Statused, JobsFit
  <2>7. VectorsFit(jobStatus', vectors')
    BY <1>1, <2>1, <2>2, <2>5, <2>6 DEF VectorsFit
  <2>8. PICK x : Advanced(d) = [drain EXCEPT ![d] = x] /\ DrainFits(x, queued, vectors)
    BY AdvancedFits
  <2>. QED
    BY <2>2, <2>4, <2>7, <2>8, DrainMoves
<1>6. CASE MarkFailedFails(d) \/ KillDrain(d)
  <2>1. /\ drain' = Advanced(d) \/ drain' = [drain EXCEPT ![d] = NoDrain]
        /\ queued' = queued /\ jobStatus' = jobStatus /\ vectors' = vectors
    BY <1>6, Zenon DEF MarkFailedFails, KillDrain
  <2>2. DrainFits(NoDrain, queued, vectors)
    BY DEF DrainFits, NoDrain, DrainLabels, Batchless
  <2>3. \E x : drain' = [drain EXCEPT ![d] = x] /\ DrainFits(x, queued, vectors)
    BY <2>1, <2>2, AdvancedFits
  <2>. QED
    BY <1>1, <2>1, <2>3, DrainMoves
<1>7. CASE SkipTick(d)
  BY <1>7 DEF SkipTick, embeddingVars, EmbeddingSound
<1>. QED
  BY <1>2, <1>3, <1>4, <1>5, <1>6, <1>7 DEF WorkerStep

LEMMA DrainStays == EmbeddingSpec => []EmbeddingSound
<1>1. EmbeddingInit => EmbeddingSound
  <2> SUFFICES ASSUME EmbeddingInit PROVE EmbeddingSound
    OBVIOUS
  <2>1. ToSet(<<>>) = {} /\ <<>> \in Seq(Jobs) /\ IsInjective(<<>>)
    BY DEF ToSet, IsInjective
  <2>2. DrainFits(NoDrain, queued, vectors)
    BY DEF DrainFits, NoDrain, DrainLabels, Batchless
  <2>3. JobsFit(jobStatus, queued) /\ VectorsFit(jobStatus, vectors)
    BY <2>1 DEF EmbeddingInit, JobsFit, VectorsFit
  <2>4. DrainFits(NoProvider, queued, vectors)
    BY DEF DrainFits, NoProvider, DrainLabels, Batchless
  <2>5. PICK unprovided : drain = [d \in Drains |-> IF d \in unprovided THEN NoProvider ELSE NoDrain]
    BY DEF EmbeddingInit
  <2>6. DOMAIN drain = Drains /\ drain = [d \in Drains |-> drain[d]]
    BY <2>5
  <2>7. \A d \in Drains : drain[d] \in {NoProvider, NoDrain}
    BY <2>5
  <2>. QED
    BY <2>2, <2>3, <2>4, <2>6, <2>7 DEF EmbeddingSound
<1>2. EmbeddingSound /\ [EmbeddingNext]_embeddingVars => EmbeddingSound'
  <2> SUFFICES ASSUME EmbeddingSound, [EmbeddingNext]_embeddingVars PROVE EmbeddingSound'
    OBVIOUS
  <2>1. CASE UNCHANGED embeddingVars
    BY <2>1 DEF embeddingVars, EmbeddingSound
  <2>2. CASE EmbeddingNext
    <3>1. Commands \subseteq Drains
      BY DEF Drains
    <3>. QED
      BY <2>2, <3>1, QueuesSound, DrainSteps DEF EmbeddingNext
  <2>. QED
    BY <2>1, <2>2
<1>. QED
  BY <1>1, <1>2, PTL DEF EmbeddingSpec

\* A job that reads indexed has a vector, whatever drain wrote which of the two
\* first, in any number of drains, batches and models (scheduler.py:207-241).
THEOREM IndexedIsFound == EmbeddingSpec => []IndexedHasVector
<1>1. EmbeddingSound => IndexedHasVector
  BY DEF EmbeddingSound, VectorsFit, IndexedHasVector
<1>. QED
  BY <1>1, DrainStays, PTL

\* A job has one row from when it is queued on, however often a source and a
\* model are queued, and every batch is of such jobs (db.py:3166-3204).
THEOREM QueueTyped == EmbeddingSpec => []EmbeddingTypeOK
<1>1. EmbeddingSound => EmbeddingTypeOK
  <2> SUFFICES ASSUME EmbeddingSound PROVE EmbeddingTypeOK
    OBVIOUS
  <2>1. jobStatus \in [Jobs -> {"none", "pending", "indexed", "failed"}] /\ IsInjective(queued)
    BY DEF EmbeddingSound, JobsFit
  <2>2. ToSet(queued) = {job \in Jobs : jobStatus[job] # "none"}
    BY DEF EmbeddingSound, JobsFit
  <2>3. vectors \subseteq Sources
    BY DEF EmbeddingSound, VectorsFit
  <2>4. ASSUME NEW d \in Drains
        PROVE  /\ drain[d].at \in {"idle", "skipping", "read", "store", "mark", "failing", "dead"}
               /\ drain[d].at \in {"idle", "skipping", "dead"} <=> drain[d].batch = <<>>
               /\ ToSet(drain[d].batch) \subseteq Jobs
    <3> DEFINE b == drain[d].batch
    <3>1. DrainFits(drain[d], queued, vectors)
      BY DEF EmbeddingSound
    <3>2. b \in Seq(ToSet(queued))
      BY <3>1 DEF DrainFits
    <3>3. \A i \in DOMAIN b : b[i] \in ToSet(queued)
      <4>. HIDE DEF b
      <4>. QED
        BY <3>2, LenProperties, ElementOfSeq
    <3>4. ToSet(b) \subseteq Jobs
      BY <2>2, <3>3 DEF ToSet
    <3>. QED
      BY <3>1, <3>4 DEF DrainFits, DrainLabels, Batchless
  <2>. QED
    BY <2>1, <2>2, <2>3, <2>4 DEF EmbeddingTypeOK
<1>. QED
  BY <1>1, DrainStays, PTL

-----------------------------------------------------------------------------
(* The MCP servers *)

Messages == {"note", "error"} \cup Methods
Processes == [up : BOOLEAN, asked : Seq(Methods), pipe : Seq(Messages), buffer : Seq(Messages)]
Connections == [at : {"none", "degraded", "connected"} \cup Methods,
                tools : {"none"} \cup Messages]
Settled(c) == c.at \in {"degraded", "connected"}

\* Two requests are sent, and what is under way are those, their answers and
\* the notifications.
Traffic(x) == Len(x.asked) + Len(x.pipe) + Len(x.buffer)
Fits(x, c, n) ==
    /\ c.at = "none" => x = NoServer
    /\ c.at = "initialize" => Traffic(x) <= 1 + n
    /\ Traffic(x) <= 2 + n

\* One request or its answer is under way, and nothing else.
Asks(x, method) ==
    /\ x.buffer = <<>>
    /\ \/ x.asked = <<method>> /\ x.pipe = <<>>
       \/ x.asked = <<>> /\ x.pipe \in {<<method>>, <<"error">>}
Conversation(x, c) ==
    /\ c.at \in Methods => Asks(x, c.at)
    /\ c.at = "connected" => c.tools \in {"tools/list", "error"}

\* The servers are started one after the other, and stopped together.
InTurn ==
    /\ manager.at = "start" =>
          /\ manager.next \in McpServerIds
          /\ \A s \in McpServerIds : /\ s < manager.next => Settled(conn[s])
                                     /\ s > manager.next => conn[s].at = "none"
    /\ manager.at = "report" => \A s \in McpServerIds : Settled(conn[s])
    /\ manager.at = "idle" => \A s \in McpServerIds :
          conn[s].at \notin Methods /\ (server[s].up => conn[s].at = "degraded")

McpShaped ==
    /\ server \in [McpServerIds -> Processes]
    /\ conn \in [McpServerIds -> Connections]
    /\ manager \in [at : {"idle", "start", "report"}, next : 1..NumServers + 1]
    /\ notes \in 0..MaxNotes
    /\ disturbed \subseteq McpServerIds

McpSound ==
    /\ McpShaped /\ InTurn
    /\ \A s \in McpServerIds : Fits(server[s], conn[s], notes)
    /\ \A s \in McpServerIds \ disturbed : Conversation(server[s], conn[s])

LEMMA TrafficIsCounted ==
    ASSUME NEW x \in Processes
    PROVE  /\ Len(x.asked) \in Nat /\ Len(x.pipe) \in Nat /\ Len(x.buffer) \in Nat
           /\ Traffic(x) \in Nat
<1>1. x.asked \in Seq(Methods) /\ x.pipe \in Seq(Messages) /\ x.buffer \in Seq(Messages)
  BY DEF Processes
<1>2. Len(x.asked) \in Nat /\ Len(x.pipe) \in Nat /\ Len(x.buffer) \in Nat
  BY <1>1, LenProperties
<1>3. ASSUME NEW a \in Nat, NEW b \in Nat, NEW c \in Nat PROVE a + b + c \in Nat
  OBVIOUS
<1>. QED
  BY <1>2, <1>3, Zenon DEF Traffic

LEMMA McpMoves ==
    ASSUME McpSound, NEW s \in McpServerIds, NEW x \in Processes, NEW c \in Connections,
           server' = [server EXCEPT ![s] = x], conn' = [conn EXCEPT ![s] = c],
           notes' \in notes..MaxNotes,
           disturbed' \subseteq McpServerIds, disturbed \subseteq disturbed',
           Fits(x, c, notes'), s \in disturbed' \/ Conversation(x, c),
           manager' \in [at : {"idle", "start", "report"}, next : 1..NumServers + 1], InTurn'
    PROVE  McpSound'
<1>1. McpShaped'
  BY McpAssumption DEF McpSound, McpShaped
<1>2. ASSUME NEW r \in McpServerIds PROVE Fits(server'[r], conn'[r], notes')
  <2>1. CASE r = s
    BY <2>1 DEF McpSound, McpShaped
  <2>2. CASE r # s
    <3>1. server'[r] = server[r] /\ conn'[r] = conn[r] /\ server[r] \in Processes
      BY <2>2 DEF McpSound, McpShaped
    <3>2. Fits(server[r], conn[r], notes)
      BY DEF McpSound
    <3>3. Traffic(server[r]) \in Nat
      BY <3>1, TrafficIsCounted
    <3>4. notes \in Nat /\ notes' \in Nat /\ notes <= notes'
      BY McpAssumption DEF McpSound, McpShaped
    <3>. QED
      BY <3>1, <3>2, <3>3, <3>4 DEF Fits
  <2>. QED
    BY <2>1, <2>2
<1>3. ASSUME NEW r \in McpServerIds \ disturbed' PROVE Conversation(server'[r], conn'[r])
  <2>1. CASE r = s
    <3>1. server'[r] = x /\ conn'[r] = c
      BY <2>1 DEF McpSound, McpShaped
    <3>. QED
      BY <2>1, <3>1
  <2>2. CASE r # s
    <3>1. server'[r] = server[r] /\ conn'[r] = conn[r] /\ r \notin disturbed
      BY <2>2 DEF McpSound, McpShaped
    <3>. QED
      BY <3>1 DEF McpSound
  <2>. QED
    BY <2>1, <2>2
<1>. QED
  BY <1>1, <1>2, <1>3 DEF McpSound

\* The manager waits for the server it starts, or another server does something.
LEMMA ManagerWaits ==
    ASSUME McpSound, NEW s \in McpServerIds, NEW x, NEW c,
           server' = [server EXCEPT ![s] = x], conn' = [conn EXCEPT ![s] = c], UNCHANGED manager,
           \/ Starting(s)
           \/ c = conn[s] /\ (x.up => server[s].up)
    PROVE  InTurn'
<1>1. \A r \in McpServerIds : r # s => conn'[r] = conn[r] /\ server'[r] = server[r]
  BY DEF McpSound, McpShaped
<1>2. conn'[s] = c /\ server'[s] = x
  BY DEF McpSound, McpShaped
<1>3. CASE Starting(s)
  <2>1. manager.at = "start" /\ manager.next = s /\ s \in Nat
    BY <1>3, McpAssumption DEF Starting, McpServerIds
  <2>. QED
    BY <1>1, <2>1 DEF McpSound, InTurn, McpServerIds
<1>4. CASE c = conn[s] /\ (x.up => server[s].up)
  BY <1>1, <1>2, <1>4 DEF McpSound, InTurn
<1>. QED
  BY <1>3, <1>4

\* It goes on to the next one.
LEMMA ManagerProceeds ==
    ASSUME McpSound, NEW s \in McpServerIds, NEW c,
           conn' = [conn EXCEPT ![s] = c], Starting(s), Settled(c), Proceed(s)
    PROVE  /\ manager' \in [at : {"idle", "start", "report"}, next : 1..NumServers + 1]
           /\ InTurn'
<1>1. \A r \in McpServerIds : r # s => conn'[r] = conn[r]
  BY DEF McpSound, McpShaped
<1>2. conn'[s] = c
  BY DEF McpSound, McpShaped
<1>3. manager.at = "start" /\ manager.next = s /\ s \in 1..NumServers /\ NumServers \in Nat
  BY McpAssumption DEF Starting, McpServerIds
<1>4. \A r \in McpServerIds : /\ r < s => Settled(conn[r])
                              /\ r > s => conn[r].at = "none"
  BY <1>3 DEF McpSound, InTurn
<1>5. CASE s < NumServers
  <2>1. manager' = [at |-> "start", next |-> s + 1]
    BY <1>5 DEF Proceed
  <2>2. s + 1 \in 1..NumServers
    BY <1>3, <1>5
  <2>3. \A r \in McpServerIds : /\ r < s + 1 => Settled(conn'[r])
                                /\ r > s + 1 => conn'[r].at = "none"
    BY <1>1, <1>2, <1>3, <1>4 DEF McpServerIds
  <2>4. manager' \in [at : {"idle", "start", "report"}, next : 1..NumServers + 1]
    BY <1>3, <2>1, <2>2
  <2>5. manager'.at = "start" /\ manager'.next = s + 1
    BY <2>1
  <2>6. InTurn'
    BY <2>2, <2>3, <2>5 DEF InTurn, McpServerIds
  <2>. QED
    BY <2>4, <2>6
<1>6. CASE ~(s < NumServers)
  <2>1. manager' = [at |-> "report", next |-> 1]
    BY <1>6 DEF Proceed
  <2>2. \A r \in McpServerIds : Settled(conn'[r])
    BY <1>1, <1>2, <1>3, <1>4, <1>6 DEF McpServerIds
  <2>3. 1 \in 1..NumServers + 1
    BY <1>3
  <2>4. manager' \in [at : {"idle", "start", "report"}, next : 1..NumServers + 1]
    BY <2>1, <2>3
  <2>5. InTurn'
    BY <2>1, <2>2 DEF InTurn
  <2>. QED
    BY <2>4, <2>5
<1>. QED
  BY <1>5, <1>6

\* A step of one server that leaves the manager where it is.
LEMMA ServerSteps ==
    ASSUME McpSound, NEW s \in McpServerIds, NEW x \in Processes,
           server' = [server EXCEPT ![s] = x], UNCHANGED <<conn, manager>>,
           x.up => server[s].up,
           notes' \in notes..MaxNotes,
           disturbed' \subseteq McpServerIds, disturbed \subseteq disturbed',
           Fits(x, conn[s], notes'), s \in disturbed' \/ Conversation(x, conn[s])
    PROVE  McpSound'
<1>1. conn' = [conn EXCEPT ![s] = conn[s]] /\ conn[s] \in Connections
  BY DEF McpSound, McpShaped
<1>2. manager' \in [at : {"idle", "start", "report"}, next : 1..NumServers + 1]
  BY DEF McpSound, McpShaped
<1>3. InTurn'
  BY <1>1, ManagerWaits
<1>. QED
  BY <1>1, <1>2, <1>3, McpMoves

\* A start that ends, and leaves its process as it is.
LEMMA StartEnds ==
    ASSUME McpSound, NEW s \in McpServerIds, NEW how \in {"degraded", "connected"},
           Starting(s), Ends(s, how), UNCHANGED <<server, notes>>,
           disturbed' \subseteq McpServerIds, disturbed \subseteq disturbed',
           s \in disturbed' \/ how = "degraded"
    PROVE  McpSound'
<1> DEFINE x == server[s]
           c == [conn[s] EXCEPT !.at = how]
<1>1. x \in Processes /\ conn[s] \in Connections
  BY DEF McpSound, McpShaped
<1>2. c \in Connections /\ c.at = how
  BY <1>1 DEF Connections
<1>3. server' = [server EXCEPT ![s] = x]
  BY DEF McpSound, McpShaped
<1>4. conn' = [conn EXCEPT ![s] = c] /\ Proceed(s)
  BY DEF Ends
<1>5. Fits(x, conn[s], notes)
  BY DEF McpSound
<1>6. notes \in Nat /\ notes' \in notes..MaxNotes
  BY McpAssumption DEF McpSound, McpShaped
<1>. HIDE DEF x, c
<1>7. Fits(x, c, notes')
  BY <1>1, <1>2, <1>5, <1>6, TrafficIsCounted DEF Fits
<1>8. s \in disturbed' \/ Conversation(x, c)
  BY <1>2 DEF Conversation, Methods
<1>9. Settled(c)
  BY <1>2 DEF Settled
<1>10. /\ manager' \in [at : {"idle", "start", "report"}, next : 1..NumServers + 1]
       /\ InTurn'
  BY <1>4, <1>9, ManagerProceeds
<1>. QED
  BY <1>1, <1>2, <1>3, <1>4, <1>6, <1>7, <1>8, <1>10, McpMoves

LEMMA McpStarts ==
    ASSUME McpSound, NEW s \in McpServerIds, StartServer(s)
    PROVE  McpSound'
<1>1. Starting(s) /\ conn[s].at = "none" /\ notes' = notes /\ disturbed' = disturbed
  BY DEF StartServer
<1>2. conn[s] \in Connections /\ disturbed \subseteq McpServerIds
  BY DEF McpSound, McpShaped
<1>3. notes \in Nat /\ notes' \in notes..MaxNotes
  BY <1>1, McpAssumption DEF McpSound, McpShaped
<1>4. CASE server' = [server EXCEPT ![s] = [NoServer EXCEPT !.up = TRUE,
                                                          !.asked = <<"initialize">>]]
           /\ conn' = [conn EXCEPT ![s].at = "initialize"] /\ UNCHANGED manager
  <2> DEFINE x == [NoServer EXCEPT !.up = TRUE, !.asked = <<"initialize">>]
             c == [conn[s] EXCEPT !.at = "initialize"]
  <2>1. x \in Processes /\ x.asked = <<"initialize">> /\ x.pipe = <<>> /\ x.buffer = <<>>
    <3>1. /\ NoServer \in Processes
          /\ NoServer.asked = <<>> /\ NoServer.pipe = <<>> /\ NoServer.buffer = <<>>
      BY DEF NoServer, Processes
    <3>2. <<"initialize">> \in Seq(Methods)
      BY DEF Methods
    <3>. QED
      BY <3>1, <3>2 DEF Processes
  <2>2. c \in Connections /\ c.at = "initialize"
    BY <1>2 DEF Connections, Methods
  <2>3. server' = [server EXCEPT ![s] = x]
    BY <1>4
  <2>4. conn' = [conn EXCEPT ![s] = c]
    BY <1>4
  <2>. HIDE DEF x, c
  <2>5. Traffic(x) = 1
    BY <2>1 DEF Traffic
  <2>6. Fits(x, c, notes')
    BY <1>1, <1>3, <2>2, <2>5 DEF Fits
  <2>7. Conversation(x, c)
    BY <2>1, <2>2 DEF Conversation, Asks
  <2>8. InTurn'
    BY <1>1, <1>4, <2>3, <2>4, ManagerWaits
  <2>9. manager' \in [at : {"idle", "start", "report"}, next : 1..NumServers + 1]
    BY <1>4 DEF McpSound, McpShaped
  <2>. QED
    BY <1>1, <1>2, <1>3, <2>1, <2>2, <2>3, <2>4, <2>6, <2>7, <2>8, <2>9, McpMoves
<1>5. CASE Ends(s, "degraded") /\ UNCHANGED server
  BY <1>1, <1>2, <1>5, StartEnds
<1>. QED
  BY <1>4, <1>5, Zenon DEF StartServer

LEMMA McpHearsNothing ==
    ASSUME McpSound, NEW s \in McpServerIds, NoAnswer(s)
    PROVE  McpSound'
<1>1. Starting(s) /\ UNCHANGED <<server, notes>> /\ disturbed' = disturbed \cup {s}
  BY DEF NoAnswer, Awaiting
<1>2. \E how \in {"degraded", "connected"} : Ends(s, how)
  BY DEF NoAnswer
<1>3. disturbed' \subseteq McpServerIds /\ s \in disturbed'
  BY <1>1 DEF McpSound, McpShaped
<1>. QED
  BY <1>1, <1>2, <1>3, StartEnds

\* What comes out of the read buffer and the pipe together.
LEMMA MessagesRead ==
    ASSUME NEW x \in Processes, x.buffer \o x.pipe # <<>>
    PROVE  /\ Head(x.buffer \o x.pipe) \in Messages
           /\ Tail(x.buffer \o x.pipe) \in Seq(Messages)
           /\ Len(Tail(x.buffer \o x.pipe)) = (Len(x.buffer) + Len(x.pipe)) - 1
<1>1. x.buffer \in Seq(Messages) /\ x.pipe \in Seq(Messages)
  BY DEF Processes
<1> DEFINE all == x.buffer \o x.pipe
<1>2. all \in Seq(Messages) /\ Len(all) = Len(x.buffer) + Len(x.pipe)
  BY <1>1, ConcatProperties
<1>. HIDE DEF all
<1>3. all # <<>>
  BY DEF all
<1>4. Head(all) \in Messages /\ Tail(all) \in Seq(Messages) /\ Len(Tail(all)) = Len(all) - 1
  BY <1>2, <1>3, HeadTailProperties
<1>5. Len(Tail(all)) = (Len(x.buffer) + Len(x.pipe)) - 1
  BY <1>2, <1>4, Zenon
<1>. QED
  BY <1>4, <1>5, Zenon DEF all

\* Writing the fields of a server one by one, or as one record.
LEMMA BufferWritten ==
    ASSUME server \in [McpServerIds -> Processes], NEW s \in McpServerIds,
           NEW rest \in Seq(Messages)
    PROVE  /\ [server EXCEPT ![s].buffer = rest, ![s].pipe = <<>>]
              = [server EXCEPT ![s] = [up |-> server[s].up, asked |-> server[s].asked, pipe |-> <<>>,
                                  buffer |-> rest]]
           /\ \A asked \in Seq(Methods) :
                 [server EXCEPT ![s].asked = asked, ![s].buffer = rest, ![s].pipe = <<>>]
                 = [server EXCEPT ![s] = [up |-> server[s].up, asked |-> asked, pipe |-> <<>>,
                                     buffer |-> rest]]
<1>1. ASSUME NEW x \in Processes
      PROVE  [[x EXCEPT !.buffer = rest] EXCEPT !.pipe = <<>>]
             = [up |-> x.up, asked |-> x.asked, pipe |-> <<>>, buffer |-> rest]
  <2>1. x = [up |-> x.up, asked |-> x.asked, pipe |-> x.pipe, buffer |-> x.buffer]
    BY DEF Processes
  <2>2. [x EXCEPT !.buffer = rest]
        = [up |-> x.up, asked |-> x.asked, pipe |-> x.pipe, buffer |-> rest]
    BY <2>1
  <2>3. [[up |-> x.up, asked |-> x.asked, pipe |-> x.pipe, buffer |-> rest] EXCEPT !.pipe = <<>>]
        = [up |-> x.up, asked |-> x.asked, pipe |-> <<>>, buffer |-> rest]
    OBVIOUS
  <2>. QED
    BY <2>2, <2>3
<1>2. [server EXCEPT ![s].buffer = rest, ![s].pipe = <<>>]
      = [server EXCEPT ![s] = [[server[s] EXCEPT !.buffer = rest] EXCEPT !.pipe = <<>>]]
  OBVIOUS
<1>3. ASSUME NEW asked \in Seq(Methods)
      PROVE  [server EXCEPT ![s].asked = asked, ![s].buffer = rest, ![s].pipe = <<>>]
             = [server EXCEPT ![s] = [up |-> server[s].up, asked |-> asked, pipe |-> <<>>, buffer |-> rest]]
  <2> DEFINE g == [server EXCEPT ![s].asked = asked]
  <2>1. g \in [McpServerIds -> Processes] /\ g[s].up = server[s].up /\ g[s].asked = asked
    BY DEF Processes
  <2>2. [server EXCEPT ![s].asked = asked, ![s].buffer = rest, ![s].pipe = <<>>]
        = [g EXCEPT ![s] = [[g[s] EXCEPT !.buffer = rest] EXCEPT !.pipe = <<>>]]
    OBVIOUS
  <2>3. [[g[s] EXCEPT !.buffer = rest] EXCEPT !.pipe = <<>>]
        = [up |-> server[s].up, asked |-> asked, pipe |-> <<>>, buffer |-> rest]
    BY <1>1, <2>1
  <2>4. ASSUME NEW y PROVE [g EXCEPT ![s] = y] = [server EXCEPT ![s] = y]
    OBVIOUS
  <2>. QED
    BY <2>2, <2>3, <2>4
<1>. QED
  BY <1>1, <1>2, <1>3

LEMMA McpReads ==
    ASSUME McpSound, NEW s \in McpServerIds, ReadAnswer(s)
    PROVE  McpSound'
<1> DEFINE a == server[s]
           message == Head(a.buffer \o a.pipe)
           rest == Tail(a.buffer \o a.pipe)
<1>1. Starting(s) /\ conn[s].at \in Methods /\ notes' = notes /\ disturbed' = disturbed
  BY DEF ReadAnswer, Awaiting
<1>2. a \in Processes /\ conn[s] \in Connections /\ disturbed \subseteq McpServerIds
  BY DEF McpSound, McpShaped
<1>3. notes \in Nat /\ notes' \in notes..MaxNotes
  BY <1>1, McpAssumption DEF McpSound, McpShaped
<1>4. a.pipe # <<>> \/ a.buffer # <<>>
  BY Zenon DEF ReadAnswer
<1>5. a.buffer \o a.pipe # <<>>
  <2>1. a.buffer \in Seq(Messages) /\ a.pipe \in Seq(Messages)
    BY <1>2 DEF Processes
  <2>2. Len(a.buffer \o a.pipe) = Len(a.buffer) + Len(a.pipe)
    BY <2>1, ConcatProperties
  <2>3. Len(a.buffer) # 0 \/ Len(a.pipe) # 0
    BY <1>4, <2>1, EmptySeq
  <2>4. Len(a.buffer) \in Nat /\ Len(a.pipe) \in Nat
    BY <1>2, TrafficIsCounted
  <2>5. Len(a.buffer) + Len(a.pipe) # 0
    <3>1. \A n, m \in Nat : n # 0 \/ m # 0 => n + m # 0
      OBVIOUS
    <3>. HIDE DEF a
    <3>. QED
      BY <2>3, <2>4, <3>1, Zenon
  <2>. QED
    BY <2>2, <2>5, EmptySeq, Zenon
<1>6. message \in Messages /\ rest \in Seq(Messages) /\ Len(rest) = (Len(a.buffer) + Len(a.pipe)) - 1
  BY <1>2, <1>5, MessagesRead
<1>7. Fits(a, conn[s], notes) /\ (s \in disturbed \/ Conversation(a, conn[s]))
  BY <1>2 DEF McpSound
<1>8. s \in disturbed \/ /\ a.buffer = <<>> /\ rest = <<>>
                         /\ message \in {conn[s].at, "error"} /\ a.asked = <<>>
  <2>1. ASSUME s \notin disturbed
        PROVE  /\ a.buffer = <<>> /\ rest = <<>>
               /\ message \in {conn[s].at, "error"} /\ a.asked = <<>>
    <3>1. a.buffer = <<>> /\ a.asked = <<>> /\ \E m \in {conn[s].at, "error"} : a.pipe = <<m>>
      BY <1>1, <1>4, <1>7, <2>1 DEF Conversation, Asks
    <3>2. PICK m \in {conn[s].at, "error"} : a.pipe = <<m>>
      BY <3>1
    <3>3. a.buffer \o a.pipe = <<m>>
      BY <3>1, <3>2, <1>2, ConcatEmptySeq DEF Processes
    <3>. QED
      BY <3>1, <3>2, <3>3
  <2>. QED
    BY <2>1
<1>9. TakeAnswer(s, message)
  BY Zenon DEF ReadAnswer
<1>10. CASE conn[s].at = "initialize" /\ message \notin {"note", "error"} /\ a.up
  <2> DEFINE x == [up |-> a.up, asked |-> Append(a.asked, "tools/list"), pipe |-> <<>>,
                   buffer |-> rest]
             c == [conn[s] EXCEPT !.at = "tools/list"]
  <2>1. /\ server' = [server EXCEPT ![s].asked = Append(@, "tools/list"),
                                    ![s].buffer = Tail(@ \o server[s].pipe), ![s].pipe = <<>>]
        /\ conn' = [conn EXCEPT ![s].at = "tools/list"] /\ UNCHANGED manager
    BY <1>9, <1>10, Zenon DEF TakeAnswer
  <2>2. server' = [server EXCEPT ![s] = x]
    <3>1. Append(a.asked, "tools/list") \in Seq(Methods)
      BY <1>2, AppendProperties DEF Processes, Methods
    <3>2. server' = [server EXCEPT ![s].asked = Append(a.asked, "tools/list"),
                                   ![s].buffer = rest, ![s].pipe = <<>>]
      BY <2>1
    <3>3. server \in [McpServerIds -> Processes]
      BY DEF McpSound, McpShaped
    <3>4. [server EXCEPT ![s].asked = Append(a.asked, "tools/list"),
                         ![s].buffer = rest, ![s].pipe = <<>>]
          = [server EXCEPT ![s] = x]
      <4>. HIDE DEF rest
      <4>1. \A asked \in Seq(Methods) :
               [server EXCEPT ![s].asked = asked, ![s].buffer = rest, ![s].pipe = <<>>]
               = [server EXCEPT ![s] = [up |-> server[s].up, asked |-> asked, pipe |-> <<>>,
                                        buffer |-> rest]]
        BY <1>6, <3>3, BufferWritten, Zenon
      <4>. QED
        BY <3>1, <4>1, Zenon
    <3>. HIDE DEF x, rest, a
    <3>. QED
      BY <3>2, <3>4
  <2>3. conn' = [conn EXCEPT ![s] = c]
    BY <2>1
  <2>4. c \in Connections /\ c.at = "tools/list"
    BY <1>2 DEF Connections, Methods
  <2>5. Append(a.asked, "tools/list") \in Seq(Methods)
        /\ Len(Append(a.asked, "tools/list")) = Len(a.asked) + 1
    BY <1>2, AppendProperties DEF Processes, Methods
  <2>6. x \in Processes
    BY <1>2, <1>6, <2>5 DEF Processes
  <2>7. x.asked = Append(a.asked, "tools/list") /\ x.pipe = <<>> /\ x.buffer = rest
    OBVIOUS
  <2>8. Traffic(x) = Traffic(a)
    <3>1. Len(x.pipe) = 0 /\ Len(x.asked) = Len(a.asked) + 1
          /\ Len(x.buffer) = (Len(a.buffer) + Len(a.pipe)) - 1
      BY <1>6, <2>5, <2>7
    <3>2. Len(a.asked) \in Nat /\ Len(a.pipe) \in Nat /\ Len(a.buffer) \in Nat
      BY <1>2, TrafficIsCounted
    <3>3. \A n, m, k \in Nat : (n + 1) + 0 + ((k + m) - 1) = n + m + k
      OBVIOUS
    <3>. HIDE DEF x, a, rest
    <3>4. Traffic(x) = (Len(a.asked) + 1) + 0 + ((Len(a.buffer) + Len(a.pipe)) - 1)
      BY <3>1, Zenon DEF Traffic
    <3>. QED
      BY <3>2, <3>3, <3>4, Zenon DEF Traffic
  <2>9. s \in disturbed \/ (x.asked = <<"tools/list">> /\ x.pipe = <<>> /\ x.buffer = <<>>)
    <3>1. Append(<<>>, "tools/list") = <<"tools/list">>
      OBVIOUS
    <3>. HIDE DEF x, a, rest, message
    <3>. QED
      BY <1>8, <2>7, <3>1, Zenon
  <2>. HIDE DEF x, c
  <2>10. Fits(x, c, notes')
    BY <1>1, <1>7, <2>4, <2>8 DEF Fits
  <2>11. s \in disturbed' \/ Conversation(x, c)
    BY <1>1, <2>4, <2>9 DEF Conversation, Asks
  <2>12. InTurn'
    BY <1>1, <2>1, <2>2, <2>3, ManagerWaits
  <2>13. manager' \in [at : {"idle", "start", "report"}, next : 1..NumServers + 1]
    BY <2>1 DEF McpSound, McpShaped
  <2>. QED
    BY <1>1, <1>2, <1>3, <2>2, <2>3, <2>4, <2>6, <2>10, <2>11, <2>12, <2>13, McpMoves
<1>11. CASE ~(conn[s].at = "initialize" /\ message \notin {"note", "error"} /\ a.up)
  <2> DEFINE x == [up |-> a.up, asked |-> a.asked, pipe |-> <<>>, buffer |-> rest]
             c == [at |-> IF conn[s].at = "initialize" THEN "degraded" ELSE "connected",
                   tools |-> IF conn[s].at = "initialize" THEN "none" ELSE message]
  <2>1. /\ conn' = [conn EXCEPT ![s] = [at |-> IF @.at = "initialize" THEN "degraded"
                                               ELSE "connected",
                                        tools |-> IF @.at = "initialize" THEN "none"
                                                  ELSE message]]
        /\ Proceed(s)
        /\ server' = [server EXCEPT ![s].buffer = Tail(@ \o server[s].pipe), ![s].pipe = <<>>]
    BY <1>9, <1>11, Zenon DEF TakeAnswer
  <2>2. server' = [server EXCEPT ![s] = x]
    <3>1. server' = [server EXCEPT ![s].buffer = rest, ![s].pipe = <<>>]
      BY <2>1
    <3>2. server \in [McpServerIds -> Processes]
      BY DEF McpSound, McpShaped
    <3>3. [server EXCEPT ![s].buffer = rest, ![s].pipe = <<>>] = [server EXCEPT ![s] = x]
      <4>. HIDE DEF rest
      <4>. QED
        BY <1>6, <3>2, BufferWritten, Zenon
    <3>. HIDE DEF x, rest, a
    <3>. QED
      BY <3>1, <3>3
  <2>3. conn' = [conn EXCEPT ![s] = c]
    BY <2>1
  <2>4. c \in Connections /\ Settled(c)
    BY <1>6 DEF Connections, Settled
  <2>5. x \in Processes
    BY <1>2, <1>6 DEF Processes
  <2>6. x.asked = a.asked /\ x.pipe = <<>> /\ x.buffer = rest
    OBVIOUS
  <2>7. Traffic(x) <= Traffic(a)
    <3>1. Len(x.pipe) = 0 /\ Len(x.asked) = Len(a.asked)
          /\ Len(x.buffer) = (Len(a.buffer) + Len(a.pipe)) - 1
      BY <1>6, <2>6
    <3>2. Len(a.asked) \in Nat /\ Len(a.pipe) \in Nat /\ Len(a.buffer) \in Nat
      BY <1>2, TrafficIsCounted
    <3>3. \A n, m, k \in Nat : n + 0 + ((k + m) - 1) <= n + m + k
      OBVIOUS
    <3>. HIDE DEF x, a, rest
    <3>4. Traffic(x) = Len(a.asked) + 0 + ((Len(a.buffer) + Len(a.pipe)) - 1)
      BY <3>1, Zenon DEF Traffic
    <3>. QED
      BY <3>2, <3>3, <3>4, Zenon DEF Traffic
  <2>8. c.at = "connected" => s \in disturbed \/ c.tools \in {"tools/list", "error"}
    BY <1>1, <1>8 DEF Methods
  <2>9. Traffic(x) \in Nat /\ Traffic(a) \in Nat
    BY <1>2, <2>5, TrafficIsCounted
  <2>. HIDE DEF x, c, a
  <2>10. Fits(x, c, notes')
    BY <1>1, <1>3, <1>7, <2>4, <2>7, <2>9 DEF Fits, Settled
  <2>11. s \in disturbed' \/ Conversation(x, c)
    BY <1>1, <2>4, <2>8 DEF Conversation, Settled, Methods
  <2>12. /\ manager' \in [at : {"idle", "start", "report"}, next : 1..NumServers + 1]
         /\ InTurn'
    BY <1>1, <2>1, <2>3, <2>4, ManagerProceeds
  <2>. QED
    BY <1>1, <1>2, <1>3, <2>2, <2>3, <2>4, <2>5, <2>10, <2>11, <2>12, McpMoves
<1>. QED
  BY <1>10, <1>11

LEMMA McpAnswers ==
    ASSUME McpSound, NEW s \in McpServerIds, ServerAnswers(s)
    PROVE  McpSound'
<1> DEFINE a == server[s]
<1>1. /\ a.up /\ a.asked # <<>> /\ notes' = notes /\ disturbed' = disturbed
      /\ UNCHANGED <<conn, manager>>
  BY DEF ServerAnswers
<1>2. /\ a \in Processes /\ disturbed \subseteq McpServerIds
      /\ server \in [McpServerIds -> Processes]
  BY DEF McpSound, McpShaped
<1>3. notes \in Nat /\ notes' \in notes..MaxNotes
  BY <1>1, McpAssumption DEF McpSound, McpShaped
<1>4. PICK message \in {Head(a.asked), "error"} :
        server' = [server EXCEPT ![s].asked = Tail(@), ![s].pipe = Append(@, message)]
  BY Zenon DEF ServerAnswers
<1>5. a.asked \in Seq(Methods) /\ a.pipe \in Seq(Messages)
  BY <1>2 DEF Processes
<1>6. /\ Head(a.asked) \in Methods /\ Tail(a.asked) \in Seq(Methods)
      /\ Len(Tail(a.asked)) = Len(a.asked) - 1
  <2>. HIDE DEF a
  <2>. QED
    BY <1>1, <1>5, HeadTailProperties
<1>7. message \in Messages
  BY <1>4, <1>6 DEF Messages
<1>8. /\ Append(a.pipe, message) \in Seq(Messages)
      /\ Len(Append(a.pipe, message)) = Len(a.pipe) + 1
  <2>. HIDE DEF a
  <2>. QED
    BY <1>5, <1>7, AppendProperties
<1> DEFINE x == [[a EXCEPT !.asked = Tail(a.asked)] EXCEPT !.pipe = Append(a.pipe, message)]
<1>9. server' = [server EXCEPT ![s] = x]
  <2>1. server' = [server EXCEPT ![s].asked = Tail(a.asked),
                                 ![s].pipe = Append(a.pipe, message)]
    BY <1>2, <1>4, <1>6 DEF Processes
  <2>. QED
    BY <1>2, <2>1
<1>10. /\ x \in Processes /\ x.up = a.up /\ x.asked = Tail(a.asked)
       /\ x.pipe = Append(a.pipe, message) /\ x.buffer = a.buffer
  <2>. HIDE DEF a
  <2>. QED
    BY <1>2, <1>6, <1>8 DEF Processes
<1>11. Fits(a, conn[s], notes) /\ (s \in disturbed \/ Conversation(a, conn[s]))
  BY <1>2 DEF McpSound
<1>12. conn[s].at # "none"
  <2>1. ~NoServer.up
    BY DEF NoServer
  <2>. HIDE DEF a
  <2>. QED
    BY <1>1, <1>11, <2>1 DEF Fits
<1>13. Traffic(x) = Traffic(a)
  <2>1. \A n, m, k \in Nat : (n - 1) + (m + 1) + k = n + m + k
    OBVIOUS
  <2>2. Len(a.asked) \in Nat /\ Len(a.pipe) \in Nat /\ Len(a.buffer) \in Nat
    BY <1>2, TrafficIsCounted
  <2>3. Traffic(x) = (Len(a.asked) - 1) + (Len(a.pipe) + 1) + Len(a.buffer)
    <3>. HIDE DEF x, a
    <3>. QED
      BY <1>6, <1>8, <1>10, Zenon DEF Traffic
  <2>. HIDE DEF x, a
  <2>. QED
    BY <2>1, <2>2, <2>3, Zenon DEF Traffic
<1>14. s \in disturbed \/ Conversation(x, conn[s])
  <2>1. ASSUME Conversation(a, conn[s]) PROVE Conversation(x, conn[s])
    <3>1. CASE conn[s].at \in Methods
      <4>1. a.buffer = <<>> /\ a.asked = <<conn[s].at>> /\ a.pipe = <<>>
        BY <1>1, <2>1, <3>1 DEF Conversation, Asks
      <4>2. Tail(<<conn[s].at>>) = <<>> /\ Head(<<conn[s].at>>) = conn[s].at
            /\ Append(<<>>, message) = <<message>>
        OBVIOUS
      <4>3. x.buffer = <<>> /\ x.asked = <<>> /\ x.pipe = <<message>>
        <5>. HIDE DEF x, a
        <5>. QED
          BY <1>10, <4>1, <4>2, Zenon
      <4>4. message \in {conn[s].at, "error"}
        <5>. HIDE DEF x, a
        <5>. QED
          BY <1>4, <4>1, <4>2
      <4>. HIDE DEF x, a
      <4>. QED
        BY <2>1, <4>3, <4>4 DEF Conversation, Asks
    <3>2. CASE conn[s].at \notin Methods
      <4>. HIDE DEF x, a
      <4>. QED
        BY <2>1, <3>2 DEF Conversation
    <3>. QED
      BY <3>1, <3>2
  <2>. QED
    BY <1>11, <2>1
<1>. HIDE DEF x
<1>15. Fits(x, conn[s], notes')
  <2>. HIDE DEF a
  <2>. QED
    BY <1>1, <1>11, <1>12, <1>13 DEF Fits
<1>. QED
  BY <1>1, <1>2, <1>3, <1>9, <1>10, <1>14, <1>15, ServerSteps

LEMMA McpNotifies ==
    ASSUME McpSound, NEW s \in McpServerIds, ServerNotifies(s)
    PROVE  McpSound'
<1> DEFINE a == server[s]
           x == [a EXCEPT !.pipe = Append(a.pipe, "note")]
<1>1. /\ a.up /\ notes < MaxNotes /\ notes' = notes + 1 /\ disturbed' = disturbed \cup {s}
      /\ UNCHANGED <<conn, manager>>
      /\ server' = [server EXCEPT ![s].pipe = Append(@, "note")]
  BY DEF ServerNotifies
<1>2. a \in Processes /\ disturbed \subseteq McpServerIds
  BY DEF McpSound, McpShaped
<1>3. notes \in Nat /\ notes' \in notes..MaxNotes
  BY <1>1, McpAssumption DEF McpSound, McpShaped
<1>4. server' = [server EXCEPT ![s] = x]
  BY <1>1
<1>5. a.pipe \in Seq(Messages) /\ "note" \in Messages
  BY <1>2 DEF Processes, Messages
<1>6. Append(a.pipe, "note") \in Seq(Messages) /\ Len(Append(a.pipe, "note")) = Len(a.pipe) + 1
  <2>. HIDE DEF a
  <2>. QED
    BY <1>5, AppendProperties
<1>7. Fits(a, conn[s], notes)
  BY DEF McpSound
<1>. HIDE DEF a
<1>8. /\ x \in Processes /\ x.up = a.up /\ x.asked = a.asked
      /\ x.pipe = Append(a.pipe, "note") /\ x.buffer = a.buffer
  BY <1>2, <1>6 DEF Processes
<1>. HIDE DEF x
<1>9. conn[s].at # "none"
  <2>1. ~NoServer.up
    BY DEF NoServer
  <2>. QED
    BY <1>1, <1>7, <2>1 DEF Fits
<1>10. Traffic(x) = Traffic(a) + 1 /\ Traffic(a) \in Nat
  <2>1. \A n, m, k \in Nat : n + (m + 1) + k = (n + m + k) + 1
    OBVIOUS
  <2>2. Len(a.asked) \in Nat /\ Len(a.pipe) \in Nat /\ Len(a.buffer) \in Nat /\ Traffic(a) \in Nat
    BY <1>2, TrafficIsCounted
  <2>3. Traffic(x) = Len(a.asked) + (Len(a.pipe) + 1) + Len(a.buffer)
    BY <1>6, <1>8, Zenon DEF Traffic
  <2>. QED
    BY <2>1, <2>2, <2>3, Zenon DEF Traffic
<1>11. Fits(x, conn[s], notes')
  BY <1>1, <1>3, <1>7, <1>9, <1>10 DEF Fits
<1>12. x.up => server[s].up
  BY <1>1 DEF a
<1>13. disturbed' \subseteq McpServerIds /\ disturbed \subseteq disturbed' /\ s \in disturbed'
  BY <1>1, <1>2
<1>. QED
  BY <1>1, <1>3, <1>4, <1>8, <1>11, <1>12, <1>13, ServerSteps

LEMMA McpExits ==
    ASSUME McpSound, NEW s \in McpServerIds, ServerExits(s)
    PROVE  McpSound'
<1> DEFINE a == server[s]
           x == [[a EXCEPT !.up = FALSE] EXCEPT !.asked = <<>>]
<1>1. /\ a.up /\ notes' = notes /\ disturbed' = disturbed \cup {s}
      /\ UNCHANGED <<conn, manager>>
      /\ server' = [server EXCEPT ![s].up = FALSE, ![s].asked = <<>>]
  BY DEF ServerExits
<1>2. a \in Processes /\ disturbed \subseteq McpServerIds
  BY DEF McpSound, McpShaped
<1>3. notes \in Nat /\ notes' \in notes..MaxNotes
  BY <1>1, McpAssumption DEF McpSound, McpShaped
<1>4. server' = [server EXCEPT ![s] = x]
  BY <1>1 DEF McpSound, McpShaped
<1>5. Fits(a, conn[s], notes)
  BY DEF McpSound
<1>6. <<>> \in Seq(Methods) /\ Len(<<>>) = 0
  OBVIOUS
<1>7. /\ x \in Processes /\ ~x.up /\ x.asked = <<>> /\ x.pipe = a.pipe /\ x.buffer = a.buffer
  <2>. HIDE DEF a
  <2>. QED
    BY <1>2, <1>6 DEF Processes
<1>8. conn[s].at # "none"
  <2>1. ~NoServer.up
    BY DEF NoServer
  <2>. HIDE DEF a
  <2>. QED
    BY <1>1, <1>5, <2>1 DEF Fits
<1>. HIDE DEF a, x
<1>9. Traffic(x) <= Traffic(a)
  <2>1. \A n, m, k \in Nat : 0 + m + k <= n + m + k
    OBVIOUS
  <2>2. Len(a.asked) \in Nat /\ Len(a.pipe) \in Nat /\ Len(a.buffer) \in Nat
    BY <1>2, TrafficIsCounted
  <2>3. Traffic(x) = 0 + Len(a.pipe) + Len(a.buffer)
    BY <1>6, <1>7, Zenon DEF Traffic
  <2>. QED
    BY <2>1, <2>2, <2>3, Zenon DEF Traffic
<1>10. Traffic(x) \in Nat /\ Traffic(a) \in Nat
  BY <1>2, <1>7, TrafficIsCounted
<1>11. Fits(x, conn[s], notes')
  BY <1>1, <1>3, <1>5, <1>8, <1>9, <1>10 DEF Fits
<1>12. disturbed' \subseteq McpServerIds /\ disturbed \subseteq disturbed' /\ s \in disturbed'
  BY <1>1, <1>2
<1>. QED
  BY <1>1, <1>3, <1>4, <1>7, <1>11, <1>12, ServerSteps

\* A manager that has started nothing yet.
LEMMA McpFresh ==
    /\ NoServer \in Processes /\ Unstarted \in Connections /\ Unstarted.at = "none"
    /\ ~NoServer.up
    /\ \A n \in Nat : Fits(NoServer, Unstarted, n)
    /\ Conversation(NoServer, Unstarted)
<1>1. /\ NoServer \in Processes /\ Unstarted \in Connections /\ Unstarted.at = "none"
      /\ ~NoServer.up
  BY DEF NoServer, Unstarted, Processes, Connections
<1>2. Traffic(NoServer) = 0
  BY DEF Traffic, NoServer
<1>3. \A n \in Nat : Fits(NoServer, Unstarted, n)
  BY <1>1, <1>2 DEF Fits
<1>4. Conversation(NoServer, Unstarted)
  BY <1>1 DEF Conversation, Methods
<1>. QED
  BY <1>1, <1>3, <1>4

LEMMA McpBegins ==
    ASSUME McpSound, BeginStatus
    PROVE  McpSound'
<1>1. /\ server' = [s \in McpServerIds |-> NoServer]
      /\ conn' = [s \in McpServerIds |-> Unstarted]
      /\ disturbed' = {} /\ notes' = notes
  BY DEF BeginStatus
<1>2. CASE NumServers = 0
  <2>1. manager' = [at |-> "report", next |-> 1] /\ McpServerIds = {}
    BY <1>2 DEF BeginStatus, McpServerIds
  <2>. QED
    BY <1>1, <1>2, <2>1 DEF McpSound, McpShaped, InTurn
<1>3. CASE NumServers # 0
  <2>1. manager' = [at |-> "start", next |-> 1] /\ 1 \in McpServerIds
    BY <1>3, McpAssumption DEF BeginStatus, McpServerIds
  <2>2. InTurn'
    BY <1>1, <2>1, McpFresh DEF InTurn, McpServerIds
  <2>3. 1 \in 1..NumServers + 1 /\ notes \in Nat
    BY McpAssumption DEF McpSound, McpShaped
  <2>4. McpShaped'
    BY <1>1, <2>1, <2>3, McpFresh DEF McpSound, McpShaped
  <2>. QED
    BY <1>1, <2>2, <2>3, <2>4, McpFresh DEF McpSound
<1>. QED
  BY <1>2, <1>3

LEMMA McpStops ==
    ASSUME McpSound, StopAll
    PROVE  McpSound'
<1>1. /\ manager.at = "report" /\ manager' = [at |-> "idle", next |-> 1]
      /\ server' = [s \in McpServerIds |-> IF conn[s].at = "connected" THEN NoServer
                                           ELSE server[s]]
      /\ UNCHANGED <<conn, notes, disturbed>>
  BY DEF StopAll
<1>2. \A s \in McpServerIds : conn[s].at \in {"degraded", "connected"}
  BY <1>1 DEF McpSound, InTurn, Settled
<1>3. InTurn'
  BY <1>1, <1>2, McpFresh DEF InTurn, Methods
<1>4. 1 \in 1..NumServers + 1 /\ notes \in Nat
  BY McpAssumption DEF McpSound, McpShaped
<1>5. McpShaped'
  BY <1>1, <1>4, McpFresh DEF McpSound, McpShaped
<1>6. ASSUME NEW s \in McpServerIds PROVE Fits(server'[s], conn'[s], notes')
  <2>1. CASE conn[s].at = "connected"
    <3>1. server'[s] = NoServer /\ conn'[s] = conn[s]
      BY <1>1, <2>1
    <3>2. Traffic(NoServer) = 0
      BY DEF Traffic, NoServer
    <3>. QED
      BY <1>1, <1>4, <2>1, <3>1, <3>2 DEF Fits
  <2>2. CASE conn[s].at # "connected"
    <3>1. server'[s] = server[s] /\ conn'[s] = conn[s]
      BY <1>1, <2>2
    <3>. QED
      BY <1>1, <3>1 DEF McpSound
  <2>. QED
    BY <2>1, <2>2
<1>7. ASSUME NEW s \in McpServerIds \ disturbed' PROVE Conversation(server'[s], conn'[s])
  BY <1>1, <1>2 DEF McpSound, Conversation, Methods
<1>. QED
  BY <1>3, <1>5, <1>6, <1>7 DEF McpSound

LEMMA McpStays == McpSpec => []McpSound
<1>1. McpInit => McpSound
  <2> SUFFICES ASSUME McpInit PROVE McpSound
    OBVIOUS
  <2>1. 1 \in 1..NumServers + 1 /\ 0 \in Nat /\ 0 \in 0..MaxNotes
    BY McpAssumption
  <2>2. McpShaped
    BY <2>1, McpFresh DEF McpInit, McpShaped
  <2>3. InTurn
    BY McpFresh DEF McpInit, InTurn, Methods
  <2>. QED
    BY <2>1, <2>2, <2>3, McpFresh DEF McpInit, McpSound
<1>2. McpSound /\ [McpNext]_mcpVars => McpSound'
  <2>1. McpSound /\ UNCHANGED mcpVars => McpSound'
    BY DEF mcpVars, McpSound, McpShaped, InTurn, McpServerIds
  <2>. QED
    BY <2>1, McpBegins, McpStops, McpStarts, McpReads, McpHearsNothing, McpAnswers,
       McpNotifies, McpExits, Zenon DEF McpNext
<1>. QED
  BY <1>1, <1>2, PTL DEF McpSpec

\* However servers answer, fail, speak unasked and go, the two requests of a
\* start and what comes back never fill a pipe or a read buffer further than
\* the notifications do (mcp_client.py:56-151).
THEOREM ServersTyped == McpSpec => []McpTypeOK
<1>1. McpSound => McpTypeOK
  <2> SUFFICES ASSUME McpSound PROVE McpTypeOK
    OBVIOUS
  <2>1. McpShaped
    BY DEF McpSound
  <2>2. ASSUME NEW s \in McpServerIds
        PROVE  /\ server[s].up \in BOOLEAN
               /\ Len(server[s].asked) <= 3 + MaxNotes /\ Len(server[s].pipe) <= 3 + MaxNotes
               /\ Len(server[s].buffer) <= 3 + MaxNotes
               /\ conn[s].at \in {"none", "degraded", "connected"} \cup Methods
               /\ conn[s].tools \in {"none", "note", "error", "initialize", "initialized",
                                     "tools/list"}
    <3> DEFINE x == server[s]
    <3>1. x \in Processes /\ conn[s] \in Connections
      BY <2>1 DEF McpShaped
    <3>2. Traffic(x) <= 2 + notes
      BY DEF McpSound, Fits
    <3>3. notes \in Nat /\ notes <= MaxNotes /\ MaxNotes \in Nat
      BY <2>1, McpAssumption DEF McpShaped
    <3>. HIDE DEF x
    <3>4. /\ Len(x.asked) \in Nat /\ Len(x.pipe) \in Nat /\ Len(x.buffer) \in Nat
          /\ Traffic(x) = Len(x.asked) + Len(x.pipe) + Len(x.buffer)
      BY <3>1, TrafficIsCounted DEF Traffic
    <3>5. \A n, m, k, l, u \in Nat : n + m + k <= 2 + l /\ l <= u
                                     => n <= 3 + u /\ m <= 3 + u /\ k <= 3 + u
      OBVIOUS
    <3>6. Len(x.asked) + Len(x.pipe) + Len(x.buffer) <= 2 + notes
      BY <3>2, <3>4, Zenon
    <3>7. /\ Len(x.asked) <= 3 + MaxNotes /\ Len(x.pipe) <= 3 + MaxNotes
          /\ Len(x.buffer) <= 3 + MaxNotes
      BY <3>3, <3>4, <3>5, <3>6, Zenon
    <3>8. x.up \in BOOLEAN
      BY <3>1 DEF Processes
    <3>9. /\ conn[s].at \in {"none", "degraded", "connected"} \cup Methods
          /\ conn[s].tools \in {"none", "note", "error", "initialize", "initialized",
                                "tools/list"}
      BY <3>1 DEF Connections, Messages, Methods
    <3>. QED
      BY <3>7, <3>8, <3>9, Zenon DEF x
  <2>3. ASSUME NEW s \in McpServerIds, NEW m \in {"asked", "pipe", "buffer"}
        PROVE  Len(server[s][m]) <= 3 + MaxNotes
    BY <2>2
  <2>. QED
    BY <2>1, <2>2, <2>3 DEF McpTypeOK, McpShaped
<1>. QED
  BY <1>1, McpStays, PTL

\* While a server speaks only when it is asked and in time, the tools it is
\* connected with are those of its own answer, for any number of servers
\* started in turn and of status requests (mcp_client.py:76-97).
THEOREM AnswersAreToTheQuestion == McpSpec => []ToolsAreTheAnswer
<1>1. McpSound => ToolsAreTheAnswer
  BY DEF McpSound, Conversation, ToolsAreTheAnswer
<1>. QED
  BY <1>1, McpStays, PTL

LEMMA OthersAreStopped == McpSpec => []OnlyFailedStartsStay
<1>1. McpSound => OnlyFailedStartsStay
  BY DEF McpSound, InTurn, OnlyFailedStartsStay
<1>. QED
  BY <1>1, McpStays, PTL

-----------------------------------------------------------------------------
(* Collections *)

Files == UNION {[1..n -> ChunkTexts] : n \in 0..MaxFile}
Ingests == [at : {"idle", "add", "counted", "between"}, into : Names \cup {NoName},
            left : Files, counted : 0..MaxRows]

\* A thread that ingests has a collection to write to.
IntoNames == \A i \in Ingesters : ~Ingesting(i, "idle") => ingest[i].into \in Names

ShelfSound == CollectionsTypeOK /\ IntoNames /\ EveryChunkIsFound

LEMMA FilesAreCut ==
    /\ <<>> \in Files
    /\ \A file \in Files : file # <<>> => Head(file) \in ChunkTexts /\ Tail(file) \in Files
<1>1. <<>> \in Files
  <2>1. <<>> \in [1..0 -> ChunkTexts]
    OBVIOUS
  <2>2. 0 \in 0..MaxFile
    BY CollectionsAssumption
  <2>. QED
    BY <2>1, <2>2 DEF Files
<1>2. ASSUME NEW file \in Files, file # <<>>
      PROVE  Head(file) \in ChunkTexts /\ Tail(file) \in Files
  <2>1. PICK n \in 0..MaxFile : file \in [1..n -> ChunkTexts]
    BY DEF Files
  <2>2. n \in Nat
    OBVIOUS
  <2>3. file \in Seq(ChunkTexts) /\ Len(file) = n
    BY <2>1, <2>2
  <2>4. Head(file) \in ChunkTexts /\ Tail(file) \in Seq(ChunkTexts) /\ Len(Tail(file)) = n - 1
    BY <1>2, <2>3, HeadTailProperties
  <2>5. n - 1 \in Nat
    BY <1>2, <2>2, <2>3
  <2>6. n - 1 \in 0..MaxFile
    BY <2>2, <2>5, CollectionsAssumption
  <2>7. Tail(file) \in [1..n - 1 -> ChunkTexts]
    BY <2>4, LenProperties
  <2>. QED
    BY <2>4, <2>6, <2>7 DEF Files
<1>. QED
  BY <1>1, <1>2

\* A set of numbers that is bounded and not empty has a greatest one: the
\* distance to the bound has a least one.
LEMMA HasGreatest ==
    ASSUME NEW n \in Nat, NEW S \in SUBSET (1..n), S # {}
    PROVE  \E r \in S : \A s \in S : s <= r
<1> DEFINE Below == {k \in Nat : n - k \in S}
<1>1. Below # {}
  <2>1. PICK s \in S : TRUE
    OBVIOUS
  <2>2. n - s \in Nat /\ n - (n - s) = s
    OBVIOUS
  <2>. QED
    BY <2>1, <2>2
<1>2. PICK k \in Below : \A m \in Below : <<m, k>> \notin OpToRel(<, Nat)
  <2>1. Below \subseteq Nat
    OBVIOUS
  <2>. HIDE DEF Below
  <2>. QED
    BY <1>1, <2>1, WFMin, NatLessThanWellFounded, Zenon
<1>3. ASSUME NEW s \in S PROVE s <= n - k
  <2>1. n - s \in Nat /\ n - (n - s) = s
    OBVIOUS
  <2>2. n - s \in Below
    BY <2>1
  <2>3. <<n - s, k>> \notin OpToRel(<, Nat)
    BY <1>2, <2>2, Zenon
  <2>4. ~(n - s < k)
    BY <1>2, <2>1, <2>3, Zenon DEF OpToRel
  <2>. QED
    BY <2>4
<1>. QED
  BY <1>3

\* The rowid of a new chunk is one no chunk has.
LEMMA RowidIsNew ==
    ASSUME CollectionsTypeOK
    PROVE  NextRowid \in Nat \ {0} /\ \A c \in chunks : c.row # NextRowid
<1>1. Rowids \in SUBSET (1..MaxRows) /\ MaxRows \in Nat
  BY CollectionsAssumption DEF CollectionsTypeOK, Rowids
<1>2. \A c \in chunks : c.row \in Rowids
  BY DEF Rowids
<1>3. CASE chunks = {}
  BY <1>3 DEF NextRowid
<1>4. CASE chunks # {}
  <2> DEFINE r == CHOOSE r \in Rowids : \A s \in Rowids : s <= r
  <2>1. Rowids # {}
    BY <1>2, <1>4
  <2>2. \E q \in Rowids : \A s \in Rowids : s <= q
    BY <1>1, <2>1, HasGreatest
  <2>3. r \in Rowids /\ \A s \in Rowids : s <= r
    BY <2>2
  <2>4. NextRowid = 1 + r
    BY <1>4 DEF NextRowid
  <2>. HIDE DEF r
  <2>5. r \in Nat
    BY <1>1, <2>3
  <2>. QED
    BY <1>1, <1>2, <2>3, <2>4, <2>5
<1>. QED
  BY <1>3, <1>4

\* A collection has no more chunks than there are rowids.
LEMMA ChunksCounted ==
    ASSUME CollectionsTypeOK, EveryChunkIsFound, NEW name
    PROVE  Cardinality(ChunksOf(name)) \in 0..MaxRows
<1> DEFINE S == ChunksOf(name)
           f == [c \in S |-> c.row]
<1>1. \A c \in S : c.row \in 1..MaxRows
  BY DEF CollectionsTypeOK, ChunksOf
<1>2. \A c, d \in S : c.row = d.row => c = d
  BY DEF EveryChunkIsFound, ChunksOf
<1>. HIDE DEF S
<1>3. f \in Injection(S, 1..MaxRows)
  BY <1>1, <1>2 DEF Injection, IsInjective
<1>4. IsFiniteSet(1..MaxRows) /\ Cardinality(1..MaxRows) = MaxRows /\ MaxRows \in Nat
  BY CollectionsAssumption, FS_Interval
<1>5. IsFiniteSet(S) /\ Cardinality(S) <= MaxRows
  <2>. HIDE DEF f
  <2>. QED
    BY <1>3, <1>4, FS_Injection
<1>6. Cardinality(S) \in Nat
  BY <1>5, FS_CardinalityType
<1>. QED
  BY <1>4, <1>5, <1>6 DEF S

\* One thread goes on; the tables may change with it.
LEMMA IngestMoves ==
    ASSUME ShelfSound, NEW i \in Ingesters, NEW x \in Ingests,
           x.at # "idle" => x.into \in Names,
           ingest' = [ingest EXCEPT ![i] = x]
    PROVE  ingest' \in [Ingesters -> Ingests] /\ IntoNames'
<1>1. ingest \in [Ingesters -> Ingests]
  BY DEF ShelfSound, CollectionsTypeOK, Ingests, Files
<1>2. ingest' \in [Ingesters -> Ingests]
  BY <1>1
<1>3. ASSUME NEW j \in Ingesters, ingest'[j].at # "idle" PROVE ingest'[j].into \in Names
  <2>1. CASE j = i
    BY <1>1, <1>3, <2>1
  <2>2. CASE j # i
    BY <1>1, <1>3, <2>2 DEF ShelfSound, IntoNames, Ingesting
  <2>. QED
    BY <2>1, <2>2
<1>. QED
  BY <1>2, <1>3 DEF IntoNames, Ingesting

\* A step that writes no table of chunks, and takes no collection away.
LEMMA ChunksStay ==
    ASSUME ShelfSound, UNCHANGED <<chunks, postings>>,
           shelf' \in [Names -> [state : {"new", "there", "gone"}, count : 0..MaxRows]],
           \A n \in Names : shelf[n].state = "there" => shelf'[n].state = "there",
           ingest' \in [Ingesters -> Ingests], IntoNames'
    PROVE  ShelfSound'
<1>1. CollectionsTypeOK'
  BY DEF ShelfSound, CollectionsTypeOK, Ingests, Files
<1>2. \A c \in chunks : c.collection \in Names
  BY DEF ShelfSound, CollectionsTypeOK
<1>3. EveryChunkIsFound'
  BY <1>2 DEF ShelfSound, EveryChunkIsFound, Hits
<1>. QED
  BY <1>1, <1>3 DEF ShelfSound

LEMMA ShelfStays == CollectionsSpec => []ShelfSound
<1>1. CollectionsInit => ShelfSound
  <2> SUFFICES ASSUME CollectionsInit PROVE ShelfSound
    OBVIOUS
  <2>1. 0 \in 0..MaxRows
    BY CollectionsAssumption
  <2>2. NoIngest \in Ingests /\ NoIngest.at = "idle"
    BY <2>1, FilesAreCut DEF NoIngest, Ingests
  <2>. QED
    BY <2>1, <2>2 DEF CollectionsInit, ShelfSound, CollectionsTypeOK, IntoNames, Ingesting,
                      EveryChunkIsFound, Ingests, Files
<1>2. ShelfSound /\ [CollectionsNext]_collectionVars => ShelfSound'
  <2> SUFFICES ASSUME ShelfSound, [CollectionsNext]_collectionVars PROVE ShelfSound'
    OBVIOUS
  <2>1. /\ shelf \in [Names -> [state : {"new", "there", "gone"}, count : 0..MaxRows]]
        /\ ingest \in [Ingesters -> Ingests] /\ IntoNames
    BY DEF ShelfSound, CollectionsTypeOK, Ingests, Files
  <2>2. 0 \in 0..MaxRows
    BY CollectionsAssumption
  <2>3. NoIngest \in Ingests /\ NoIngest.at = "idle"
    BY <2>2, FilesAreCut DEF NoIngest, Ingests
  <2>4. ASSUME NEW name \in Names, CreateCollection(name) PROVE ShelfSound'
    <3>1. /\ shelf' = [shelf EXCEPT ![name].state = "there"]
          /\ UNCHANGED <<chunks, postings, ingest>>
      BY <2>4 DEF CreateCollection
    <3>2. shelf' \in [Names -> [state : {"new", "there", "gone"}, count : 0..MaxRows]]
          /\ \A n \in Names : shelf[n].state = "there" => shelf'[n].state = "there"
      BY <2>1, <3>1
    <3>. QED
      BY <2>1, <3>1, <3>2, ChunksStay DEF IntoNames, Ingesting
  <2>5. ASSUME NEW i \in Ingesters, NEW x \in Ingests, x.at # "idle" => x.into \in Names,
               ingest' = [ingest EXCEPT ![i] = x], UNCHANGED <<shelf, chunks, postings>>
        PROVE  ShelfSound'
    BY <2>1, <2>5, IngestMoves, ChunksStay
  <2>6. ASSUME NEW i \in Ingesters, NEW name \in Names, StartIngest(i, name) PROVE ShelfSound'
    <3>1. PICK file \in Files :
            ingest' = [ingest EXCEPT ![i] = [NoIngest EXCEPT !.at = "add", !.into = name,
                                                             !.left = file]]
      BY <2>6 DEF StartIngest, Files
    <3> DEFINE x == [NoIngest EXCEPT !.at = "add", !.into = name, !.left = file]
    <3>2. x \in Ingests /\ x.into \in Names
      BY <2>3 DEF Ingests
    <3>3. ingest' = [ingest EXCEPT ![i] = x] /\ UNCHANGED <<shelf, chunks, postings>>
      BY <2>6, <3>1 DEF StartIngest
    <3>. HIDE DEF x
    <3>. QED
      BY <2>5, <3>2, <3>3
  <2>7. ASSUME NEW i \in Ingesters, NextFile(i) PROVE ShelfSound'
    <3>1. PICK file \in Files : ingest' = [ingest EXCEPT ![i].at = "add", ![i].left = file]
      BY <2>7 DEF NextFile, Files
    <3> DEFINE x == [[ingest[i] EXCEPT !.at = "add"] EXCEPT !.left = file]
    <3>2. ingest[i] \in Ingests /\ ingest[i].into \in Names
      BY <2>1, <2>7 DEF NextFile, IntoNames, Ingesting
    <3>3. x \in Ingests /\ x.into \in Names
      BY <3>2 DEF Ingests
    <3>4. ingest' = [ingest EXCEPT ![i] = x] /\ UNCHANGED <<shelf, chunks, postings>>
      BY <2>1, <2>7, <3>1 DEF NextFile
    <3>. HIDE DEF x
    <3>. QED
      BY <2>5, <3>3, <3>4
  <2>8. ASSUME NEW i \in Ingesters, IngestFails(i) PROVE ShelfSound'
    <3>1. ingest' = [ingest EXCEPT ![i] = NoIngest] /\ UNCHANGED <<shelf, chunks, postings>>
      BY <2>8 DEF IngestFails
    <3>. QED
      BY <2>3, <2>5, <3>1
  <2>9. ASSUME NEW i \in Ingesters, CountChunks(i) PROVE ShelfSound'
    <3> DEFINE n == Cardinality(ChunksOf(ingest[i].into))
    <3>1. n \in 0..MaxRows
      BY ChunksCounted DEF ShelfSound
    <3> DEFINE x == [[ingest[i] EXCEPT !.at = "counted"] EXCEPT !.counted = n]
    <3>2. ingest' = [ingest EXCEPT ![i].at = "counted", ![i].counted = n]
          /\ UNCHANGED <<shelf, chunks, postings>>
      BY <2>9 DEF CountChunks
    <3>. HIDE DEF n
    <3>3. ingest[i] \in Ingests /\ ingest[i].into \in Names
      BY <2>1, <2>9 DEF CountChunks, IntoNames, Ingesting
    <3>4. x \in Ingests /\ x.into \in Names
      BY <3>1, <3>3 DEF Ingests
    <3>5. ingest' = [ingest EXCEPT ![i] = x]
      BY <2>1, <3>2
    <3>. HIDE DEF x
    <3>. QED
      BY <2>5, <3>2, <3>4, <3>5
  <2>10. ASSUME NEW i \in Ingesters, WriteCount(i) PROVE ShelfSound'
    <3> DEFINE name == ingest[i].into
    <3>1. ingest[i] \in Ingests /\ name \in Names
      BY <2>1, <2>10 DEF WriteCount, IntoNames, Ingesting
    <3>2. /\ shelf' = IF shelf[name].state = "there"
                      THEN [shelf EXCEPT ![name].count = ingest[i].counted] ELSE shelf
          /\ UNCHANGED <<chunks, postings>>
      BY <2>10 DEF WriteCount
    <3>3. ingest[i].counted \in 0..MaxRows
      BY <3>1 DEF Ingests
    <3>4. /\ shelf' \in [Names -> [state : {"new", "there", "gone"}, count : 0..MaxRows]]
          /\ \A n \in Names : shelf[n].state = "there" => shelf'[n].state = "there"
      BY <2>1, <3>1, <3>2, <3>3
    <3>5. PICK next \in {"idle", "between"} :
            ingest' = [ingest EXCEPT ![i] = IF next = "idle" THEN NoIngest
                                            ELSE [@ EXCEPT !.at = next, !.counted = 0]]
      BY <2>10 DEF WriteCount
    <3> DEFINE x == IF next = "idle" THEN NoIngest
                    ELSE [ingest[i] EXCEPT !.at = next, !.counted = 0]
    <3>6. ingest' = [ingest EXCEPT ![i] = x]
      BY <3>5
    <3>7. x \in Ingests /\ (x.at # "idle" => x.into \in Names)
      <4>1. CASE next = "idle"
        BY <2>3, <4>1
      <4>2. CASE next # "idle"
        BY <2>2, <3>1, <4>2 DEF Ingests
      <4>. QED
        BY <4>1, <4>2
    <3>. HIDE DEF x
    <3>8. ingest' \in [Ingesters -> Ingests] /\ IntoNames'
      BY <3>6, <3>7, IngestMoves
    <3>. QED
      BY <3>2, <3>4, <3>8, ChunksStay
  <2>11. ASSUME NEW i \in Ingesters, AddChunk(i) PROVE ShelfSound'
    <3> DEFINE text == Head(ingest[i].left)
               name == ingest[i].into
               row == NextRowid
               new == [row |-> row, collection |-> name, text |-> text]
    <3>1. ingest[i] \in Ingests /\ name \in Names /\ shelf[name].state = "there"
      BY <2>1, <2>11 DEF AddChunk, IntoNames, Ingesting
    <3>2. /\ chunks' = chunks \cup {new}
          /\ postings' = postings \cup {[row |-> row, word |-> w] : w \in text}
          /\ UNCHANGED shelf
      BY <2>11 DEF AddChunk
    <3>3. text \in ChunkTexts /\ Tail(ingest[i].left) \in Files
      BY <2>11, <3>1, FilesAreCut DEF AddChunk, Ingests
    <3>4. row \in 1..MaxRows /\ \A c \in chunks : c.row # row
      BY <2>11, RowidIsNew, CollectionsAssumption DEF ShelfSound, AddChunk
    <3> DEFINE x == [ingest[i] EXCEPT !.left = Tail(ingest[i].left)]
    <3>5. x \in Ingests /\ x.into \in Names
      BY <3>1, <3>3 DEF Ingests
    <3>6. ingest' = [ingest EXCEPT ![i] = x]
      BY <2>11 DEF AddChunk
    <3>. HIDE DEF x, text, row, name
    <3>7. ingest' \in [Ingesters -> Ingests] /\ IntoNames'
      BY <3>5, <3>6, IngestMoves
    <3>8. \A w \in text : w \in Words
      BY <3>3 DEF Words
    <3>9. new \in [row : 1..MaxRows, collection : Names, text : ChunkTexts]
      BY <3>1, <3>3, <3>4
    <3>10. CollectionsTypeOK'
      BY <2>1, <3>2, <3>4, <3>7, <3>8, <3>9 DEF ShelfSound, CollectionsTypeOK, Ingests, Files
    <3>11. new.row = row /\ new.collection = name /\ new.text = text
      OBVIOUS
    <3>. HIDE DEF new
    <3>12. \A c \in chunks' : c \in chunks \/ c = new
      BY <3>2
    <3>13. ASSUME NEW c \in chunks'
           PROVE  /\ shelf'[c.collection].state = "there"
                  /\ \A d \in chunks' : d.row = c.row => d = c
                  /\ \A w \in c.text : [row |-> c.row, word |-> w] \in postings'
      <4>1. shelf'[c.collection].state = "there"
        BY <3>1, <3>2, <3>11, <3>12 DEF ShelfSound, EveryChunkIsFound
      <4>2. \A d \in chunks' : d.row = c.row => d = c
        BY <3>4, <3>11, <3>12 DEF ShelfSound, EveryChunkIsFound
      <4>3. \A w \in c.text : [row |-> c.row, word |-> w] \in postings'
        BY <3>2, <3>11, <3>12 DEF ShelfSound, EveryChunkIsFound, Hits
      <4>. QED
        BY <4>1, <4>2, <4>3
    <3>14. EveryChunkIsFound'
      BY <3>13 DEF EveryChunkIsFound, Hits
    <3>. QED
      BY <3>7, <3>10, <3>14 DEF ShelfSound
  <2>12. ASSUME NEW name \in Names, DeleteCollection(name) PROVE ShelfSound'
    <3>1. /\ shelf' = [shelf EXCEPT ![name] = [state |-> "gone", count |-> 0]]
          /\ chunks' = chunks \ ChunksOf(name) /\ UNCHANGED <<postings, ingest>>
      BY <2>12 DEF DeleteCollection
    <3>2. CollectionsTypeOK'
      BY <2>2, <3>1 DEF ShelfSound, CollectionsTypeOK
    <3>3. \A c \in chunks' : c \in chunks /\ c.collection # name /\ c.collection \in Names
      BY <3>1 DEF ChunksOf, ShelfSound, CollectionsTypeOK
    <3>4. EveryChunkIsFound'
      BY <2>1, <3>1, <3>3 DEF ShelfSound, EveryChunkIsFound, Hits
    <3>. QED
      BY <2>1, <3>1, <3>2, <3>4 DEF ShelfSound, IntoNames, Ingesting
  <2>13. CASE UNCHANGED collectionVars
    BY <2>1, <2>13, ChunksStay DEF collectionVars, IntoNames, Ingesting
  <2>. QED
    BY <2>4, <2>6, <2>7, <2>8, <2>9, <2>10, <2>11, <2>12, <2>13, Zenon DEF CollectionsNext
<1>. QED
  BY <1>1, <1>2, PTL DEF CollectionsSpec

\* Any number of ingests that run while collections are deleted under them, and
\* any reuse of rowids: a chunk has a collection, a rowid of its own, and is
\* found by each of its words (db.py:3193-3286).
THEOREM ChunksAreFound == CollectionsSpec => []EveryChunkIsFound
BY ShelfStays, PTL DEF ShelfSound

\* The domains of the tables and of what a thread that ingests holds.
THEOREM ShelfTyped == CollectionsSpec => []CollectionsTypeOK
BY ShelfStays, PTL DEF ShelfSound

-----------------------------------------------------------------------------
(* The event log *)

\* The events of a log are numbered from 1 on, each number once.
InSequence(E) ==
    /\ IsFiniteSet(E) /\ {e.no : e \in E} = 1..Cardinality(E)
    /\ \A d, e \in E : d.no = e.no => d = e

\* A writer that began holds the lock until it commits, and the number it
\* selected is the next one all that time.
WriterKeeps(w) ==
    /\ append[w].at \in {"begun", "insert", "commit"} =>
          /\ fileLock = w /\ append[w].log \in Logs
          /\ Cardinality(events[append[w].log]) < MaxEvents
    /\ append[w].at \in {"insert", "commit"} =>
          append[w].no = Cardinality(events[append[w].log]) + 1
    /\ append[w].at # "collided"

\* What is on the operator's screen are events of the log, in their places.
ShownInPlace ==
    /\ \A i \in DOMAIN shown.rows :
          /\ shown.log \in Logs /\ shown.rows[i] \in events[shown.log]
          /\ shown.rows[i].no = i
    /\ rated.place # 0 => /\ rated.place \in DOMAIN shown.rows
                          /\ rated.event = shown.rows[rated.place]

Appends == [at : {"idle", "begun", "insert", "commit", "collided", "refused"},
            log : Logs \cup {Nobody}, no : 0..MaxEvents + 1]

LogSound ==
    /\ EventLogTypeOK /\ ShownInPlace
    /\ \A log \in Logs : InSequence(events[log])
    /\ \A w \in Writers : WriterKeeps(w)

LEMMA NextIsOneMore ==
    ASSUME NEW log \in Logs, InSequence(events[log]), Cardinality(events[log]) < MaxEvents
    PROVE  NextNumber(log) = Cardinality(events[log]) + 1
<1> DEFINE c == Cardinality(events[log])
           Fits1(n) == (\A m \in Numbers(log) : m < n) /\ (n = 1 \/ n - 1 \in Numbers(log))
<1>1. c \in Nat /\ c < MaxEvents /\ MaxEvents \in Nat
  BY FS_CardinalityType, EventLogAssumption DEF InSequence
<1>2. Numbers(log) = 1..c
  BY DEF InSequence, Numbers
<1>. HIDE DEF c
<1>3. c + 1 \in 1..MaxEvents + 1 /\ Fits1(c + 1)
  BY <1>1, <1>2
<1>4. \A n \in 1..MaxEvents + 1 : Fits1(n) => n = c + 1
  BY <1>1, <1>2
<1>5. NextNumber(log) = CHOOSE n \in 1..MaxEvents + 1 : Fits1(n)
  BY DEF NextNumber
<1>. HIDE DEF Fits1
<1>6. NextNumber(log) = c + 1
  BY <1>3, <1>4, <1>5
<1>. QED
  BY <1>6 DEF c

\* An event stands in a listing at the place of its number.
LEMMA ListedInPlace ==
    ASSUME NEW log \in Logs, InSequence(events[log])
    PROVE  /\ DOMAIN Listing(log) = 1..Cardinality(events[log])
           /\ \A i \in DOMAIN Listing(log) :
                 Listing(log)[i] \in events[log] /\ Listing(log)[i].no = i
<1> DEFINE E == events[log]
           n == Cardinality(E)
           Before(e) == {d \in E : d.no < e.no}
<1>1. n \in Nat /\ IsFiniteSet(E)
  BY FS_CardinalityType DEF InSequence
<1>2. {e.no : e \in E} = 1..n /\ \A d, e \in E : d.no = e.no => d = e
  BY DEF InSequence
<1>3. DOMAIN Listing(log) = 1..n
  BY DEF Listing
<1>4. \A i \in 1..n : Listing(log)[i] = CHOOSE e \in E : Cardinality(Before(e)) = i - 1
  BY DEF Listing
<1>. HIDE DEF E, n
<1>5. ASSUME NEW e \in E PROVE e.no \in 1..n /\ Cardinality(Before(e)) = e.no - 1
  <2> DEFINE k == e.no
             B == Before(e)
             f == [d \in B |-> d.no]
  <2>1. k \in 1..n
    BY <1>2
  <2>2. \A d \in B : d \in E /\ d.no < k
    OBVIOUS
  <2>3. \A m \in 1..k - 1 : \E d \in B : d.no = m
    <3> SUFFICES ASSUME NEW m \in 1..k - 1 PROVE \E d \in B : d.no = m
      OBVIOUS
    <3>1. m \in 1..n /\ m < k
      BY <1>1, <2>1
    <3>2. PICK d \in E : d.no = m
      BY <1>2, <3>1
    <3>. QED
      BY <3>1, <3>2
  <2>. HIDE DEF B, k
  <2>4. \A d \in B : d.no \in 1..k - 1
    <3> SUFFICES ASSUME NEW d \in B PROVE d.no \in 1..k - 1
      OBVIOUS
    <3>1. d.no \in 1..n /\ d.no < k
      BY <1>2, <2>2
    <3>. QED
      BY <1>1, <2>1, <3>1
  <2>5. f \in Injection(B, 1..k - 1)
    BY <1>2, <2>2, <2>4 DEF Injection, IsInjective
  <2>6. f \in Surjection(B, 1..k - 1)
    BY <2>3, <2>4 DEF Surjection
  <2>7. /\ k - 1 \in Nat /\ IsFiniteSet(1..k - 1) /\ Cardinality(1..k - 1) = k - 1
    <3>1. k - 1 \in Nat /\ 1 \in Int /\ k - 1 \in Int
      BY <1>1, <2>1
    <3>. QED
      BY <3>1, FS_Interval
  <2>. HIDE DEF f
  <2>8. Cardinality(B) = k - 1
    BY <2>5, <2>6, <2>7, FS_Injection
  <2>. QED
    BY <2>1, <2>8 DEF B, k
<1>. HIDE DEF Before
<1>6. ASSUME NEW i \in 1..n PROVE Listing(log)[i] \in E /\ Listing(log)[i].no = i
  <2>1. PICK e \in E : e.no = i
    BY <1>2
  <2>2. Cardinality(Before(e)) = i - 1
    BY <1>5, <2>1
  <2> DEFINE r == CHOOSE d \in E : Cardinality(Before(d)) = i - 1
  <2>3. r \in E /\ Cardinality(Before(r)) = i - 1
    BY <2>2
  <2>4. Listing(log)[i] = r
    BY <1>4
  <2>. HIDE DEF r
  <2>5. r.no \in 1..n /\ r.no - 1 = i - 1
    BY <1>5, <2>3
  <2>6. r.no = i
    BY <1>1, <2>5
  <2>. QED
    BY <2>3, <2>4, <2>6
<1>. QED
  BY <1>3, <1>6 DEF E, n

\* A step of one writer that commits nothing.
LEMMA WriterMoves ==
    ASSUME LogSound, NEW w \in Writers, NEW x \in Appends,
           append' = [append EXCEPT ![w] = x], UNCHANGED <<events, shown, rated>>,
           fileLock' \in Writers \cup {Nobody},
           \A v \in Writers \ {w} : fileLock = v => fileLock' = v,
           x.at \in {"begun", "insert", "commit"} =>
               fileLock' = w /\ x.log \in Logs /\ Cardinality(events[x.log]) < MaxEvents,
           x.at \in {"insert", "commit"} => x.no = Cardinality(events[x.log]) + 1,
           x.at # "collided"
    PROVE  LogSound'
<1>1. append \in [Writers -> Appends]
  BY DEF LogSound, EventLogTypeOK, Appends
<1>2. append' \in [Writers -> Appends] /\ append'[w] = x
  BY <1>1
<1>3. \A v \in Writers \ {w} : append'[v] = append[v]
  BY <1>1
<1>4. EventLogTypeOK'
  BY <1>2 DEF LogSound, EventLogTypeOK, Appends
<1>5. ShownInPlace'
  BY DEF LogSound, ShownInPlace
<1>6. ASSUME NEW v \in Writers PROVE WriterKeeps(v)'
  <2>1. CASE v = w
    BY <1>2, <2>1 DEF WriterKeeps
  <2>2. CASE v # w
    BY <1>3, <2>2 DEF LogSound, WriterKeeps
  <2>. QED
    BY <2>1, <2>2
<1>. QED
  BY <1>4, <1>5, <1>6 DEF LogSound

\* One more event keeps the sequence.
LEMMA OneMoreEvent ==
    ASSUME NEW E, InSequence(E), NEW e, e \notin E, e.no = Cardinality(E) + 1
    PROVE  /\ InSequence(E \cup {e})
           /\ Cardinality(E \cup {e}) = Cardinality(E) + 1
<1> DEFINE n == Cardinality(E)
<1>1. /\ IsFiniteSet(E \cup {e}) /\ Cardinality(E \cup {e}) = n + 1 /\ n \in Nat
  BY FS_AddElement, FS_CardinalityType DEF InSequence
<1>2. {d.no : d \in E} = 1..n /\ e.no = n + 1
  BY DEF InSequence
<1>. HIDE DEF n
<1>3. {d.no : d \in E \cup {e}} = 1..n + 1
  <2>1. {d.no : d \in E \cup {e}} = {d.no : d \in E} \cup {e.no}
    OBVIOUS
  <2>. QED
    BY <1>1, <1>2, <2>1
<1>4. \A d \in E : d.no # e.no
  <2> SUFFICES ASSUME NEW d \in E PROVE d.no # e.no
    OBVIOUS
  <2>1. d.no \in 1..n
    BY <1>2
  <2>. QED
    BY <1>1, <1>2, <2>1
<1>5. \A c, d \in E \cup {e} : c.no = d.no => c = d
  BY <1>4 DEF InSequence
<1>. QED
  BY <1>1, <1>3, <1>5 DEF InSequence, n

LEMMA EventCommitted ==
    ASSUME LogSound, NEW w \in Writers, CommitAppend(w)
    PROVE  LogSound'
<1> DEFINE log == append[w].log
           e == [no |-> append[w].no, by |-> w]
           E == events[log]
<1>1. append[w].at = "commit"
  BY DEF CommitAppend
<1>2. fileLock = w /\ log \in Logs /\ append[w].no = Cardinality(E) + 1
      /\ Cardinality(E) < MaxEvents
  BY <1>1 DEF LogSound, WriterKeeps
<1>3. InSequence(E)
  BY <1>2 DEF LogSound
<1>4. Cardinality(E) \in Nat /\ MaxEvents \in Nat
  BY <1>3, FS_CardinalityType, EventLogAssumption DEF InSequence
<1>5. e.no = Cardinality(E) + 1 /\ e \in EventRows
  <2>1. append[w].no \in 1..MaxEvents + 1
    BY <1>2, <1>4
  <2>. QED
    BY <1>2, <2>1 DEF EventRows
<1>6. events' = [events EXCEPT ![log] = E \cup {e}] /\ UNCHANGED <<shown, rated>>
      /\ append' = [append EXCEPT ![w] = Idle] /\ fileLock' = Nobody
  BY DEF CommitAppend
<1>7. e \notin E
  <2>1. \A d \in E : d.no \in 1..Cardinality(E)
    BY <1>3 DEF InSequence
  <2>. QED
    BY <1>4, <1>5, <2>1
<1>. HIDE DEF e
<1>8. InSequence(E \cup {e})
  BY <1>3, <1>5, <1>7, OneMoreEvent
<1>9. events \in [Logs -> SUBSET EventRows] /\ append \in [Writers -> Appends]
  BY DEF LogSound, EventLogTypeOK, Appends
<1>10. events' \in [Logs -> SUBSET EventRows]
  BY <1>2, <1>5, <1>6, <1>9
<1>11. Idle \in Appends /\ Idle.at = "idle"
  BY <1>4 DEF Idle, Appends
<1>12. append' \in [Writers -> Appends] /\ append'[w].at = "idle"
  BY <1>6, <1>9, <1>11
<1>13. \A l \in Logs : InSequence(events'[l])
  BY <1>6, <1>8, <1>9 DEF LogSound
<1>14. ASSUME NEW v \in Writers PROVE WriterKeeps(v)'
  <2>1. CASE v = w
    BY <1>12, <2>1 DEF WriterKeeps
  <2>2. CASE v # w
    <3>1. append'[v] = append[v]
      BY <1>6, <1>9, <2>2
    <3>2. append[v].at \notin {"begun", "insert", "commit", "collided"}
      BY <1>2, <2>2 DEF LogSound, WriterKeeps
    <3>. QED
      BY <3>1, <3>2 DEF WriterKeeps
  <2>. QED
    BY <2>1, <2>2
<1>15. \A l \in Logs : events[l] \subseteq events'[l]
  BY <1>6, <1>9
<1>16. ShownInPlace'
  BY <1>6, <1>15 DEF LogSound, ShownInPlace
<1>17. EventLogTypeOK'
  BY <1>6, <1>10, <1>12 DEF LogSound, EventLogTypeOK, Appends
<1>. QED
  BY <1>13, <1>14, <1>16, <1>17 DEF LogSound

LEMMA LogStays == EventLogSpec => []LogSound
<1>1. EventLogInit => LogSound
  <2> SUFFICES ASSUME EventLogInit PROVE LogSound
    OBVIOUS
  <2>1. MaxEvents \in Nat /\ 0 \in 0..MaxEvents /\ 0 \in 0..MaxEvents + 1
    BY EventLogAssumption
  <2>2. InSequence({})
    <3>1. IsFiniteSet({}) /\ Cardinality({}) = 0
      BY FS_EmptySet
    <3>. QED
      BY <3>1 DEF InSequence
  <2>3. EventLogTypeOK
    BY <2>1 DEF EventLogInit, EventLogTypeOK, Idle, NothingShown, NothingRated
  <2>4. ShownInPlace
    BY DEF EventLogInit, ShownInPlace, NothingShown, NothingRated
  <2>5. \A w \in Writers : WriterKeeps(w)
    BY DEF EventLogInit, WriterKeeps, Idle
  <2>. QED
    BY <2>2, <2>3, <2>4, <2>5 DEF LogSound, EventLogInit
<1>2. LogSound /\ [EventLogNext]_eventLogVars => LogSound'
  <2> SUFFICES ASSUME LogSound, [EventLogNext]_eventLogVars PROVE LogSound'
    OBVIOUS
  <2>1. /\ append \in [Writers -> Appends] /\ fileLock \in Writers \cup {Nobody}
        /\ events \in [Logs -> SUBSET EventRows] /\ MaxEvents \in Nat
    BY EventLogAssumption DEF LogSound, EventLogTypeOK, Appends
  <2>2. Idle \in Appends /\ Idle.at = "idle"
    BY <2>1 DEF Idle, Appends
  <2>3. ASSUME NEW w \in Writers, NEW log \in Logs, BeginImmediate(w, log) PROVE LogSound'
    <3> DEFINE x == [Idle EXCEPT !.at = "begun", !.log = log]
    <3>1. x \in Appends /\ x.at = "begun" /\ x.log = log
      BY <2>2 DEF Appends
    <3>2. /\ append' = [append EXCEPT ![w] = x] /\ UNCHANGED <<events, shown, rated>>
          /\ fileLock = Nobody /\ fileLock' = w /\ Cardinality(events[log]) < MaxEvents
      BY <2>3 DEF BeginImmediate
    <3>. HIDE DEF x
    <3>3. \A v \in Writers \ {w} : fileLock = v => fileLock' = v
      BY <3>2, EventLogAssumption
    <3>. QED
      BY <3>1, <3>2, <3>3, WriterMoves
  <2>4. ASSUME NEW w \in Writers, LockTimesOut(w) PROVE LogSound'
    <3> DEFINE x == [append[w] EXCEPT !.at = "refused"]
    <3>1. x \in Appends /\ x.at = "refused"
      BY <2>1 DEF Appends
    <3>2. append' = [append EXCEPT ![w] = x] /\ UNCHANGED <<events, fileLock, shown, rated>>
      BY <2>4 DEF LockTimesOut
    <3>. HIDE DEF x
    <3>. QED
      BY <2>1, <3>1, <3>2, WriterMoves
  <2>5. ASSUME NEW w \in Writers, SelectNext(w) PROVE LogSound'
    <3> DEFINE log == append[w].log
    <3>1. append[w].at = "begun"
      BY <2>5 DEF SelectNext
    <3>2. fileLock = w /\ log \in Logs /\ Cardinality(events[log]) < MaxEvents
      BY <3>1 DEF LogSound, WriterKeeps
    <3>3. InSequence(events[log])
      BY <3>2 DEF LogSound
    <3>4. NextNumber(log) = Cardinality(events[log]) + 1
      BY <3>2, <3>3, NextIsOneMore
    <3>5. Cardinality(events[log]) \in Nat
      BY <3>3, FS_CardinalityType DEF InSequence
    <3> DEFINE n == NextNumber(log)
    <3>6. n \in 0..MaxEvents + 1
      BY <2>1, <3>2, <3>4, <3>5
    <3> DEFINE x == [[append[w] EXCEPT !.at = "insert"] EXCEPT !.no = n]
    <3>7. /\ append' = [append EXCEPT ![w].at = "insert", ![w].no = n]
          /\ UNCHANGED <<events, fileLock, shown, rated>>
      BY <2>5 DEF SelectNext
    <3>8. n = Cardinality(events[append[w].log]) + 1
      BY <3>4
    <3>. HIDE DEF n
    <3>9. x \in Appends /\ x.at = "insert" /\ x.no = n /\ x.log = log
      BY <2>1, <3>6 DEF Appends
    <3>10. append' = [append EXCEPT ![w] = x]
      BY <2>1, <3>7
    <3>. HIDE DEF x
    <3>. QED
      BY <2>1, <3>2, <3>7, <3>8, <3>9, <3>10, WriterMoves
  <2>6. ASSUME NEW w \in Writers, InsertRow(w) PROVE LogSound'
    <3> DEFINE x == [append[w] EXCEPT !.at = "commit"]
               log == append[w].log
    <3>1. append[w].at = "insert"
      BY <2>6 DEF InsertRow
    <3>2. /\ fileLock = w /\ log \in Logs /\ Cardinality(events[log]) < MaxEvents
          /\ append[w].no = Cardinality(events[log]) + 1
      BY <3>1 DEF LogSound, WriterKeeps
    <3>3. append[w].no \notin Numbers(log)
      <4>1. InSequence(events[log])
        BY <3>2 DEF LogSound
      <4>2. Cardinality(events[log]) \in Nat /\ Numbers(log) = 1..Cardinality(events[log])
        BY <4>1, FS_CardinalityType DEF InSequence, Numbers
      <4>. QED
        BY <3>2, <4>2
    <3>4. /\ append' = [append EXCEPT ![w] = x] /\ fileLock' = w
          /\ UNCHANGED <<events, shown, rated>>
      BY <2>6, <3>3 DEF InsertRow
    <3>5. x \in Appends /\ x.at = "commit" /\ x.log = log /\ x.no = append[w].no
      BY <2>1 DEF Appends
    <3>. HIDE DEF x
    <3>. QED
      BY <3>2, <3>4, <3>5, WriterMoves
  <2>7. ASSUME NEW w \in Writers, RollBack(w) PROVE LogSound'
    <3>1. /\ append' = [append EXCEPT ![w] = Idle] /\ UNCHANGED <<events, shown, rated>>
          /\ fileLock' = IF fileLock = w THEN Nobody ELSE fileLock
      BY <2>7 DEF RollBack
    <3>2. /\ fileLock' \in Writers \cup {Nobody}
          /\ \A v \in Writers \ {w} : fileLock = v => fileLock' = v
      BY <2>1, <3>1
    <3>. QED
      BY <2>2, <3>1, <3>2, WriterMoves
  <2>8. ASSUME NEW log \in Logs, ListEvents(log) PROVE LogSound'
    <3>1. /\ shown' = [log |-> log, rows |-> Listing(log)] /\ rated' = NothingRated
          /\ UNCHANGED <<events, fileLock, append>>
      BY <2>8 DEF ListEvents
    <3>2. InSequence(events[log])
      BY DEF LogSound
    <3>3. \A i \in DOMAIN Listing(log) : Listing(log)[i] \in events[log]
                                         /\ Listing(log)[i].no = i
      BY <3>2, ListedInPlace
    <3>4. shown'.log = log /\ shown'.rows = Listing(log) /\ rated'.place = 0
      BY <3>1 DEF NothingRated
    <3>5. ShownInPlace'
      BY <3>1, <3>3, <3>4 DEF ShownInPlace
    <3>6. \A i \in DOMAIN Listing(log) : Listing(log)[i] \in EventRows
      BY <2>1, <3>3
    <3>7. 0 \in 0..MaxEvents
      BY <2>1
    <3>8. EventLogTypeOK'
      BY <2>1, <3>1, <3>4, <3>6, <3>7 DEF EventLogTypeOK, Appends
    <3>. QED
      BY <3>1, <3>5, <3>8 DEF LogSound, WriterKeeps
  <2>9. ASSUME NEW place \in 1..MaxEvents, RateEvent(place) PROVE LogSound'
    <3>1. /\ place \in DOMAIN shown.rows /\ place \in DOMAIN Listing(shown.log)
          /\ rated' = [place |-> place, event |-> Listing(shown.log)[place]]
          /\ UNCHANGED <<events, fileLock, append, shown>>
      BY <2>9 DEF RateEvent
    <3>2. /\ shown.log \in Logs /\ shown.rows[place] \in events[shown.log]
          /\ shown.rows[place].no = place
      BY <3>1 DEF LogSound, ShownInPlace
    <3>3. InSequence(events[shown.log])
      BY <3>2 DEF LogSound
    <3>4. Listing(shown.log)[place] \in events[shown.log]
          /\ Listing(shown.log)[place].no = place
      BY <3>1, <3>2, <3>3, ListedInPlace
    <3>5. Listing(shown.log)[place] = shown.rows[place]
      BY <3>2, <3>3, <3>4 DEF InSequence
    <3>6. rated'.place = place /\ rated'.event = shown.rows[place]
      BY <3>1, <3>5
    <3>7. ShownInPlace'
      BY <3>1, <3>6 DEF LogSound, ShownInPlace
    <3>8. place \in 0..MaxEvents
      BY <2>1
    <3>9. EventLogTypeOK'
      BY <2>1, <3>1, <3>6, <3>8 DEF LogSound, EventLogTypeOK, Appends
    <3>. QED
      BY <3>1, <3>7, <3>9 DEF LogSound, WriterKeeps
  <2>10. CASE UNCHANGED eventLogVars
    BY <2>10 DEF eventLogVars, LogSound, EventLogTypeOK, ShownInPlace, WriterKeeps
  <2>11. ASSUME NEW w \in Writers,
                \/ LockTimesOut(w) \/ SelectNext(w) \/ InsertRow(w) \/ CommitAppend(w)
                \/ RollBack(w) \/ \E log \in Logs : BeginImmediate(w, log)
         PROVE  LogSound'
    BY <2>3, <2>4, <2>5, <2>6, <2>7, <2>11, EventCommitted, Zenon
  <2>. QED
    BY <2>8, <2>9, <2>10, <2>11, Zenon DEF EventLogNext
<1>. QED
  BY <1>1, <1>2, PTL DEF EventLogSpec

\* Any number of writers to any number of logs: no gap, no number twice, no
\* append refused but for the lock, and what is rated is what stood at that
\* place of the screen (db.py:813-847, cli.py:2166-2205).
THEOREM EventsAreInPlace == EventLogSpec => []EventsKeepTheirPlaces
<1>1. LogSound => EventsKeepTheirPlaces
  BY DEF LogSound, InSequence, WriterKeeps, ShownInPlace, EventsKeepTheirPlaces, Numbers
<1>. QED
  BY <1>1, LogStays, PTL

\* The domains of the tables, of the writers' locals and of the screen.
THEOREM LogTyped == EventLogSpec => []EventLogTypeOK
BY LogStays, PTL DEF LogSound

-----------------------------------------------------------------------------
(* All services in one run *)

\* A step of the run is a step of one service and of no other.
LEMMA ServiceSteps ==
    [Next]_vars => /\ [EventLogNext]_eventLogVars /\ [EmbeddingNext]_embeddingVars
                   /\ [CollectionsNext]_collectionVars /\ [McpNext]_mcpVars
                   /\ [ProcessNext]_processVars
<1>1. NextLog => /\ EventLogNext
                 /\ UNCHANGED <<embeddingVars, collectionVars, mcpVars, processVars>>
  BY Zenon DEF NextLog, InLog, EventLogNext
<1>2. NextQueue => /\ EmbeddingNext
                   /\ UNCHANGED <<eventLogVars, collectionVars, mcpVars, processVars>>
  BY Zenon DEF NextQueue, InQueue, EmbeddingNext, WorkerStep
<1>3. NextShelf => /\ CollectionsNext
                   /\ UNCHANGED <<eventLogVars, embeddingVars, mcpVars, processVars>>
  BY Zenon DEF NextShelf, InShelf, CollectionsNext
<1>4. NextMcp => /\ McpNext
                 /\ UNCHANGED <<eventLogVars, embeddingVars, collectionVars, processVars>>
  BY Zenon DEF NextMcp, InMcp, McpNext
<1>5. NextProcess => /\ ProcessNext
                     /\ UNCHANGED <<eventLogVars, embeddingVars, collectionVars, mcpVars>>
  BY Zenon DEF NextProcess, InProcess, ProcessNext, WatchStep
<1>6. UNCHANGED vars
        => UNCHANGED <<eventLogVars, embeddingVars, collectionVars, mcpVars, processVars>>
  BY DEF vars
<1>. QED
  BY <1>1, <1>2, <1>3, <1>4, <1>5, <1>6 DEF Next

LEMMA ServiceBehaviours ==
    Spec => EventLogSpec /\ EmbeddingSpec /\ CollectionsSpec /\ McpSpec /\ ProcessSpec
<1>1. Init => EventLogInit /\ EmbeddingInit /\ CollectionsInit /\ McpInit /\ ProcessInit
  BY DEF Init
<1>. QED
  BY <1>1, ServiceSteps, PTL
     DEF Spec, EventLogSpec, EmbeddingSpec, CollectionsSpec, McpSpec, ProcessSpec

\* No thread returns while its command runs or is stopped, and no status
\* request ends with a server running that it has started well, whatever
\* signals, answers and exits cross (subprocess_command.py:29-47,
\* mcp_client.py:153-187).
THEOREM NobodyIsLeft == Spec => []NoProcessIsLeft
<1>1. GoneOnlyAfterExit => CommandEndsFirst
  BY DEF GoneOnlyAfterExit, CommandEndsFirst
<1>2. CommandEndsFirst /\ OnlyFailedStartsStay => NoProcessIsLeft
  BY DEF NoProcessIsLeft
<1>. QED
  BY <1>1, <1>2, ServiceBehaviours, ProcessStays, OthersAreStopped, PTL

\* In the composition the rows, buffers, pipes and labels of every service keep
\* their domains, and an embedding job has one row.
THEOREM ServicesTyped == Spec => []ServicesTypeOK
<1>1. Init => part \in Parts
  BY DEF Init
<1>2. part \in Parts /\ [Next]_vars => (part \in Parts)'
  BY Zenon DEF Next, NextLog, NextQueue, NextShelf, NextMcp, NextProcess,
               InLog, InQueue, InShelf, InMcp, InProcess, vars
<1>3. part \in Parts /\ EventLogTypeOK /\ EmbeddingTypeOK /\ CollectionsTypeOK /\ McpTypeOK /\ ProcessTypeOK
         => ServicesTypeOK
  BY DEF ServicesTypeOK
<1>. QED
  BY <1>1, <1>2, <1>3, ServiceBehaviours, LogTyped, QueueTyped, ShelfTyped, ServersTyped, ProcessStays,
     PTL DEF Spec

=============================================================================
