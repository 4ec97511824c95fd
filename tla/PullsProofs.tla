----------------------------- MODULE PullsProofs -----------------------------
(***************************************************************************)
(* Proofs about Pulls, for any identifiers of downloads, any limit and any *)
(* finite number of concurrent requests.                                   *)
(***************************************************************************)
EXTENDS Pulls, FiniteSetTheorems, SequenceTheorems, TLAPS

(***************************************************************************)
(* The inductive invariant                                                 *)
(***************************************************************************)

\* A request that has a download to insert, or has inserted it and not started it.
Coming(h)  == handler[h].op = "post" /\ handler[h].pc \in {"wait_write", "start"}

\* A request that passed the limit and whose download is not in the map yet.
Passed == {h \in Handler : handler[h].op = "post" /\ handler[h].pc \in {"fetch", "wait_write"}}

\* Where a request stands says what it is about and what it has of the lock.  A request that
\* deletes keeps the read lock while it waits for the write lock: it never gets it, and no
\* download is removed by request.
Places ==
  \A h \in Handler :
    /\ h \in ToSet(queue) => handler[h].pc \in {"wait_read", "wait_write"}
    /\ At(h, "read") => h \in readers
    /\ At(h, "wait_write") => \/ handler[h].op = "post"
                              \/ handler[h].op = "delete" /\ h \in readers
    /\ handler[h].pc \in {"fetch", "start", "foreground"} => handler[h].op = "post"
    /\ Coming(h) => handler[h].download \in Download

\* A download that is coming has no task, is nobody else's, and from its insertion to its
\* start it is in the map or was swept.
Untouched ==
  /\ \A h \in Handler :
       Coming(h) =>
         /\ task[handler[h].download] = "none"
         /\ At(h, "start") => handler[h].download \in pulls \cup early
  /\ \A g, h \in Handler :
       Coming(g) /\ Coming(h) /\ handler[g].download = handler[h].download => g = h

\* What runs is in the map, or was swept before it ran.
Listed == \A d \in Download : task[d] = "running" => d \in pulls \cup early

\* Each download that is yet to come into the map has passed the limit.
Bounded ==
  /\ IsFiniteSet(pulls)
  /\ Cardinality(pulls) + Cardinality(Passed) + 1 <= MaxPulls + Cardinality(Handler)

Inv == TypeOK /\ Places /\ Untouched /\ Listed /\ Bounded

(***************************************************************************)
(* The queue of the lock                                                   *)
(***************************************************************************)

\* The elements of a sequence are what it holds.
LEMMA Elements ==
  ASSUME NEW S, NEW s \in Seq(S)
  PROVE  ToSet(s) = {s[i] : i \in 1..Len(s)}
  BY LenProperties DEF ToSet

\* Who does not wait yet comes last.
LEMMA Joins ==
  ASSUME NEW S, NEW s \in Seq(S), IsInjective(s), NEW e \in S, e \notin ToSet(s)
  PROVE  /\ Append(s, e) \in Seq(S) /\ IsInjective(Append(s, e))
         /\ ToSet(Append(s, e)) = ToSet(s) \cup {e}
<1>0. Len(s) \in Nat /\ DOMAIN s = 1..Len(s) /\ ToSet(s) = {s[i] : i \in 1..Len(s)}
  BY LenProperties, Elements
<1> DEFINE n == Len(s)
           t == Append(s, e)
<1>1. /\ t \in Seq(S) /\ Len(t) = n + 1 /\ t[n + 1] = e
      /\ \A i \in 1..n : t[i] = s[i]
  BY AppendProperties
<1>2. DOMAIN t = 1..(n + 1) /\ ToSet(t) = {t[i] : i \in 1..(n + 1)}
  BY <1>1, LenProperties, Elements
<1> HIDE DEF n, t
<1>3. \A i \in 1..(n + 1) : i = n + 1 \/ i \in 1..n
  BY <1>0 DEF n
<1>4. \A i \in 1..n : s[i] # e
  BY <1>0 DEF n
<1>5. \A i, j \in 1..n : s[i] = s[j] => i = j
  BY <1>0 DEF IsInjective, n
<1>6. IsInjective(t)
  BY <1>1, <1>2, <1>3, <1>4, <1>5 DEF IsInjective
<1>7. ToSet(t) = ToSet(s) \cup {e}
  <2>1. n + 1 \in 1..(n + 1) /\ \A i \in 1..n : i \in 1..(n + 1)
    BY <1>0 DEF n
  <2>2. QED
    BY <1>0, <1>1, <1>2, <1>3, <2>1 DEF n
<1>8. QED
  BY <1>1, <1>6, <1>7 DEF t

\* Who gets the lock no longer waits.
LEMMA Leaves ==
  ASSUME NEW S, NEW s \in Seq(S), IsInjective(s), s # <<>>
  PROVE  /\ Tail(s) \in Seq(S) /\ IsInjective(Tail(s)) /\ Head(s) \in S
         /\ ToSet(Tail(s)) \subseteq ToSet(s) \ {Head(s)}
<1>0. Len(s) \in Nat \ {0} /\ DOMAIN s = 1..Len(s) /\ ToSet(s) = {s[i] : i \in 1..Len(s)}
  BY LenProperties, EmptySeq, Elements
<1> DEFINE n == Len(s)
           t == Tail(s)
<1>1. /\ t \in Seq(S) /\ Len(t) = n - 1 /\ Head(s) \in S /\ Head(s) = s[1]
      /\ \A i \in 1..(n - 1) : t[i] = s[i + 1]
  BY HeadTailProperties
<1>2. DOMAIN t = 1..(n - 1) /\ ToSet(t) = {t[i] : i \in 1..(n - 1)}
  BY <1>1, LenProperties, Elements
<1> HIDE DEF n, t
<1>3. \A i \in 1..(n - 1) : i + 1 \in 1..n /\ i + 1 # 1
  BY <1>0 DEF n
<1>4. \A i, j \in 1..n : s[i] = s[j] => i = j
  BY <1>0 DEF IsInjective, n
<1>5. IsInjective(t)
  <2>1. SUFFICES ASSUME NEW i \in 1..(n - 1), NEW j \in 1..(n - 1), t[i] = t[j]
                 PROVE  i = j
    BY <1>2 DEF IsInjective
  <2>2. i + 1 = j + 1
    BY <1>1, <1>3, <1>4, <2>1
  <2>3. QED
    BY <1>0, <2>2 DEF n
<1>6. 1 \in 1..n
  BY <1>0 DEF n
<1>7. ToSet(t) \subseteq ToSet(s) \ {Head(s)}
  BY <1>0, <1>1, <1>2, <1>3, <1>4, <1>6 DEF n
<1>8. QED
  BY <1>1, <1>5, <1>7 DEF t

\* Who hangs up no longer waits, and the others wait as before.
LEMMA HangsUp ==
  ASSUME NEW S, NEW s \in Seq(S), IsInjective(s), NEW e \in S
  PROVE  /\ RemoveFirst(s, e) \in Seq(S) /\ IsInjective(RemoveFirst(s, e))
         /\ ToSet(RemoveFirst(s, e)) \subseteq ToSet(s) \ {e}
<1> DEFINE n == Len(s)
<1>0. n \in Nat /\ DOMAIN s = 1..n /\ ToSet(s) = {s[i] : i \in 1..n}
      /\ \A i \in 1..n : s[i] \in S
  BY LenProperties, Elements, ElementOfSeq
<1>1. \A i, j \in 1..n : s[i] = s[j] => i = j
  BY <1>0 DEF IsInjective
<1>2. CASE ~\E i \in 1..n : s[i] = e
  BY <1>0, <1>2 DEF RemoveFirst
<1>3. CASE \E i \in 1..n : s[i] = e
  <2>1. PICK k \in 1..n : s[k] = e
    BY <1>3
  <2>2. {i \in 1..n : s[i] = e} = {k}
    BY <1>1, <2>1
  <2>3. Min({k}) = k
    BY DEF Min
  <2>4. SelectInSeq(s, LAMBDA v : v = e) = k
    BY <2>2, <2>3 DEF SelectInSeq
  <2>5. RemoveFirst(s, e) = SubSeq(s, 1, k - 1) \o SubSeq(s, k + 1, n)
    BY <1>3, <2>4 DEF RemoveFirst, RemoveAt
  <2> DEFINE u == SubSeq(s, 1, k - 1)
             v == SubSeq(s, k + 1, n)
             t == u \o v
  <2> HIDE DEF n
  <2>6. /\ u \in Seq(S) /\ Len(u) = k - 1
        /\ \A i \in 1..(k - 1) : u[i] = s[i]
    <3>1. /\ u \in Seq(S) /\ Len(u) = IF 1 <= k - 1 THEN k - 1 - 1 + 1 ELSE 0
          /\ \A i \in 1..(k - 1 - 1 + 1) : u[i] = s[1 + i - 1]
      <4>1. \A i \in 1..(k - 1) : s[i] \in S
        BY <1>0
      <4>2. QED
        BY <1>0, <4>1, SubSeqProperties
    <3>2. QED
      BY <1>0, <3>1
  <2>7. /\ v \in Seq(S) /\ Len(v) = n - k
        /\ \A i \in 1..(n - k) : v[i] = s[k + i]
    <3>1. /\ v \in Seq(S) /\ Len(v) = IF k + 1 <= n THEN n - (k + 1) + 1 ELSE 0
          /\ \A i \in 1..(n - (k + 1) + 1) : v[i] = s[(k + 1) + i - 1]
      <4>1. \A i \in (k + 1)..n : s[i] \in S
        BY <1>0
      <4>2. QED
        BY <1>0, <4>1, SubSeqProperties
    <3>2. QED
      BY <1>0, <3>1
  <2> HIDE DEF u, v
  <2>8. /\ t \in Seq(S) /\ Len(t) = n - 1
        /\ \A i \in 1..(n - 1) : t[i] = IF i <= k - 1 THEN s[i] ELSE s[i + 1]
    <3>1. /\ t \in Seq(S) /\ Len(t) = Len(u) + Len(v)
          /\ \A i \in 1..(Len(u) + Len(v)) :
               t[i] = IF i <= Len(u) THEN u[i] ELSE v[i - Len(u)]
      BY <2>6, <2>7, ConcatProperties
    <3>2. Len(u) + Len(v) = n - 1
      BY <1>0, <2>6, <2>7
    <3>3. ASSUME NEW i \in 1..(n - 1)
          PROVE  t[i] = IF i <= k - 1 THEN s[i] ELSE s[i + 1]
      <4>1. CASE i <= k - 1
        <5>1. t[i] = u[i] /\ i \in 1..(k - 1)
          BY <2>6, <3>1, <3>2, <4>1
        <5>2. QED
          BY <2>6, <4>1, <5>1
      <4>2. CASE ~(i <= k - 1)
        <5>1. t[i] = v[i - (k - 1)] /\ i - (k - 1) \in 1..(n - k)
          BY <1>0, <2>6, <3>1, <3>2, <4>2
        <5>2. v[i - (k - 1)] = s[k + (i - (k - 1))] /\ k + (i - (k - 1)) = i + 1
          BY <1>0, <2>7, <5>1
        <5>3. QED
          BY <4>2, <5>1, <5>2
      <4>3. QED
        BY <4>1, <4>2
    <3>4. QED
      BY <3>1, <3>2, <3>3
  <2>9. DOMAIN t = 1..(n - 1) /\ ToSet(t) = {t[i] : i \in 1..(n - 1)}
    BY <2>8, LenProperties, Elements
  <2> HIDE DEF t
  <2>10. IsInjective(t)
    <3>1. SUFFICES ASSUME NEW i \in 1..(n - 1), NEW j \in 1..(n - 1), t[i] = t[j]
                   PROVE  i = j
      BY <2>9 DEF IsInjective
    <3>2. i \in 1..n /\ i + 1 \in 1..n /\ j \in 1..n /\ j + 1 \in 1..n
      BY <1>0
    <3>3. \/ i = j \/ i + 1 = j + 1
          \/ i = j + 1 /\ ~(j <= k - 1) /\ i <= k - 1
          \/ i + 1 = j /\ ~(i <= k - 1) /\ j <= k - 1
      BY <1>1, <2>8, <3>1, <3>2
    <3>4. QED
      BY <1>0, <3>3
  <2>11. ToSet(t) \subseteq ToSet(s) \ {e}
    <3>1. SUFFICES ASSUME NEW i \in 1..(n - 1)
                   PROVE  t[i] \in ToSet(s) /\ t[i] # e
      BY <2>9
    <3>2. PICK j \in 1..n : t[i] = s[j] /\ j # k
      <4>1. CASE i <= k - 1
        BY <1>0, <2>8, <4>1
      <4>2. CASE ~(i <= k - 1)
        BY <1>0, <2>8, <4>2
      <4>3. QED
        BY <4>1, <4>2
    <3>3. QED
      BY <1>0, <1>1, <2>1, <3>2
  <2>12. QED
    BY <2>5, <2>8, <2>10, <2>11 DEF t, u, v
<1>4. QED
  BY <1>2, <1>3

(***************************************************************************)
(* How the records of the requests change                                  *)
(***************************************************************************)

\* A request is given another record, and the others keep theirs.
LEMMA Records ==
  ASSUME TypeOK, NEW h \in Handler
  PROVE  /\ Return(h) =>
              /\ handler' \in [Handler -> HandlerRecord] /\ handler'[h] = Idle
              /\ \A g \in Handler : g # h => handler'[g] = handler[g]
         /\ \A pc \in PC : Goto(h, pc) =>
              /\ handler' \in [Handler -> HandlerRecord]
              /\ handler'[h].pc = pc /\ handler'[h].op = handler[h].op
              /\ handler'[h].download = handler[h].download
              /\ \A g \in Handler : g # h => handler'[g] = handler[g]
  BY DEF TypeOK, Return, Goto, Idle, HandlerRecord, PC

\* A request is given an identifier, and waits for the write lock.
LEMMA Chosen ==
  ASSUME NEW f \in [Handler -> HandlerRecord], NEW h \in Handler, NEW d \in Download
  PROVE  [f EXCEPT ![h].pc = "wait_write", ![h].download = d] \in [Handler -> HandlerRecord]
<1>1. [f EXCEPT ![h].pc = "wait_write"] \in [Handler -> HandlerRecord]
  BY DEF HandlerRecord, PC
<1>2. QED
  BY <1>1 DEF HandlerRecord

(***************************************************************************)
(* Types                                                                   *)
(***************************************************************************)

\* Every step keeps the types; who joins the queue is not in it.
LEMMA TypeStep == PullsAssumption /\ TypeOK /\ Places /\ [Next]_vars => TypeOK'
<1> SUFFICES ASSUME PullsAssumption, TypeOK, Places, [Next]_vars
             PROVE  TypeOK'
  OBVIOUS
<1> USE Records
<1>q. ASSUME NEW h \in Handler, handler[h].pc \notin {"wait_read", "wait_write"}
      PROVE  Append(queue, h) \in Seq(Handler) /\ IsInjective(Append(queue, h))
  BY <1>q, Joins DEF TypeOK, Places
<1>1. ASSUME NEW h \in Handler, NEW o \in Ops, NEW d \in pulls \cup {NoDownload}, Begin(h, o, d)
      PROVE  TypeOK'
  BY <1>1 DEF Begin, TypeOK, PullsAssumption, HandlerRecord, PC
<1>2. ASSUME NEW h \in Handler, Sweep(h)
      PROVE  TypeOK'
  <2>1. Append(queue, h) \in Seq(Handler) /\ IsInjective(Append(queue, h))
    BY <1>2, <1>q DEF Sweep, At
  <2>2. pulls' \subseteq Download /\ early' \subseteq Download
    BY <1>2 DEF Sweep, Swept, TypeOK
  <2>3. QED
    BY <1>2, <2>1, <2>2 DEF Sweep, TypeOK, PC
<1>3. ASSUME NEW h \in Handler, GrantRead(h)
      PROVE  TypeOK'
  <2>1. Tail(queue) \in Seq(Handler) /\ IsInjective(Tail(queue))
    BY <1>3, Leaves DEF GrantRead, TypeOK
  <2>2. QED
    BY <1>3, <2>1 DEF GrantRead, TypeOK, PC
<1>4. ASSUME NEW h \in Handler, List(h) \/ CheckLimit(h) \/ FetchFails(h) \/ NotFound(h) \/ Finish(h)
      PROVE  TypeOK'
  BY <1>4 DEF List, CheckLimit, FetchFails, NotFound, Finish, TypeOK, PC
<1>5. ASSUME NEW h \in Handler, Fetched(h)
      PROVE  TypeOK'
  <2>1. Append(queue, h) \in Seq(Handler) /\ IsInjective(Append(queue, h))
    BY <1>5, <1>q DEF Fetched, At
  <2>2. PICK d \in Download \ Referenced :
          /\ handler' = [handler EXCEPT ![h].pc = "wait_write", ![h].download = d]
          /\ task' = [task EXCEPT ![d] = "none"]
          /\ early' = early \ {d}
    BY <1>5 DEF Fetched
  <2>3. handler' \in [Handler -> HandlerRecord]
    BY <2>2, Chosen DEF TypeOK
  <2>4. QED
    BY <1>5, <2>1, <2>2, <2>3 DEF Fetched, TypeOK, Tasks
<1>6. ASSUME NEW h \in Handler, GrantWrite(h)
      PROVE  TypeOK'
  <2>1. Tail(queue) \in Seq(Handler) /\ IsInjective(Tail(queue))
    BY <1>6, Leaves DEF GrantWrite, TypeOK
  <2>2. pulls' \subseteq Download
    BY <1>6 DEF GrantWrite, TypeOK, Places, Coming, At
  <2>3. handler' \in [Handler -> HandlerRecord]
    BY <1>6 DEF GrantWrite, PC
  <2>4. QED
    BY <1>6, <2>1, <2>2, <2>3 DEF GrantWrite, TypeOK
<1>7. ASSUME NEW h \in Handler, Start(h)
      PROVE  TypeOK'
  BY <1>7 DEF Start, TypeOK, PC, Tasks
<1>8. ASSUME NEW h \in Handler, Abort(h)
      PROVE  TypeOK'
  <2>1. Append(queue, h) \in Seq(Handler) /\ IsInjective(Append(queue, h))
    BY <1>8, <1>q DEF Abort, At
  <2>2. task' \in [Download -> Tasks]
    BY <1>8 DEF Abort, TypeOK, Tasks
  <2>3. QED
    BY <1>8, <2>1, <2>2 DEF Abort, TypeOK, PC
<1>9. ASSUME NEW h \in Handler, Disconnect(h)
      PROVE  TypeOK'
  <2>1. RemoveFirst(queue, h) \in Seq(Handler) /\ IsInjective(RemoveFirst(queue, h))
    BY HangsUp DEF TypeOK
  <2>2. QED
    BY <1>9, <2>1 DEF Disconnect, TypeOK
<1>10. ASSUME NEW d \in Download, TaskEnds(d)
       PROVE  TypeOK'
  BY <1>10 DEF TaskEnds, TypeOK, Tasks
<1>11. CASE UNCHANGED vars
  BY <1>11 DEF vars, TypeOK
<1>12. QED
  BY <1>1, <1>2, <1>3, <1>4, <1>5, <1>6, <1>7, <1>8, <1>9, <1>10, <1>11 DEF Next, Steps

(***************************************************************************)
(* Where the requests stand                                                *)
(***************************************************************************)

\* What Places says of one request.
Place(h) ==
  /\ h \in ToSet(queue) => handler[h].pc \in {"wait_read", "wait_write"}
  /\ At(h, "read") => h \in readers
  /\ At(h, "wait_write") => \/ handler[h].op = "post"
                            \/ handler[h].op = "delete" /\ h \in readers
  /\ handler[h].pc \in {"fetch", "start", "foreground"} => handler[h].op = "post"
  /\ Coming(h) => handler[h].download \in Download

\* A request that is not stepping keeps its place, as long as the step takes from it neither
\* the lock nor its turn.
LEMMA Bystander ==
  ASSUME Places, NEW g \in Handler, handler'[g] = handler[g],
         g \in readers => g \in readers',
         g \in ToSet(queue)' => g \in ToSet(queue)
  PROVE  Place(g)'
  BY DEF Places, Place, At, Coming

\* Every step keeps every request in its place.
LEMMA PlacesStep == TypeOK /\ Places /\ [Next]_vars => Places'
<1> SUFFICES ASSUME TypeOK, Places, [Next]_vars
             PROVE  \A g \in Handler : Place(g)'
  BY DEF Places, Place
<1> USE Records
<1>q. ASSUME NEW h \in Handler, handler[h].pc \notin {"wait_read", "wait_write"}
      PROVE  ToSet(Append(queue, h)) = ToSet(queue) \cup {h}
  BY <1>q, Joins DEF TypeOK, Places
<1>t. queue # <<>> => ToSet(Tail(queue)) \subseteq ToSet(queue) \ {Head(queue)}
  BY Leaves DEF TypeOK
<1>r. \A h \in Handler : ToSet(RemoveFirst(queue, h)) \subseteq ToSet(queue) \ {h}
  BY HangsUp DEF TypeOK
<1>1. ASSUME NEW h \in Handler, NEW o \in Ops, NEW d \in pulls \cup {NoDownload},
             Begin(h, o, d), NEW g \in Handler
      PROVE  Place(g)'
  <2>1. CASE g = h
    BY <1>1, <2>1 DEF Begin, Place, Places, At, Coming, TypeOK
  <2>2. CASE g # h
    BY <1>1, <2>2, Bystander DEF Begin, TypeOK
  <2>3. QED
    BY <2>1, <2>2
<1>2. ASSUME NEW h \in Handler, Sweep(h) \/ GrantRead(h), NEW g \in Handler
      PROVE  Place(g)'
  <2>1. CASE g = h
    BY <1>2, <1>t, <2>1 DEF Sweep, GrantRead, Place, At, Coming, PC
  <2>2. CASE g # h
    BY <1>2, <1>q, <1>t, <2>2, Bystander DEF Sweep, GrantRead, PC, At
  <2>3. QED
    BY <2>1, <2>2
<1>3. ASSUME NEW h \in Handler,
             List(h) \/ CheckLimit(h) \/ FetchFails(h) \/ NotFound(h) \/ Finish(h) \/ Start(h),
             NEW g \in Handler
      PROVE  Place(g)'
  <2>1. CASE g = h
    BY <1>3, <2>1 DEF List, CheckLimit, FetchFails, NotFound, Finish, Start, Place, Places,
                      Idle, At, Coming, PC
  <2>2. CASE g # h
    BY <1>3, <2>2, Bystander DEF List, CheckLimit, FetchFails, NotFound, Finish, Start, PC
  <2>3. QED
    BY <2>1, <2>2
<1>4. ASSUME NEW h \in Handler, Fetched(h), NEW g \in Handler
      PROVE  Place(g)'
  <2>1. PICK d \in Download :
          handler' = [handler EXCEPT ![h].pc = "wait_write", ![h].download = d]
    BY <1>4 DEF Fetched
  <2>2. CASE g = h
    <3>1. /\ handler'[h].pc = "wait_write" /\ handler'[h].op = handler[h].op
          /\ handler'[h].download = d
      BY <2>1 DEF TypeOK, HandlerRecord
    <3>2. handler[h].op = "post"
      BY <1>4 DEF Fetched, Places, At
    <3>3. QED
      BY <2>2, <3>1, <3>2 DEF Place, At, Coming
  <2>3. CASE g # h
    <3>1. handler'[g] = handler[g] /\ readers' = readers
      BY <1>4, <2>1, <2>3 DEF Fetched, TypeOK
    <3>2. ToSet(queue)' = ToSet(queue) \cup {h}
      BY <1>4, <1>q DEF Fetched, At
    <3>3. QED
      BY <2>3, <3>1, <3>2, Bystander
  <2>4. QED
    BY <2>2, <2>3
<1>5. ASSUME NEW h \in Handler, GrantWrite(h), NEW g \in Handler
      PROVE  Place(g)'
  <2>1. CASE g = h
    BY <1>5, <1>t, <2>1 DEF GrantWrite, Place, Places, Idle, At, Coming, PC
  <2>2. CASE g # h
    BY <1>5, <1>t, <2>2, Bystander DEF GrantWrite, PC
  <2>3. QED
    BY <2>1, <2>2
<1>6. ASSUME NEW h \in Handler, Abort(h), NEW g \in Handler
      PROVE  Place(g)'
  <2>1. CASE g = h
    BY <1>6, <2>1 DEF Abort, Place, Places, At, Coming, PC
  <2>2. CASE g # h
    BY <1>6, <1>q, <2>2, Bystander DEF Abort, PC, At
  <2>3. QED
    BY <2>1, <2>2
<1>7. ASSUME NEW h \in Handler, Disconnect(h), NEW g \in Handler
      PROVE  Place(g)'
  <2>1. CASE g = h
    BY <1>7, <1>r, <2>1 DEF Disconnect, Place, Idle, At, Coming
  <2>2. CASE g # h
    BY <1>7, <1>r, <2>2, Bystander DEF Disconnect
  <2>3. QED
    BY <2>1, <2>2
<1>8. ASSUME UNCHANGED <<handler, readers, queue>>, NEW g \in Handler
      PROVE  Place(g)'
  BY <1>8, Bystander
<1>9. QED
  BY <1>1, <1>2, <1>3, <1>4, <1>5, <1>6, <1>7, <1>8 DEF Next, Steps, TaskEnds, vars

(***************************************************************************)
(* The downloads that are coming                                           *)
(***************************************************************************)

\* Requests that are coming came before, or have just chosen an identifier.
LEMMA UntouchedStep == TypeOK /\ Places /\ Untouched /\ [Next]_vars => Untouched'
<1> SUFFICES ASSUME TypeOK, Places, Untouched, [Next]_vars
             PROVE  Untouched'
  OBVIOUS
<1> USE Records
\* A step that makes no request coming, gives none of those that are a task and takes
\* none of theirs from the map without noting it.
<1>0. ASSUME \A g \in Handler :
               Coming(g)' =>
                 /\ Coming(g) /\ handler'[g].download = handler[g].download
                 /\ task'[handler[g].download] = "none"
                 /\ At(g, "start")' => handler[g].download \in pulls' \cup early'
      PROVE  Untouched'
  BY <1>0 DEF Untouched
<1>1. ASSUME NEW h \in Handler, NEW o \in Ops, NEW d \in pulls \cup {NoDownload}, Begin(h, o, d)
      PROVE  Untouched'
  <2>1. handler'[h].pc = "pulls" /\ \A g \in Handler : g # h => handler'[g] = handler[g]
    BY <1>1 DEF Begin, TypeOK
  <2>2. QED
    BY <1>0, <1>1, <2>1 DEF Begin, Untouched, Coming, At
<1>2. ASSUME NEW h \in Handler, Sweep(h)
      PROVE  Untouched'
  <2>1. handler'[h].pc = "wait_read" /\ \A g \in Handler : g # h => handler'[g] = handler[g]
    BY <1>2 DEF Sweep, PC
  <2>2. task' = task
        /\ \A d \in pulls \cup early : task[d] = "none" => d \in pulls' \cup early'
    BY <1>2 DEF Sweep, Swept
  <2>3. QED
    BY <1>0, <2>1, <2>2 DEF Untouched, Coming, At
<1>3. ASSUME NEW h \in Handler,
             \/ GrantRead(h) \/ List(h) \/ CheckLimit(h) \/ FetchFails(h) \/ NotFound(h)
             \/ Finish(h) \/ Disconnect(h)
      PROVE  Untouched'
  <2>1. /\ handler'[h].pc \in {"idle", "read", "fetch"}
        /\ \A g \in Handler : g # h => handler'[g] = handler[g]
    BY <1>3 DEF GrantRead, List, CheckLimit, FetchFails, NotFound, Finish, Disconnect, PC, Idle
  <2>2. pulls' = pulls /\ early' = early /\ task' = task
    BY <1>3 DEF GrantRead, List, CheckLimit, FetchFails, NotFound, Finish, Disconnect
  <2>3. QED
    BY <1>0, <2>1, <2>2 DEF Untouched, Coming, At
<1>4. ASSUME NEW h \in Handler, Fetched(h)
      PROVE  Untouched'
  <2>1. PICK d \in Download \ Referenced :
          /\ handler' = [handler EXCEPT ![h].pc = "wait_write", ![h].download = d]
          /\ task' = [task EXCEPT ![d] = "none"]
          /\ early' = early \ {d}
    BY <1>4 DEF Fetched
  <2>2. /\ handler'[h].pc = "wait_write" /\ handler'[h].download = d
        /\ \A g \in Handler : g # h => handler'[g] = handler[g]
    BY <2>1 DEF TypeOK, HandlerRecord
  <2>3. \A g \in Handler : handler[g].download # d
    BY DEF Referenced
  <2>4. pulls' = pulls /\ task'[d] = "none" /\ \A e \in Download \ {d} : task'[e] = task[e]
    BY <1>4, <2>1 DEF Fetched, TypeOK
  <2>5. ASSUME NEW g \in Handler, Coming(g)'
        PROVE  /\ task'[handler'[g].download] = "none"
               /\ At(g, "start")' => handler'[g].download \in pulls' \cup early'
    <3>1. CASE g = h
      BY <2>2, <2>4, <3>1 DEF At
    <3>2. CASE g # h
      <4>1. Coming(g) /\ handler'[g] = handler[g] /\ handler[g].download \in Download \ {d}
        BY <2>2, <2>3, <2>5, <3>2 DEF Coming, Places
      <4>2. task[handler[g].download] = "none"
        BY <4>1 DEF Untouched
      <4>3. At(g, "start")' => handler[g].download \in pulls \cup early
        BY <4>1 DEF Untouched, At
      <4>4. task'[handler[g].download] = "none"
        BY <2>4, <4>1, <4>2
      <4>5. \A e \in pulls \cup early : e # d => e \in pulls' \cup early'
        BY <2>1, <2>4
      <4>6. QED
        BY <4>1, <4>3, <4>4, <4>5
    <3>3. QED
      BY <3>1, <3>2
  <2>6. ASSUME NEW f \in Handler, NEW g \in Handler, Coming(f)', Coming(g)',
               handler'[f].download = handler'[g].download
        PROVE  f = g
    BY <2>2, <2>3, <2>6 DEF Untouched, Coming
  <2>7. QED
    BY <2>5, <2>6 DEF Untouched
<1>5. ASSUME NEW h \in Handler, GrantWrite(h)
      PROVE  Untouched'
  <2>1. /\ handler'[h].pc \in {"start", "idle"}
        /\ \A g \in Handler : g # h => handler'[g] = handler[g]
    BY <1>5 DEF GrantWrite, PC, Idle
  <2>2. /\ handler[h].op = "post" /\ handler'[h].download = handler[h].download
        /\ pulls' = pulls \cup {handler[h].download} /\ task' = task /\ early' = early
    BY <1>5 DEF GrantWrite, Places, PC, At
  <2>3. Coming(h)
    BY <1>5, <2>2 DEF GrantWrite, Coming, At
  <2>4. QED
    BY <1>0, <2>1, <2>2, <2>3 DEF Untouched, Coming, At
<1>6. ASSUME NEW h \in Handler, Start(h)
      PROVE  Untouched'
  <2>1. /\ handler'[h].pc \in {"foreground", "idle"} /\ Coming(h)
        /\ \A g \in Handler : g # h => handler'[g] = handler[g]
    BY <1>6 DEF Start, PC, Idle, Coming, Places, At
  <2>2. pulls' = pulls /\ early' = early /\ handler[h].download \in Download
        /\ \A d \in Download : d # handler[h].download => task'[d] = task[d]
    BY <1>6, <2>1 DEF Start, TypeOK, Places
  <2>3. \A g \in Handler : Coming(g) /\ g # h => handler[g].download # handler[h].download
    BY <2>1 DEF Untouched
  <2>4. QED
    BY <1>0, <2>1, <2>2, <2>3 DEF Untouched, Coming, At, Places
<1>7. ASSUME NEW h \in Handler, Abort(h)
      PROVE  Untouched'
  <2>1. /\ handler'[h].pc = "wait_write" /\ handler'[h].op = "delete"
        /\ \A g \in Handler : g # h => handler'[g] = handler[g]
    BY <1>7 DEF Abort, PC
  <2>2. pulls' = pulls /\ early' = early
        /\ \A d \in Download : task[d] = "none" => task'[d] = "none"
    BY <1>7 DEF Abort, TypeOK
  <2>3. QED
    BY <1>0, <2>1, <2>2 DEF Untouched, Coming, At, Places
<1>8. ASSUME NEW d \in Download, TaskEnds(d)
      PROVE  Untouched'
  BY <1>0, <1>8 DEF TaskEnds, TypeOK, Untouched, Coming, At, Places
<1>9. CASE UNCHANGED vars
  BY <1>0, <1>9 DEF vars, Untouched, Coming, At
<1>10. QED
  BY <1>1, <1>2, <1>3, <1>4, <1>5, <1>6, <1>7, <1>8, <1>9 DEF Next, Steps

(***************************************************************************)
(* The downloads that run                                                  *)
(***************************************************************************)

\* What starts was in the map or was swept; what runs is not swept, and nothing is removed
\* by request.
LEMMA ListedStep == TypeOK /\ Places /\ Untouched /\ Listed /\ [Next]_vars => Listed'
<1> SUFFICES ASSUME TypeOK, Places, Untouched, Listed, [Next]_vars
             PROVE  Listed'
  OBVIOUS
<1>0. ASSUME /\ \A d \in Download : task'[d] = "running" => task[d] = "running"
             /\ \A d \in pulls \cup early : task[d] = "running" => d \in pulls' \cup early'
      PROVE  Listed'
  BY <1>0 DEF Listed
<1>1. ASSUME NEW h \in Handler, Sweep(h)
      PROVE  Listed'
  BY <1>0, <1>1 DEF Sweep, Swept
<1>2. ASSUME NEW h \in Handler, Fetched(h)
      PROVE  Listed'
  <2>1. PICK d \in Download \ Referenced : task' = [task EXCEPT ![d] = "none"] /\ early' = early \ {d}
    BY <1>2 DEF Fetched
  <2>2. task[d] # "running" /\ pulls' = pulls
    BY <1>2 DEF Referenced, Fetched
  <2>3. QED
    BY <1>0, <2>1, <2>2 DEF TypeOK
<1>3. ASSUME NEW h \in Handler, GrantWrite(h)
      PROVE  Listed'
  <2>1. pulls \subseteq pulls' /\ task' = task /\ early' = early
    BY <1>3 DEF GrantWrite, Places, At
  <2>2. QED
    BY <1>0, <2>1
<1>4. ASSUME NEW h \in Handler, Start(h)
      PROVE  Listed'
  <2>1. Coming(h)
    BY <1>4 DEF Start, Coming, Places, At
  <2>2. handler[h].download \in pulls \cup early
    BY <1>4, <2>1 DEF Start, Untouched
  <2>3. QED
    BY <1>4, <2>2 DEF Start, Listed, TypeOK
<1>5. ASSUME NEW h \in Handler, Abort(h)
      PROVE  Listed'
  BY <1>0, <1>5 DEF Abort, TypeOK
<1>6. ASSUME NEW d \in Download, TaskEnds(d)
      PROVE  Listed'
  BY <1>0, <1>6 DEF TaskEnds, TypeOK
<1>7. ASSUME UNCHANGED <<pulls, task, early>>
      PROVE  Listed'
  BY <1>0, <1>7
<1>8. QED
  BY <1>1, <1>2, <1>3, <1>4, <1>5, <1>6, <1>7
     DEF Next, Steps, Begin, GrantRead, List, CheckLimit, FetchFails, NotFound, Finish,
         Disconnect, vars

(***************************************************************************)
(* The limit                                                               *)
(***************************************************************************)

\* Only a request that passes the limit adds to what may come, and there are never more
\* of them than requests; an insertion turns one of them into a download.
LEMMA BoundedStep == PullsAssumption /\ TypeOK /\ Places /\ Bounded /\ [Next]_vars => Bounded'
<1> SUFFICES ASSUME PullsAssumption, TypeOK, Places, Bounded, [Next]_vars
             PROVE  Bounded'
  OBVIOUS
<1> USE Records
<1>f. /\ IsFiniteSet(Handler) /\ Cardinality(Handler) \in Nat /\ MaxPulls \in Nat
      /\ IsFiniteSet(pulls) /\ Cardinality(pulls) \in Nat
      /\ IsFiniteSet(Passed) /\ Cardinality(Passed) \in Nat
  BY FS_Subset, FS_CardinalityType DEF PullsAssumption, Bounded, Passed
<1>p. /\ IsFiniteSet(Passed') /\ Cardinality(Passed') \in Nat
      /\ Cardinality(Passed') <= Cardinality(Handler)
  <2>1. Passed' \subseteq Handler
    BY DEF Passed
  <2>2. QED
    BY <1>f, <2>1, FS_Subset, FS_CardinalityType
<1>0. ASSUME pulls' \subseteq pulls, Passed' \subseteq Passed
      PROVE  Bounded'
  <2>1. /\ IsFiniteSet(pulls') /\ Cardinality(pulls') <= Cardinality(pulls)
        /\ Cardinality(Passed') <= Cardinality(Passed)
        /\ Cardinality(pulls') \in Nat
    BY <1>0, <1>f, FS_Subset, FS_CardinalityType
  <2>2. QED
    BY <1>f, <1>p, <2>1 DEF Bounded
<1>1. ASSUME NEW h \in Handler, NEW o \in Ops, NEW d \in pulls \cup {NoDownload}, Begin(h, o, d)
      PROVE  Bounded'
  <2>1. handler'[h].pc = "pulls" /\ \A g \in Handler : g # h => handler'[g] = handler[g]
    BY <1>1 DEF Begin, TypeOK
  <2>2. QED
    BY <1>0, <1>1, <2>1 DEF Begin, Passed
<1>2. ASSUME NEW h \in Handler,
             \/ Sweep(h) \/ GrantRead(h) \/ List(h) \/ FetchFails(h) \/ NotFound(h)
             \/ Start(h) \/ Finish(h) \/ Disconnect(h)
      PROVE  Bounded'
  <2>1. /\ handler'[h].pc \in {"idle", "wait_read", "read", "foreground"}
        /\ \A g \in Handler : g # h => handler'[g] = handler[g]
    BY <1>2 DEF Sweep, GrantRead, List, FetchFails, NotFound, Start, Finish, Disconnect, PC,
                Idle
  <2>2. pulls' \subseteq pulls
    BY <1>2 DEF Sweep, GrantRead, List, FetchFails, NotFound, Start, Finish, Disconnect
  <2>3. QED
    BY <1>0, <2>1, <2>2 DEF Passed
<1>3. ASSUME NEW h \in Handler, CheckLimit(h)
      PROVE  Bounded'
  <2>1. CASE Cardinality(pulls) >= MaxPulls
    BY <1>0, <1>3, <2>1 DEF CheckLimit, Passed, Idle
  <2>2. CASE ~(Cardinality(pulls) >= MaxPulls)
    <3>1. Cardinality(pulls) + 1 <= MaxPulls /\ pulls' = pulls
      BY <1>f, <1>3, <2>2 DEF CheckLimit
    <3>2. QED
      BY <1>f, <1>p, <3>1 DEF Bounded
  <2>3. QED
    BY <2>1, <2>2
<1>4. ASSUME NEW h \in Handler, Fetched(h)
      PROVE  Bounded'
  <2>1. PICK d : handler' = [handler EXCEPT ![h].pc = "wait_write", ![h].download = d]
    BY <1>4 DEF Fetched
  <2>2. handler'[h].op = handler[h].op /\ \A g \in Handler : g # h => handler'[g] = handler[g]
    BY <2>1 DEF TypeOK, HandlerRecord
  <2>3. Passed' \subseteq Passed
    BY <1>4, <2>2 DEF Fetched, Passed, At
  <2>4. QED
    BY <1>0, <1>4, <2>3 DEF Fetched
<1>5. ASSUME NEW h \in Handler, GrantWrite(h)
      PROVE  Bounded'
  <2>1. /\ handler[h].op = "post" /\ handler'[h].pc = "start"
        /\ \A g \in Handler : g # h => handler'[g] = handler[g]
        /\ pulls' = pulls \cup {handler[h].download}
    BY <1>5 DEF GrantWrite, Places, PC, At
  <2>2. h \in Passed /\ Passed' = Passed \ {h}
    BY <1>5, <2>1 DEF GrantWrite, Passed, At
  <2>3. Cardinality(Passed') = Cardinality(Passed) - 1
    BY <1>f, <2>2, FS_RemoveElement
  <2>4. IsFiniteSet(pulls') /\ Cardinality(pulls') <= Cardinality(pulls) + 1
        /\ Cardinality(pulls') \in Nat
    <3>1. /\ IsFiniteSet(pulls \cup {handler[h].download})
          /\ Cardinality(pulls \cup {handler[h].download}) =
               IF handler[h].download \in pulls THEN Cardinality(pulls) ELSE Cardinality(pulls) + 1
      BY <1>f, FS_AddElement
    <3>2. QED
      BY <1>f, <2>1, <3>1
  <2>5. QED
    BY <1>f, <1>p, <2>3, <2>4 DEF Bounded
<1>6. ASSUME NEW h \in Handler, Abort(h)
      PROVE  Bounded'
  <2>1. handler'[h].op = "delete" /\ \A g \in Handler : g # h => handler'[g] = handler[g]
    BY <1>6 DEF Abort, PC
  <2>2. QED
    BY <1>0, <1>6, <2>1 DEF Abort, Passed
<1>7. ASSUME UNCHANGED <<pulls, handler>>
      PROVE  Bounded'
  BY <1>0, <1>7 DEF Passed
<1>8. QED
  BY <1>1, <1>2, <1>3, <1>4, <1>5, <1>6, <1>7 DEF Next, Steps, TaskEnds, vars

(***************************************************************************)
(* The theorems                                                            *)
(***************************************************************************)

\* The invariant holds at the start and every step keeps it.
LEMMA Invariant == Spec => []Inv
<1>1. Init => Inv
  <2> SUFFICES ASSUME Init
               PROVE  Inv
    OBVIOUS
  <2>1. TypeOK
    BY EmptySeq DEF Init, TypeOK, Idle, HandlerRecord, PC, Tasks, IsInjective
  <2>2. Places /\ Untouched /\ Listed
    BY DEF Init, Places, Untouched, Listed, Coming, At, Idle, ToSet
  <2>3. Passed = {}
    BY DEF Init, Passed, Idle
  <2>4. Bounded
    <3>1. IsFiniteSet(Handler) /\ Cardinality(Handler) \in Nat /\ MaxPulls \in Nat \ {0}
      BY PullsAssumption, FS_CardinalityType
    <3>2. QED
      BY <2>3, <3>1, FS_EmptySet DEF Init, Bounded
  <2>5. QED
    BY <2>1, <2>2, <2>4 DEF Inv
<1>2. Inv /\ [Next]_vars => Inv'
  BY PullsAssumption, TypeStep, PlacesStep, UntouchedStep, ListedStep, BoundedStep DEF Inv
<1>3. QED
  BY <1>1, <1>2, PTL DEF Spec

\* Every variable keeps its type, and a download that runs can be listed and cancelled,
\* unless it was swept between its insertion and its start.
THEOREM RunningIsListed == Spec => []RunningListed
<1>1. Inv => RunningListed
  BY DEF Inv, RunningListed, Listed
<1>2. QED
  BY <1>1, Invariant, PTL

\* The map outgrows the limit by one download less than there are requests at most,
\* whatever the limit and however many requests there are.
THEOREM LimitIsHeld == Spec => []LimitHeld
<1>1. Inv => LimitHeld
  <2> SUFFICES ASSUME Inv
               PROVE  LimitHeld
    OBVIOUS
  <2>1. Passed \subseteq Handler /\ IsFiniteSet(Handler) /\ MaxPulls \in Nat
    BY PullsAssumption DEF Passed
  <2>2. /\ Cardinality(Passed) \in Nat /\ Cardinality(pulls) \in Nat
        /\ Cardinality(Handler) \in Nat
    BY <2>1, FS_Subset, FS_CardinalityType DEF Inv, Bounded
  <2>3. QED
    BY <2>1, <2>2 DEF Inv, Bounded, LimitHeld
<1>2. QED
  BY <1>1, Invariant, PTL

\* A request that asks for the write lock with its own read lock in hand never gets on: it
\* stays where it is until its client hangs up.
THEOREM StuckForGood ==
  Spec => [][\A h \in Handler : Stuck(h) => Stuck(h)' \/ Disconnect(h)]_vars
<1>1. Inv /\ [Next]_vars => [\A h \in Handler : Stuck(h) => Stuck(h)' \/ Disconnect(h)]_vars
  <2> SUFFICES ASSUME Inv, [Next]_vars, NEW h \in Handler, Stuck(h), ~Disconnect(h)
               PROVE  Stuck(h)'
    OBVIOUS
  <2>0. TypeOK /\ h \in readers /\ handler[h].pc = "wait_write"
    BY DEF Inv, Stuck, At
  <2> SUFFICES h \in readers' /\ handler'[h] = handler[h]
    BY <2>0 DEF Stuck, At
  <2> USE Records, <2>0
  <2>1. ASSUME NEW g \in Handler, NEW o \in Ops, NEW d \in pulls \cup {NoDownload}, Begin(g, o, d)
        PROVE  h \in readers' /\ handler'[h] = handler[h]
    BY <2>1 DEF Begin, At, TypeOK
  <2>2. ASSUME NEW g \in Handler,
               \/ Sweep(g) \/ GrantRead(g) \/ List(g) \/ CheckLimit(g) \/ FetchFails(g)
               \/ NotFound(g) \/ Start(g) \/ Finish(g) \/ Abort(g)
        PROVE  h \in readers' /\ handler'[h] = handler[h]
    <3>1. g # h
      BY <2>2 DEF Sweep, GrantRead, List, CheckLimit, FetchFails, NotFound, Start, Finish,
                  Abort, At
    <3>2. QED
      BY <2>2, <3>1 DEF Sweep, GrantRead, List, CheckLimit, FetchFails, NotFound, Start,
                        Finish, Abort, PC
  <2>3. ASSUME NEW g \in Handler, Fetched(g)
        PROVE  h \in readers' /\ handler'[h] = handler[h]
    BY <2>3 DEF Fetched, At, TypeOK
  <2>4. ASSUME NEW g \in Handler, GrantWrite(g)
        PROVE  h \in readers' /\ handler'[h] = handler[h]
    BY <2>4 DEF GrantWrite
  <2>5. ASSUME NEW g \in Handler, Disconnect(g)
        PROVE  h \in readers' /\ handler'[h] = handler[h]
    BY <2>5 DEF Disconnect
  <2>6. CASE UNCHANGED <<readers, handler>>
    BY <2>6
  <2>7. QED
    BY <2>1, <2>2, <2>3, <2>4, <2>5, <2>6 DEF Next, Steps, TaskEnds, vars
<1>2. QED
  BY <1>1, Invariant, PTL DEF Spec

\* No download is taken from the map by request: only a sweep removes one, and never one
\* that runs.
THEOREM OnlySwept == Spec => [][\A d \in pulls \ pulls' : task[d] # "running"]_vars
<1>1. Inv /\ [Next]_vars => [\A d \in pulls \ pulls' : task[d] # "running"]_vars
  <2> SUFFICES ASSUME Inv, [Next]_vars, NEW d \in pulls \ pulls'
               PROVE  task[d] # "running"
    OBVIOUS
  <2>1. ASSUME NEW h \in Handler, Sweep(h)
        PROVE  task[d] # "running"
    BY <2>1 DEF Sweep, Swept
  <2>2. ASSUME NEW h \in Handler, GrantWrite(h)
        PROVE  FALSE
    BY <2>2 DEF GrantWrite, Inv, Places, At
  <2>3. QED
    BY <2>1, <2>2 DEF Next, Steps, Begin, GrantRead, List, CheckLimit, Fetched, FetchFails,
         Start, Finish, NotFound, Abort, Disconnect, TaskEnds, vars
<1>2. QED
  BY <1>1, Invariant, PTL DEF Spec
=============================================================================
