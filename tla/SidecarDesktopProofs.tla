------------------------ MODULE SidecarDesktopProofs ------------------------
(***************************************************************************)
(* Proofs about SidecarDesktop, for every set of tasks and commands, every *)
(* number of agent steps, and any number of commands and faults.           *)
(***************************************************************************)
EXTENDS SidecarDesktop, OrchestratorProofs, FunctionTheorems, FiniteSetTheorems

USE DEF Addressed, Serving, NextIs, At

-----------------------------------------------------------------------------
(* Sequences and what is in them.                                          *)

LEMMA InRange ==
  ASSUME NEW S, NEW q \in Seq(S)
  PROVE  /\ Range(q) \subseteq S
         /\ \A i \in DOMAIN q : q[i] \in Range(q)
         /\ DOMAIN q = 1..Len(q) /\ Len(q) \in Nat
  BY ElementOfSeq, LenProperties DEF Range

LEMMA RangeOfEmpty ==
  ASSUME NEW q, q = <<>>
  PROVE  Range(q) = {}
  BY DEF Range

LEMMA RangeOfAppend ==
  ASSUME NEW S, NEW q \in Seq(S), NEW e \in S
  PROVE  Append(q, e) \in Seq(S) /\ Range(Append(q, e)) = Range(q) \cup {e}
  BY AppendProperties DEF Range

LEMMA RangeOfOne ==
  ASSUME NEW e
  PROVE  Range(<<e>>) = {e}
  BY DEF Range

(* The first element and the ones behind it.                               *)
LEMMA RangeOfTail ==
  ASSUME NEW S, NEW q \in Seq(S), q # <<>>
  PROVE  /\ Tail(q) \in Seq(S) /\ Head(q) \in S
         /\ Range(q) = Range(Tail(q)) \cup {Head(q)}
<1> DEFINE p == Tail(q)
<1>1. /\ p \in Seq(S) /\ Head(q) \in S /\ Head(q) = q[1]
      /\ Len(p) = Len(q) - 1 /\ Len(q) \in Nat \ {0}
      /\ \A i \in 1..Len(p) : p[i] = q[i + 1]
  BY HeadTailProperties, EmptySeq, LenProperties
<1>2. DOMAIN q = 1..Len(q) /\ DOMAIN p = 1..Len(p)
  BY <1>1, LenProperties
<1> HIDE DEF p
<1>3. Range(q) \subseteq Range(p) \cup {Head(q)}
  <2> SUFFICES ASSUME NEW i \in 1..Len(q) PROVE q[i] \in Range(p) \cup {Head(q)}
    BY <1>2 DEF Range
  <2>1. CASE i = 1
    BY <2>1, <1>1
  <2>2. CASE i # 1
    <3>1. i - 1 \in 1..Len(p) /\ p[i - 1] = q[i]
      BY <2>2, <1>1
    <3> QED
      BY <3>1, <1>2 DEF Range
  <2> QED
    BY <2>1, <2>2
<1>4. Range(p) \cup {Head(q)} \subseteq Range(q)
  BY <1>1, <1>2 DEF Range
<1> QED
  BY <1>1, <1>3, <1>4 DEF p

LEMMA RangeOfConcat ==
  ASSUME NEW S, NEW p \in Seq(S), NEW q \in Seq(S)
  PROVE  p \o q \in Seq(S) /\ Range(p \o q) = Range(p) \cup Range(q)
<1> DEFINE r == p \o q
<1>1. /\ r \in Seq(S) /\ Len(r) = Len(p) + Len(q) /\ Len(p) \in Nat /\ Len(q) \in Nat
      /\ DOMAIN r = 1..Len(r) /\ DOMAIN p = 1..Len(p) /\ DOMAIN q = 1..Len(q)
      /\ \A i \in 1..Len(p) : r[i] = p[i]
      /\ \A i \in 1..Len(q) : r[Len(p) + i] = q[i]
      /\ \A i \in 1..Len(r) : r[i] = IF i <= Len(p) THEN p[i] ELSE q[i - Len(p)]
  BY ConcatProperties, LenProperties
<1> HIDE DEF r
<1>2. \A i \in 1..Len(r) : r[i] \in Range(p) \cup Range(q)
  <2> TAKE i \in 1..Len(r)
  <2>1. i \in 1..Len(p) \/ i - Len(p) \in 1..Len(q)
    BY <1>1
  <2> QED
    BY <1>1, <2>1 DEF Range
<1>3. Range(p) \subseteq Range(r) /\ Range(q) \subseteq Range(r)
  <2>1. \A i \in 1..Len(p) : i \in DOMAIN r /\ r[i] = p[i]
    BY <1>1
  <2>2. \A i \in 1..Len(q) : Len(p) + i \in DOMAIN r /\ r[Len(p) + i] = q[i]
    BY <1>1
  <2>3. \A i \in DOMAIN r : r[i] \in Range(r)
    BY DEF Range
  <2>4. \A i \in 1..Len(p) : p[i] \in Range(r)
    BY <2>1, <2>3
  <2>5. \A i \in 1..Len(q) : q[i] \in Range(r)
    BY <2>2, <2>3
  <2> QED
    BY <1>1, <2>4, <2>5 DEF Range
<1>4. Range(r) \subseteq Range(p) \cup Range(q)
  BY <1>1, <1>2 DEF Range
<1> QED
  BY <1>1, <1>3, <1>4 DEF r

(* The i-th element taken out.                                             *)
Without(q, i) == SubSeq(q, 1, i - 1) \o SubSeq(q, i + 1, Len(q))

LEMMA WithoutOne ==
  ASSUME NEW S, NEW q \in Seq(S), NEW i \in DOMAIN q
  PROVE  /\ Without(q, i) \in Seq(S)
         /\ Len(Without(q, i)) = Len(q) - 1
         /\ \A j \in 1..(Len(q) - 1) :
              Without(q, i)[j] = q[IF j < i THEN j ELSE j + 1]
<1>0. Len(q) \in Nat /\ i \in 1..Len(q) /\ \A j \in 1..Len(q) : q[j] \in S
  BY LenProperties, ElementOfSeq
<1> DEFINE a == SubSeq(q, 1, i - 1)
           b == SubSeq(q, i + 1, Len(q))
<1>1. a \in Seq(S) /\ Len(a) = i - 1 /\ \A j \in 1..(i - 1) : a[j] = q[j]
  <2>1. 1 \in 1..(Len(q) + 1) /\ i - 1 \in 0..Len(q) /\ i - 1 >= 0
    BY <1>0
  <2>2. CASE i = 1
    <3>1. a = <<>>
      BY <2>2, <1>0, SubSeqProperties
    <3> QED
      BY <3>1, <2>2, EmptySeq
  <2>3. CASE i # 1
    BY <2>3, <1>0, SubSeqProperties
  <2> QED
    BY <2>2, <2>3
<1>2. b \in Seq(S) /\ Len(b) = Len(q) - i /\ \A j \in 1..(Len(q) - i) : b[j] = q[i + j]
  BY <1>0, SubSeqProperties
<1> HIDE DEF a, b
<1>3. /\ a \o b \in Seq(S) /\ Len(a \o b) = Len(a) + Len(b)
      /\ \A j \in 1..(Len(a) + Len(b)) :
           (a \o b)[j] = IF j <= Len(a) THEN a[j] ELSE b[j - Len(a)]
  BY <1>1, <1>2, ConcatProperties
<1>4. Len(a) + Len(b) = Len(q) - 1
  BY <1>0, <1>1, <1>2
<1>5. \A j \in 1..(Len(q) - 1) : (a \o b)[j] = q[IF j < i THEN j ELSE j + 1]
  <2> TAKE j \in 1..(Len(q) - 1)
  <2>1. CASE j < i
    BY <2>1, <1>0, <1>1, <1>3, <1>4
  <2>2. CASE ~(j < i)
    <3>1. j - (i - 1) \in 1..(Len(q) - i) /\ i + (j - (i - 1)) = j + 1 /\ ~(j <= i - 1)
      BY <2>2, <1>0
    <3>2. j \in 1..(Len(a) + Len(b)) /\ Len(a) = i - 1
      BY <1>0, <1>1, <1>4
    <3>3. (a \o b)[j] = b[j - (i - 1)]
      BY <1>3, <3>1, <3>2
    <3>4. b[j - (i - 1)] = q[j + 1]
      BY <1>2, <3>1
    <3> QED
      BY <2>2, <3>3, <3>4
  <2> QED
    BY <2>1, <2>2
<1> QED
  BY <1>3, <1>4, <1>5 DEF Without, a, b

LEMMA RangeOfWithout ==
  ASSUME NEW S, NEW q \in Seq(S), NEW i \in DOMAIN q
  PROVE  /\ Range(Without(q, i)) \subseteq Range(q)
         /\ Range(q) \subseteq Range(Without(q, i)) \cup {q[i]}
<1> DEFINE r == Without(q, i)
<1>1. /\ r \in Seq(S) /\ Len(r) = Len(q) - 1 /\ DOMAIN r = 1..Len(r)
      /\ Len(q) \in Nat /\ DOMAIN q = 1..Len(q) /\ i \in 1..Len(q)
      /\ \A j \in 1..(Len(q) - 1) : r[j] = q[IF j < i THEN j ELSE j + 1]
  BY WithoutOne, LenProperties
<1> HIDE DEF r
<1>2. \A j \in 1..Len(r) : r[j] \in Range(q)
  <2> TAKE j \in 1..Len(r)
  <2>1. (IF j < i THEN j ELSE j + 1) \in DOMAIN q
    BY <1>1
  <2> QED
    BY <1>1, <2>1 DEF Range
<1>3. \A j \in 1..Len(q) : j # i => q[j] \in Range(r)
  <2> SUFFICES ASSUME NEW j \in 1..Len(q), j # i PROVE q[j] \in Range(r)
    OBVIOUS
  <2>1. CASE j < i
    <3>1. j \in DOMAIN r /\ r[j] = q[j]
      BY <1>1, <2>1
    <3> QED
      BY <3>1 DEF Range
  <2>2. CASE ~(j < i)
    <3>1. j - 1 \in DOMAIN r /\ r[j - 1] = q[j]
      BY <1>1, <2>2
    <3> QED
      BY <3>1 DEF Range
  <2> QED
    BY <2>1, <2>2
<1>4. Range(r) \subseteq Range(q)
  BY <1>1, <1>2 DEF Range
<1>5. Range(q) \subseteq Range(r) \cup {q[i]}
  BY <1>1, <1>3 DEF Range
<1> QED
  BY <1>4, <1>5 DEF r

(* Sequences whose elements carry ascending numbers.                       *)
Ascends(q) == \A i, j \in DOMAIN q : i < j => q[i].id < q[j].id

LEMMA AscendingAppend ==
  ASSUME NEW S, NEW q \in Seq(S), NEW e \in S, Ascends(q),
         \A d \in Range(q) : d.id < e.id
  PROVE  Ascends(Append(q, e))
<1>1. /\ DOMAIN q = 1..Len(q) /\ Len(q) \in Nat
      /\ DOMAIN Append(q, e) = 1..(Len(q) + 1)
      /\ \A i \in 1..Len(q) : Append(q, e)[i] = q[i]
      /\ Append(q, e)[Len(q) + 1] = e
  BY AppendProperties, LenProperties
<1>2. \A i \in 1..Len(q) : q[i].id < e.id
  BY <1>1 DEF Range
<1> QED
  BY <1>1, <1>2 DEF Ascends

(* The elements behind the first have larger numbers.                      *)
LEMMA AscendingTail ==
  ASSUME NEW S, NEW q \in Seq(S), q # <<>>, Ascends(q)
  PROVE  Ascends(Tail(q)) /\ \A d \in Range(Tail(q)) : Head(q).id < d.id
<1> DEFINE p == Tail(q)
<1>1. /\ p \in Seq(S) /\ Head(q) = q[1] /\ DOMAIN q = 1..Len(q) /\ DOMAIN p = 1..Len(p)
      /\ Len(p) = Len(q) - 1 /\ Len(q) \in Nat \ {0}
      /\ \A i \in 1..Len(p) : p[i] = q[i + 1]
  BY HeadTailProperties, EmptySeq, LenProperties
<1> HIDE DEF p
<1>2. \A i \in 1..Len(p) : i + 1 \in DOMAIN q /\ 1 < i + 1 /\ 1 \in DOMAIN q
  BY <1>1
<1>3. Ascends(p)
  BY <1>1, <1>2 DEF Ascends
<1>4. \A i \in 1..Len(p) : Head(q).id < p[i].id
  BY <1>1, <1>2 DEF Ascends
<1> QED
  BY <1>1, <1>3, <1>4 DEF p, Range

LEMMA AscendingWithout ==
  ASSUME NEW S, NEW q \in Seq(S), NEW i \in DOMAIN q, Ascends(q),
         \A e \in S : e.id \in Nat
  PROVE  /\ Ascends(Without(q, i))
         /\ \A d \in Range(Without(q, i)) : d.id # q[i].id
<1> DEFINE r == Without(q, i)
<1>1. /\ r \in Seq(S) /\ Len(r) = Len(q) - 1 /\ DOMAIN r = 1..Len(r)
      /\ Len(q) \in Nat /\ DOMAIN q = 1..Len(q) /\ i \in 1..Len(q)
      /\ \A j \in 1..(Len(q) - 1) : r[j] = q[IF j < i THEN j ELSE j + 1]
      /\ \A j \in 1..Len(q) : q[j].id \in Nat
  BY WithoutOne, LenProperties, ElementOfSeq
<1> HIDE DEF r
<1> DEFINE k(j) == IF j < i THEN j ELSE j + 1
<1>2. \A j \in 1..Len(r) : k(j) \in 1..Len(q) /\ k(j) # i /\ r[j] = q[k(j)]
  BY <1>1
<1>3. \A j, l \in 1..Len(r) : j < l => k(j) < k(l)
  BY <1>1
<1>4. \A j \in 1..Len(r) : r[j].id # q[i].id
  <2> SUFFICES ASSUME NEW j \in 1..Len(r) PROVE r[j].id # q[i].id
    OBVIOUS
  <2>1. k(j) < i \/ i < k(j)
    BY <1>1, <1>2
  <2>2. q[k(j)].id \in Nat /\ q[i].id \in Nat
    BY <1>1, <1>2
  <2> HIDE DEF k
  <2>3. q[k(j)].id < q[i].id \/ q[i].id < q[k(j)].id
    BY <1>1, <1>2, <2>1 DEF Ascends
  <2> QED
    BY <1>2, <2>2, <2>3
<1> HIDE DEF k
<1>5. Ascends(r)
  <2> SUFFICES ASSUME NEW j \in 1..Len(r), NEW l \in 1..Len(r), j < l
               PROVE  r[j].id < r[l].id
    BY <1>1 DEF Ascends
  <2>1. q[k(j)].id < q[k(l)].id
    BY <1>1, <1>2, <1>3 DEF Ascends
  <2> QED
    BY <1>2, <2>1
<1> QED
  BY <1>1, <1>4, <1>5 DEF r, Range

(* Two elements with the same number are the same.                         *)
LEMMA AscendingOnce ==
  ASSUME NEW S, NEW q \in Seq(S), Ascends(q), \A e \in S : e.id \in Nat,
         NEW d \in Range(q), NEW e \in Range(q), d.id = e.id
  PROVE  d = e
<1>1. PICK i \in DOMAIN q : d = q[i]
  BY DEF Range
<1>2. PICK j \in DOMAIN q : e = q[j]
  BY DEF Range
<1>3. i \in Int /\ j \in Int /\ q[i].id \in Nat /\ q[j].id \in Nat
  BY LenProperties, ElementOfSeq
<1>4. ~(i < j) /\ ~(j < i)
  BY <1>1, <1>2, <1>3 DEF Ascends
<1> QED
  BY <1>1, <1>2, <1>3, <1>4

(* One element of a is ahead of every element of b.                        *)
Leads(q, a, b) == \A j \in DOMAIN q : q[j] \in b => \E i \in 1..(j - 1) : q[i] \in a

LEMMA LeadsAppend ==
  ASSUME NEW S, NEW q \in Seq(S), NEW e \in S, NEW a, NEW b, Leads(q, a, b),
         e \in b => \E d \in Range(q) : d \in a
  PROVE  Leads(Append(q, e), a, b)
<1>1. /\ DOMAIN q = 1..Len(q) /\ Len(q) \in Nat
      /\ DOMAIN Append(q, e) = 1..(Len(q) + 1)
      /\ \A i \in 1..Len(q) : Append(q, e)[i] = q[i]
      /\ Append(q, e)[Len(q) + 1] = e
  BY AppendProperties, LenProperties
<1>2. e \in b => \E i \in 1..Len(q) : q[i] \in a
  BY <1>1 DEF Range
<1> SUFFICES ASSUME NEW j \in 1..(Len(q) + 1), Append(q, e)[j] \in b
             PROVE  \E i \in 1..(j - 1) : Append(q, e)[i] \in a
  BY <1>1 DEF Leads
<1>3. CASE j = Len(q) + 1
  BY <1>1, <1>2, <1>3
<1>4. CASE j # Len(q) + 1
  <2>1. j \in 1..Len(q) /\ q[j] \in b
    BY <1>1, <1>4
  <2>2. PICK i \in 1..(j - 1) : q[i] \in a
    BY <1>1, <2>1 DEF Leads
  <2>3. i \in 1..Len(q)
    BY <1>1, <2>1
  <2> QED
    BY <1>1, <2>2, <2>3
<1> QED
  BY <1>3, <1>4

LEMMA LeadsTail ==
  ASSUME NEW S, NEW q \in Seq(S), q # <<>>, NEW a, NEW b, Leads(q, a, b)
  PROVE  /\ Head(q) \notin b
         /\ Head(q) \notin a => Leads(Tail(q), a, b)
<1> DEFINE p == Tail(q)
<1>1. /\ p \in Seq(S) /\ Head(q) = q[1] /\ DOMAIN q = 1..Len(q) /\ DOMAIN p = 1..Len(p)
      /\ Len(p) = Len(q) - 1 /\ Len(q) \in Nat \ {0}
      /\ \A i \in 1..Len(p) : p[i] = q[i + 1]
  BY HeadTailProperties, EmptySeq, LenProperties
<1> HIDE DEF p
<1>2. Head(q) \notin b
  BY <1>1 DEF Leads
<1>3. ASSUME Head(q) \notin a, NEW j \in 1..Len(p), p[j] \in b
      PROVE  \E i \in 1..(j - 1) : p[i] \in a
  <2>1. j + 1 \in DOMAIN q /\ q[j + 1] \in b
    BY <1>1, <1>3
  <2>2. PICK i \in 1..j : q[i] \in a
    BY <1>1, <2>1 DEF Leads
  <2>3. i # 1
    BY <2>2, <1>1, <1>3
  <2>4. i - 1 \in 1..(j - 1) /\ i - 1 \in 1..Len(p) /\ p[i - 1] = q[i]
    BY <1>1, <2>2, <2>3
  <2> QED
    BY <2>2, <2>4
<1>4. Head(q) \notin a => Leads(p, a, b)
  BY <1>1, <1>3 DEF Leads
<1> QED
  BY <1>2, <1>4 DEF p


-----------------------------------------------------------------------------
(* Typing.                                                                 *)

(* The outcomes of an execution that settles, for the ones who await it.   *)
LEMMA RangeOfOutcomes ==
  ASSUME NEW gens \in Seq(Nat), NEW s \in {"succeeded", "failed"}
  PROVE  /\ Outcomes(gens, s) \in Seq(Op)
         /\ \A op \in Range(Outcomes(gens, s)) : \E g \in Range(gens) : op = OutcomeOp(g, s)
<1>1. /\ Outcomes(gens, s) \in Seq(Op) /\ Len(Outcomes(gens, s)) = Len(gens)
      /\ \A i \in 1..Len(gens) : Outcomes(gens, s)[i] = OutcomeOp(gens[i], s)
  BY OutcomesType
<1>2. DOMAIN Outcomes(gens, s) = 1..Len(gens) /\ DOMAIN gens = 1..Len(gens)
  BY <1>1, LenProperties
<1> HIDE DEF Outcomes
<1>3. \A i \in 1..Len(gens) : gens[i] \in Range(gens)
  BY <1>2 DEF Range
<1> QED
  BY <1>1, <1>2, <1>3 DEF Range

(* The ActiveTasks whose resume is pending.                                *)
LEMMA GensType ==
  ASSUME ClientTypeOK(Tasks), NEW q \in InOrder(Resumes)
  PROVE  /\ Gens(q) \in Seq(Nat)
         /\ \A g \in Range(Gens(q)) :
              \E c \in Range(pending) : c.type = "resume" /\ c.gen = g
<1>1. pending \in Seq(Call(Tasks)) /\ DOMAIN pending = 1..Len(pending) /\ Len(pending) \in Nat
  BY LenProperties DEF ClientTypeOK
<1> DEFINE n == Cardinality(Resumes)
<1>2. n \in Nat
  <2>1. IsFiniteSet(1..Len(pending)) /\ Resumes \subseteq 1..Len(pending)
    BY <1>1, FS_Interval DEF Resumes
  <2> QED
    BY <2>1, FS_Subset, FS_CardinalityType
<1> HIDE DEF n
<1>3. q \in [1..n -> Resumes]
  BY DEF InOrder, n
<1>4. \A k \in 1..n : q[k] \in DOMAIN pending /\ pending[q[k]].type = "resume"
  BY <1>3 DEF Resumes
<1>5. \A k \in 1..n : pending[q[k]] \in Call(Tasks)
  BY <1>1, <1>4, ElementOfSeq
<1>6. \A k \in 1..n : pending[q[k]].gen \in Nat
  BY <1>5 DEF Call
<1>7. Gens(q) = [k \in 1..n |-> pending[q[k]].gen]
  BY <1>3 DEF Gens
<1>8. Gens(q) \in Seq(Nat)
  BY <1>2, <1>6, <1>7, SeqDef
<1>9. \A k \in 1..n : pending[q[k]] \in Range(pending)
  BY <1>4 DEF Range
<1> QED
  BY <1>4, <1>7, <1>8, <1>9 DEF Range

(* What the client and the worker do to their own types.                   *)
LEMMA SendType ==
  ASSUME WorkerTypeOK(NoTask, Tasks), ClientTypeOK(Tasks),
         NEW type \in RequestTypes, NEW t \in Tasks, NEW gen \in Nat, Send(type, t, gen)
  PROVE  WorkerTypeOK(NoTask, Tasks)' /\ ClientTypeOK(Tasks)'
<1> DEFINE c == [type |-> type, id |-> requests + 1, task |-> t, gen |-> gen,
                 sent |-> process = "ready"]
<1>1. requests + 1 \in Nat \ {0} /\ c \in Call(Tasks) /\ Line(c) \in Request(Tasks)
  BY DEF Call, Line, Request, ClientTypeOK
<1>2. /\ pending' = Append(pending, c) /\ requests' = requests + 1
      /\ stdin' = stdin \/ stdin' = Append(stdin, Line(c))
      /\ c.sent = (process = "ready")
  BY DEF Send
<1> HIDE DEF c
<1>3. pending' \in Seq(Call(Tasks)) /\ stdin' \in Seq(Request(Tasks))
  <2>1. pending \in Seq(Call(Tasks)) /\ stdin \in Seq(Request(Tasks))
    BY DEF ClientTypeOK, WorkerTypeOK
  <2>2. Append(pending, c) \in Seq(Call(Tasks))
    BY <1>1, <2>1, AppendProperties
  <2>3. Append(stdin, Line(c)) \in Seq(Request(Tasks))
    BY <1>1, <2>1, AppendProperties
  <2> QED
    BY <1>2, <2>1, <2>2, <2>3
<1>4. \A i \in DOMAIN pending' : process' # "ready" => ~pending'[i].sent
  <2>1. /\ DOMAIN pending = 1..Len(pending) /\ DOMAIN pending' = 1..(Len(pending) + 1)
        /\ Len(pending) \in Nat
        /\ \A i \in 1..Len(pending) : pending'[i] = pending[i]
        /\ pending'[Len(pending) + 1] = c
    BY <1>1, <1>2, AppendProperties, LenProperties DEF ClientTypeOK
  <2>2. process' # "ready" => process # "ready"
    BY DEF Send
  <2>3. process # "ready" => ~c.sent /\ \A i \in 1..Len(pending) : ~pending[i].sent
    BY <1>2, <2>1 DEF ClientTypeOK
  <2> QED
    BY <2>1, <2>2, <2>3
<1>5. WorkerTypeOK(NoTask, Tasks)'
  BY <1>3 DEF Send, WorkerTypeOK
<1>6. process' \in {"none", "starting", "ready", "broken"} /\ requests' \in Nat
  BY <1>1, <1>2 DEF Send, ClientTypeOK
<1> QED
  BY <1>3, <1>4, <1>5, <1>6 DEF ClientTypeOK

LEMMA ReadyType ==
  ASSUME WorkerTypeOK(NoTask, Tasks), ClientTypeOK(Tasks), Ready
  PROVE  WorkerTypeOK(NoTask, Tasks)' /\ ClientTypeOK(Tasks)'
<1>1. /\ DOMAIN pending = 1..Len(pending) /\ Len(pending) \in Nat
      /\ \A i \in DOMAIN pending : pending[i] \in Call(Tasks)
  BY LenProperties, ElementOfSeq DEF ClientTypeOK
<1>2. \A i \in DOMAIN pending : /\ [pending[i] EXCEPT !.sent = TRUE] \in Call(Tasks)
                                /\ Line(pending[i]) \in Request(Tasks)
  BY <1>1 DEF Call, Line, Request
<1>3. pending' \in [1..Len(pending) -> Call(Tasks)] /\ stdin' \in [1..Len(pending) -> Request(Tasks)]
  BY <1>1, <1>2 DEF Ready
<1>4. pending' \in Seq(Call(Tasks)) /\ stdin' \in Seq(Request(Tasks))
  BY <1>1, <1>3, SeqDef
<1> QED
  BY <1>4 DEF Ready, WorkerTypeOK, ClientTypeOK

LEMMA SettledType ==
  ASSUME ClientTypeOK(Tasks), NEW i \in DOMAIN pending, Settled(i)
  PROVE  /\ pending' \in Seq(Call(Tasks))
         /\ process # "ready" => \A j \in DOMAIN pending' : ~pending'[j].sent
<1>1. pending \in Seq(Call(Tasks)) /\ pending' = Without(pending, i)
  BY DEF ClientTypeOK, Settled, Without
<1>2. pending' \in Seq(Call(Tasks)) /\ Range(pending') \subseteq Range(pending)
  BY <1>1, WithoutOne, RangeOfWithout
<1>3. \A j \in DOMAIN pending' : pending'[j] \in Range(pending)
  BY <1>2 DEF Range
<1> QED
  BY <1>2, <1>3 DEF ClientTypeOK, Range

LEMMA ConsumeType ==
  ASSUME WorkerTypeOK(NoTask, Tasks), Consume, stdout # <<>>
  PROVE  /\ WorkerTypeOK(NoTask, Tasks)' /\ Head(stdout) \in Response(Tasks)
  BY RangeOfTail DEF WorkerTypeOK, Consume


(* An execution has a task and an id; its agent has steps left as long as  *)
(* it is between two of them.  What the adapter waits for has a task.      *)
ExecShape ==
  /\ exec.pc = "none" => exec = NoExec(NoTask)
  /\ exec.pc # "none" => exec.id # 0 /\ exec.task \in Tasks
  /\ exec.pc = "start" => exec.steps = 0
  /\ exec.pc = "loop" => exec.steps < AgentSteps

CallShape == call.pc # "none" => call.task \in Tasks

Types == TypeOK /\ ExecShape /\ CallShape

LEMMA ResponsesBuilt ==
  /\ \A r \in Request(Tasks) : Ack(r) \in Response(Tasks) /\ Error(r) \in Response(Tasks)
  /\ WorkerTypeOK(NoTask, Tasks) /\ ExecShape /\ exec.pc # "none" =>
       \A s \in {"succeeded", "failed", "cancelled"} : Result(exec, s) \in Response(Tasks)
<1>1. \A r \in Request(Tasks) : Ack(r) \in Response(Tasks) /\ Error(r) \in Response(Tasks)
  BY DEF Request, Response, Ack, Error
<1>2. ASSUME WorkerTypeOK(NoTask, Tasks), ExecShape, exec.pc # "none",
             NEW s \in {"succeeded", "failed", "cancelled"}
      PROVE  Result(exec, s) \in Response(Tasks)
  BY <1>2 DEF WorkerTypeOK, ExecShape, Response, Result
<1> QED
  BY <1>1, <1>2

LEMMA EmitType ==
  ASSUME WorkerTypeOK(NoTask, Tasks), NEW r \in Response(Tasks), Emit(r)
  PROVE  stdout' \in Seq(Response(Tasks))
  BY RangeOfAppend DEF WorkerTypeOK, Emit

LEMMA ReadsType ==
  ASSUME WorkerTypeOK(NoTask, Tasks), NEW types, Reads(types)
  PROVE  /\ stdin' \in Seq(Request(Tasks)) /\ Head(stdin) \in Request(Tasks)
         /\ Range(stdin) = Range(stdin') \cup {Head(stdin)}
         /\ stdin # <<>> /\ stdin' = Tail(stdin)
  BY RangeOfTail DEF WorkerTypeOK, Reads

LEMMA ServingType ==
  ASSUME WorkerTypeOK(NoTask, Tasks)
  PROVE  /\ <<>> \in Seq(Request(Tasks)) /\ Len(<<>>) <= 1
         /\ \A r \in Request(Tasks) : <<r>> \in Seq(Request(Tasks)) /\ Len(<<r>>) <= 1
         /\ serving # <<>> => serving[1] \in Request(Tasks) /\ Range(serving) = {serving[1]}
<1>1. <<>> \in Seq(Request(Tasks)) /\ Len(<<>>) <= 1
  BY EmptySeq
<1>2. \A r \in Request(Tasks) : <<r>> \in Seq(Request(Tasks)) /\ Len(<<r>>) <= 1
  OBVIOUS
<1>3. ASSUME serving # <<>>
      PROVE  serving[1] \in Request(Tasks) /\ Range(serving) = {serving[1]}
  <2>1. serving \in Seq(Request(Tasks)) /\ Len(serving) = 1
    <3>1. serving \in Seq(Request(Tasks)) /\ Len(serving) <= 1 /\ Len(serving) \in Nat
      BY LenProperties DEF WorkerTypeOK
    <3>2. Len(serving) # 0
      BY <1>3, <3>1, EmptySeq
    <3> QED
      BY <3>1, <3>2
  <2>2. DOMAIN serving = 1..1
    BY <2>1, LenProperties
  <2> QED
    BY <2>1, <2>2, ElementOfSeq DEF Range
<1> QED
  BY <1>1, <1>2, <1>3

(* The main loop of the worker.                                            *)
LEMMA MainLoopType ==
  ASSUME WorkerTypeOK(NoTask, Tasks), ExecShape, MainLoop(NoTask)
  PROVE  WorkerTypeOK(NoTask, Tasks)' /\ ExecShape'
<1> USE ResponsesBuilt, ServingType, AgentStepsAssumption, NoTaskAssumption
<1>1. CASE StartExecution
  <2>1. /\ stdin' \in Seq(Request(Tasks)) /\ Head(stdin) \in Request(Tasks)
        /\ Emit(Ack(Head(stdin))) /\ UNCHANGED serving
        /\ exec' = [pc |-> "start", id |-> Head(stdin).id, task |-> Head(stdin).task,
                    steps |-> 0, paused |-> FALSE]
    BY <1>1, ReadsType DEF StartExecution
  <2>2. Head(stdin).id \in Nat \ {0} /\ Head(stdin).task \in Tasks
    BY <2>1 DEF Request
  <2>3. stdout' \in Seq(Response(Tasks))
    BY <2>1, EmitType
  <2> QED
    BY <2>1, <2>2, <2>3 DEF WorkerTypeOK, ExecShape
<1>2. CASE RefuseRequest
  <2>1. /\ stdin' \in Seq(Request(Tasks)) /\ Head(stdin) \in Request(Tasks)
        /\ Emit(Error(Head(stdin))) /\ UNCHANGED <<serving, exec>>
    BY <1>2, ReadsType DEF RefuseRequest
  <2>2. stdout' \in Seq(Response(Tasks))
    BY <2>1, EmitType
  <2> QED
    BY <2>1, <2>2 DEF WorkerTypeOK, ExecShape
<1>3. CASE ServePause
  <2>1. /\ stdin' \in Seq(Request(Tasks)) /\ Head(stdin) \in Request(Tasks)
        /\ exec' = [exec EXCEPT !.paused = exec.pc # "start"]
        /\ exec.pc # "none"
    BY <1>3, ReadsType DEF ServePause, ActiveFor
  <2>2. stdout' \in Seq(Response(Tasks))
    BY <1>3, <2>1, EmitType DEF ServePause, WorkerTypeOK
  <2>3. serving' \in Seq(Request(Tasks)) /\ Len(serving') <= 1
    <3>1. serving' = serving \/ serving' = <<Head(stdin)>>
      BY <1>3 DEF ServePause
    <3> QED
      BY <2>1, <3>1 DEF WorkerTypeOK
  <2> QED
    BY <2>1, <2>2, <2>3 DEF WorkerTypeOK, ExecShape
<1>4. CASE PauseReturns \/ CancelReturns
  <2>1. serving # <<>> /\ Emit(Ack(serving[1])) /\ serving' = <<>> /\ UNCHANGED <<stdin, exec>>
    BY <1>4 DEF PauseReturns, CancelReturns, Serves
  <2>2. stdout' \in Seq(Response(Tasks))
    BY <2>1, EmitType
  <2> QED
    BY <2>1, <2>2 DEF WorkerTypeOK, ExecShape
<1>5. CASE ServeResume
  <2>1. /\ stdin' \in Seq(Request(Tasks)) /\ Head(stdin) \in Request(Tasks)
        /\ Emit(Ack(Head(stdin))) /\ UNCHANGED serving
        /\ exec' = [exec EXCEPT !.paused = FALSE] /\ exec.pc # "none"
    BY <1>5, ReadsType DEF ServeResume, ActiveFor
  <2>2. stdout' \in Seq(Response(Tasks))
    BY <2>1, EmitType
  <2> QED
    BY <2>1, <2>2 DEF WorkerTypeOK, ExecShape
<1>6. CASE ServeCancel(NoTask)
  <2>1. /\ stdin' \in Seq(Request(Tasks)) /\ Head(stdin) \in Request(Tasks)
        /\ exec.pc # "none"
    BY <1>6, ReadsType DEF ServeCancel, ActiveFor
  <2>2. exec.pc \in {"start", "loop", "step", "closing", "dead"}
    BY <2>1 DEF WorkerTypeOK
  <2>3. CASE Running
    <3>1. /\ exec' = [exec EXCEPT !.pc = "closing"] /\ Emit(Result(exec, "cancelled"))
          /\ serving' = <<Head(stdin)>>
      BY <1>6, <2>3 DEF ServeCancel, Running
    <3>2. stdout' \in Seq(Response(Tasks))
      BY <2>1, <3>1, EmitType
    <3> QED
      BY <2>1, <3>1, <3>2 DEF WorkerTypeOK, ExecShape
  <2>4. CASE exec.pc = "closing"
    <3>1. /\ exec' = NoExec(NoTask) /\ Emit(Ack(Head(stdin))) /\ UNCHANGED serving
      BY <1>6, <2>4 DEF ServeCancel, Running
    <3>2. stdout' \in Seq(Response(Tasks))
      BY <2>1, <3>1, EmitType
    <3> QED
      BY <2>1, <3>1, <3>2 DEF WorkerTypeOK, ExecShape, NoExec
  <2>5. CASE exec.pc = "dead"
    <3>1. Emit(Error(Head(stdin))) /\ UNCHANGED <<exec, serving>>
      BY <1>6, <2>5 DEF ServeCancel, Running
    <3>2. stdout' \in Seq(Response(Tasks))
      BY <2>1, <3>1, EmitType
    <3> QED
      BY <2>1, <3>1, <3>2 DEF WorkerTypeOK, ExecShape
  <2> QED
    BY <2>2, <2>3, <2>4, <2>5 DEF Running
<1> QED
  BY <1>1, <1>2, <1>3, <1>4, <1>5, <1>6 DEF MainLoop

(* The execution.                                                          *)
LEMMA ExecutionType ==
  ASSUME WorkerTypeOK(NoTask, Tasks), ExecShape,
         ExecutionRuns(NoTask) \/ PauseGivesUp \/ BrowserStopFails
  PROVE  WorkerTypeOK(NoTask, Tasks)' /\ ExecShape'
<1> USE ResponsesBuilt, ServingType, AgentStepsAssumption, NoTaskAssumption
<1>1. CASE AgentCreated \/ StepBegins \/ StepEnds \/ BrowserStops(NoTask)
  <2>1. CASE AgentCreated
    BY <2>1 DEF AgentCreated, WorkerTypeOK, ExecShape
  <2>2. CASE StepBegins
    <3>1. exec.steps + 1 \in 0..AgentSteps
      BY <2>2 DEF StepBegins, WorkerTypeOK, ExecShape
    <3> QED
      BY <2>2, <3>1 DEF StepBegins, WorkerTypeOK, ExecShape
  <2>3. CASE StepEnds
    BY <2>3 DEF StepEnds, WorkerTypeOK, ExecShape
  <2>4. CASE BrowserStops(NoTask)
    BY <2>4 DEF BrowserStops, WorkerTypeOK, ExecShape, NoExec
  <2> QED
    BY <1>1, <2>1, <2>2, <2>3, <2>4
<1>2. CASE ExecutionEnds
  <2>1. /\ exec' = [exec EXCEPT !.pc = "closing"] /\ exec.pc # "none"
        /\ UNCHANGED <<stdin, serving>>
        /\ Emit(Result(exec, "succeeded")) \/ Emit(Result(exec, "failed"))
    BY <1>2 DEF ExecutionEnds
  <2>2. stdout' \in Seq(Response(Tasks))
    BY <2>1, EmitType
  <2> QED
    BY <2>1, <2>2 DEF WorkerTypeOK, ExecShape
<1>3. CASE PauseGivesUp
  <2>1. serving # <<>> /\ Emit(Error(serving[1])) /\ serving' = <<>> /\ UNCHANGED <<stdin, exec>>
    BY <1>3 DEF PauseGivesUp, Serves
  <2>2. stdout' \in Seq(Response(Tasks))
    BY <2>1, EmitType
  <2> QED
    BY <2>1, <2>2 DEF WorkerTypeOK, ExecShape
<1>4. CASE BrowserStopFails
  <2>1. exec' = [exec EXCEPT !.pc = "dead"] /\ exec.pc # "none" /\ UNCHANGED stdin
    BY <1>4 DEF BrowserStopFails
  <2>2. /\ stdout' \in Seq(Response(Tasks))
        /\ serving' \in Seq(Request(Tasks)) /\ Len(serving') <= 1
    <3>1. CASE Serves("cancel")
      <4>1. serving # <<>> /\ Emit(Error(serving[1])) /\ serving' = <<>>
        BY <1>4, <3>1 DEF BrowserStopFails, Serves
      <4> QED
        BY <4>1, EmitType
    <3>2. CASE ~Serves("cancel")
      BY <1>4, <3>2 DEF BrowserStopFails, WorkerTypeOK
    <3> QED
      BY <3>1, <3>2
  <2> QED
    BY <2>1, <2>2 DEF WorkerTypeOK, ExecShape
<1> QED
  BY <1>1, <1>2, <1>3, <1>4 DEF ExecutionRuns


(* The types of the adapter and of the rest, which TypeOK names together.  *)
AdapterTypeOK ==
  /\ call \in [pc : {"none", "target", "lost", "acking", "running"}, id : Nat,
               task : Tasks \cup {NoTask}, waiting : Seq(Nat)]
  /\ control \in [pc : {"none", "waiting", "done", "failed"}, id : Nat]

WorldTypeOK ==
  /\ delivered \subseteq Commands
  /\ faults \in 0..MaxFaults
  /\ abandoned \in BOOLEAN
  /\ achieved \subseteq Tasks

PipeTypeOK == WorkerTypeOK(NoTask, Tasks) /\ ExecShape /\ ClientTypeOK(Tasks)

LEMMA TypeParts ==
  Types <=> OrchestratorTypeOK /\ PipeTypeOK /\ AdapterTypeOK /\ CallShape /\ WorldTypeOK
  BY DEF Types, TypeOK, PipeTypeOK, AdapterTypeOK, WorldTypeOK

LEMMA TypePartsNext ==
  ASSUME OrchestratorTypeOK', PipeTypeOK', AdapterTypeOK', CallShape', WorldTypeOK'
  PROVE  Types'
  BY DEF Types, TypeOK, PipeTypeOK, AdapterTypeOK, WorldTypeOK

LEMMA CommandsServe ==
  Command => ServesCommand \/ DecisionRefused \/ OutcomeIgnored \/ OutcomeRecorded
  BY DEF Command, ServesCommand

LEMMA NumbersTyped ==
  ASSUME Types
  PROVE  /\ epoch \in Nat /\ active.gen \in Nat /\ requests \in Nat /\ call.waiting \in Seq(Nat)
         /\ job.pc # "free" => CommandTask[job.cmd] \in Tasks
         /\ call.pc # "none" => call.task \in Tasks
         /\ active.gen # 0 => active \in ActiveTask /\ active.task \in Tasks
         /\ active.gen = 0 => active = NoActive
         /\ lease # NoLease => lease \in Lease
         /\ \A i \in DOMAIN pending : pending[i] \in Call(Tasks)
         /\ \A c \in Range(pending) : c \in Call(Tasks)
         /\ pending \in Seq(Call(Tasks)) /\ stdin \in Seq(Request(Tasks))
         /\ stdout \in Seq(Response(Tasks)) /\ serving \in Seq(Request(Tasks))
         /\ commandQueue \in Seq(Op)
<1> USE DEF Types, TypeOK
<1>1. epoch \in Nat /\ requests \in Nat /\ call.waiting \in Seq(Nat)
  BY DEF OrchestratorTypeOK, LeaseTypeOK, ClientTypeOK
<1>2. job.pc # "free" => CommandTask[job.cmd] \in Tasks
  BY CommandsAssumption DEF OrchestratorTypeOK
<1>3. /\ active.gen \in Nat
      /\ active.gen # 0 => active \in ActiveTask /\ active.task \in Tasks
      /\ active.gen = 0 => active = NoActive
  BY DEF OrchestratorTypeOK, ActiveTask, NoActive
<1>4. lease # NoLease => lease \in Lease
  BY DEF OrchestratorTypeOK, LeaseTypeOK
<1>5. /\ pending \in Seq(Call(Tasks)) /\ stdin \in Seq(Request(Tasks))
      /\ stdout \in Seq(Response(Tasks)) /\ serving \in Seq(Request(Tasks))
      /\ commandQueue \in Seq(Op)
  BY DEF OrchestratorTypeOK, ClientTypeOK, WorkerTypeOK
<1>6. \A c \in Range(pending) : c \in Call(Tasks)
  BY <1>5, InRange
<1>7. \A i \in DOMAIN pending : pending[i] \in Call(Tasks)
  BY <1>5, ElementOfSeq, LenProperties
<1> QED
  BY <1>1, <1>2, <1>3, <1>4, <1>5, <1>6, <1>7 DEF CallShape

LEMMA SingleOutcome ==
  ASSUME NEW g \in Nat
  PROVE  /\ <<>> \in Seq(Op) /\ <<OutcomeOp(g, "failed")>> \in Seq(Op)
         /\ <<g>> \in Seq(Nat)
<1>1. OutcomeOp(g, "failed") \in Op
  BY OpsBuilt
<1> QED
  BY <1>1, EmptySeq

(* Frames.                                                                 *)
LEMMA OrchestratorKept ==
  ASSUME OrchestratorTypeOK, UNCHANGED orchestratorVars PROVE OrchestratorTypeOK'
  BY DEF OrchestratorTypeOK, orchestratorVars, leaseVars, memoryVars, diskVars, LeaseTypeOK

LEMMA PipeKept ==
  ASSUME PipeTypeOK, UNCHANGED <<clientVars, workerVars>> PROVE PipeTypeOK'
  BY DEF PipeTypeOK, WorkerTypeOK, ExecShape, ClientTypeOK, clientVars, workerVars

LEMMA AdapterKept ==
  ASSUME AdapterTypeOK, CallShape, UNCHANGED <<call, control>>
  PROVE  AdapterTypeOK' /\ CallShape'
  BY DEF AdapterTypeOK, CallShape

LEMMA WorldKept ==
  ASSUME WorldTypeOK, UNCHANGED worldVars \/ Fault \/ Abandon PROVE WorldTypeOK'
<1>1. CASE UNCHANGED worldVars
  BY <1>1 DEF WorldTypeOK, worldVars
<1>2. CASE Fault \/ Abandon
  <2>1. faults' \in 0..MaxFaults
    <3>1. faults < MaxFaults /\ faults' = faults + 1 /\ faults \in 0..MaxFaults
      BY <1>2 DEF WorldTypeOK, Fault, Abandon, OneMoreFault
    <3> QED
      BY <3>1, SidecarBoundsAssumption
  <2>2. UNCHANGED <<delivered, achieved>> /\ abandoned' \in BOOLEAN
    BY <1>2 DEF WorldTypeOK, Fault, Abandon, OneMoreFault
  <2> QED
    BY <2>1, <2>2 DEF WorldTypeOK
<1> QED
  BY <1>1, <1>2

LEMMA SendKeeps ==
  ASSUME PipeTypeOK, NEW type \in RequestTypes, NEW t \in Tasks, NEW gen \in Nat,
         Send(type, t, gen)
  PROVE  PipeTypeOK'
<1>1. WorkerTypeOK(NoTask, Tasks)' /\ ClientTypeOK(Tasks)'
  BY SendType DEF PipeTypeOK
<1>2. ExecShape'
  BY DEF Send, ExecShape, PipeTypeOK
<1> QED
  BY <1>1, <1>2 DEF PipeTypeOK

(* The orchestrator's steps.                                               *)
LEMMA OrchestrateType ==
  ASSUME Types, control.pc # "none" => job.pc # "free",
         (\E c \in Commands : Deliver(c)) \/ Orchestrate \/ OrchestrateFaulty
  PROVE  Types'
<1>0. /\ OrchestratorTypeOK /\ PipeTypeOK /\ AdapterTypeOK /\ CallShape /\ WorldTypeOK
      /\ Kind \in Automation /\ <<>> \in Seq(Op)
  BY TypeParts, EmptySeq DEF Kind, Automation
<1> USE <1>0, NumbersTyped
<1> SUFFICES OrchestratorTypeOK' /\ PipeTypeOK' /\ AdapterTypeOK' /\ CallShape' /\ WorldTypeOK'
  BY TypePartsNext
<1>1. CASE \E c \in Commands : Deliver(c)
  <2>1. OrchestratorTypeOK'
    BY <1>1, OrchestratorType DEF Deliver
  <2>2. WorldTypeOK' /\ UNCHANGED <<clientVars, workerVars, call, control>>
    BY <1>1 DEF Deliver, WorldTypeOK, sidecarVars
  <2> QED
    BY <2>1, <2>2, PipeKept, AdapterKept
<1>2. CASE Command /\ UNCHANGED <<sidecarVars, worldVars>>
  <2>1. OrchestratorTypeOK'
    BY <1>2, CommandsServe, OrchestratorType
  <2>2. UNCHANGED worldVars /\ UNCHANGED <<clientVars, workerVars, call, control>>
    BY <1>2 DEF sidecarVars
  <2> QED
    BY <2>1, <2>2, PipeKept, AdapterKept, WorldKept
<1>3. CASE StartTask /\ UNCHANGED worldVars
  <2>1. epoch + 1 \in Nat /\ job.pc = "goto" /\ CommandTask[job.cmd] \in Tasks
    BY <1>3 DEF StartTask, StartLaunches
  <2>2. OrchestratorTypeOK'
    BY <1>3, <2>1, SingleOutcome, OrchestratorType DEF StartTask
  <2>3. UNCHANGED <<clientVars, workerVars, control>>
    BY <1>3 DEF StartTask, sidecarVars
  <2>4. AdapterTypeOK' /\ CallShape'
    <3>1. CASE Execution
      BY <1>3, <3>1, AdapterKept DEF StartTask, sidecarVars
    <3>2. CASE ~Execution
      <4>1. call' = [pc |-> "target", id |-> 0, task |-> CommandTask[job.cmd],
                     waiting |-> <<epoch + 1>>]
        BY <1>3, <3>2 DEF StartTask, NoCall
      <4>2. <<epoch + 1>> \in Seq(Nat)
        BY <2>1, SingleOutcome
      <4> QED
        BY <2>1, <2>3, <4>1, <4>2 DEF AdapterTypeOK, CallShape
    <3> QED
      BY <3>1, <3>2
  <2> QED
    BY <1>3, <2>2, <2>3, <2>4, PipeKept, WorldKept
<1>4. CASE ResumeTask /\ UNCHANGED worldVars
  <2>1. OrchestratorTypeOK'
    BY <1>4, SingleOutcome, OrchestratorType DEF ResumeTask
  <2>2. PipeTypeOK'
    <3>1. CASE Execution /\ Send("resume", call.task, active.gen)
      <4>1. call.task \in Tasks /\ "resume" \in RequestTypes
        BY <3>1 DEF Execution, RequestTypes
      <4> QED
        BY <3>1, <4>1, SendKeeps
    <3>2. CASE UNCHANGED sidecarVars
      BY <3>2, PipeKept DEF sidecarVars
    <3> QED
      BY <1>4, <3>1, <3>2 DEF ResumeTask
  <2>3. UNCHANGED <<call, control>>
    BY <1>4 DEF ResumeTask, sidecarVars
  <2> QED
    BY <1>4, <2>1, <2>2, <2>3, AdapterKept, WorldKept
<1>5. CASE PauseTask /\ UNCHANGED worldVars
  <2>1. CASE PauseBegins /\ call.pc # "none" /\ Send("pause", call.task, 0)
             /\ control' = [pc |-> "waiting", id |-> requests + 1] /\ UNCHANGED call
    <3>1. OrchestratorTypeOK'
      BY <2>1, OrchestratorType
    <3>2. PipeTypeOK'
      BY <2>1, SendKeeps DEF RequestTypes
    <3>3. AdapterTypeOK' /\ CallShape'
      BY <2>1 DEF AdapterTypeOK, CallShape
    <3> QED
      BY <1>5, <3>1, <3>2, <3>3, WorldKept
  <2>2. CASE Throws /\ job.pc = "begin" /\ UNCHANGED sidecarVars
    <3>1. OrchestratorTypeOK'
      BY <2>2 DEF Throws, OrchestratorTypeOK, LeaseTypeOK, leaseVars, diskVars, JobPcs
    <3> QED
      BY <1>5, <2>2, <3>1, PipeKept, AdapterKept, WorldKept DEF sidecarVars
  <2> QED
    BY <1>5, <2>1, <2>2 DEF PauseTask
<1>6. CASE CancelTask /\ UNCHANGED worldVars
  <2>1. CASE CancelBegins /\ UNCHANGED sidecarVars
    <3>1. OrchestratorTypeOK'
      BY <2>1, OrchestratorType
    <3> QED
      BY <1>6, <2>1, <3>1, PipeKept, AdapterKept, WorldKept DEF sidecarVars
  <2>2. CASE call.pc # "none" /\ Send("cancel", call.task, 0)
             /\ control' = [pc |-> "waiting", id |-> requests + 1]
             /\ UNCHANGED <<call, orchestratorVars>>
    <3>1. PipeTypeOK'
      BY <2>2, SendKeeps DEF RequestTypes
    <3>2. AdapterTypeOK' /\ CallShape'
      BY <2>2 DEF AdapterTypeOK, CallShape
    <3> QED
      BY <1>6, <2>2, <3>1, <3>2, OrchestratorKept, WorldKept
  <2> QED
    BY <1>6, <2>1, <2>2 DEF CancelTask
<1>7. CASE ControlReturns /\ UNCHANGED worldVars
  <2>1. OrchestratorTypeOK'
    BY <1>7, OrchestratorType DEF ControlReturns, ServesCommand
  <2>2. AdapterTypeOK' /\ CallShape'
    BY <1>7 DEF ControlReturns, AdapterTypeOK, CallShape, NoControl
  <2> QED
    BY <1>7, <2>1, <2>2, PipeKept, WorldKept DEF ControlReturns
<1>8. CASE ControlThrows /\ UNCHANGED worldVars
  <2>1. OrchestratorTypeOK'
    <3>1. job.pc # "free"
      BY <1>8 DEF ControlThrows
    <3> QED
      BY <1>8, <3>1 DEF ControlThrows, Throws, OrchestratorTypeOK, LeaseTypeOK, leaseVars,
         diskVars, JobPcs
  <2>2. AdapterTypeOK' /\ CallShape'
    BY <1>8 DEF ControlThrows, AdapterTypeOK, CallShape, NoControl
  <2> QED
    BY <1>8, <2>1, <2>2, PipeKept, WorldKept DEF ControlThrows
<1>9. CASE OrchestrateFaulty
  <2>1. OrchestratorTypeOK'
    BY <1>9, OrchestratorType DEF OrchestrateFaulty, ServesCommand
  <2>2. AdapterTypeOK' /\ CallShape' /\ UNCHANGED <<clientVars, workerVars>>
    <3>1. CASE UNCHANGED sidecarVars
      BY <3>1, AdapterKept DEF sidecarVars
    <3>2. CASE control' = NoControl /\ UNCHANGED <<clientVars, workerVars, call>>
      BY <3>2 DEF AdapterTypeOK, CallShape, NoControl
    <3> QED
      BY <1>9, <3>1, <3>2 DEF OrchestrateFaulty
  <2> QED
    BY <1>9, <2>1, <2>2, PipeKept, WorldKept DEF OrchestrateFaulty
<1> QED
  BY <1>1, <1>2, <1>3, <1>4, <1>5, <1>6, <1>7, <1>8, <1>9 DEF Orchestrate


(* The operation of an execution that settles, or of everything that fails.*)
LEMMA EnqueueType ==
  ASSUME OrchestratorTypeOK, NEW gens \in Seq(Nat), NEW s \in {"succeeded", "failed"},
         Enqueue(Outcomes(gens, s))
  PROVE  OrchestratorTypeOK'
  BY OutcomesType, OrchestratorType DEF Automation

LEMMA SettleType ==
  ASSUME Types, NEW s \in {"succeeded", "failed"}, Settle(s)
  PROVE  /\ OrchestratorTypeOK' /\ CallShape'
         /\ UNCHANGED control => AdapterTypeOK'
<1>1. OrchestratorTypeOK'
  BY EnqueueType, NumbersTyped, TypeParts DEF Settle
<1>2. call' = NoCall /\ <<>> \in Seq(Nat)
  BY EmptySeq DEF Settle
<1> QED
  BY <1>1, <1>2, TypeParts DEF AdapterTypeOK, CallShape, NoCall

LEMMA AllFailType ==
  ASSUME Types, AllFail
  PROVE  OrchestratorTypeOK' /\ AdapterTypeOK' /\ CallShape'
<1>0. /\ OrchestratorTypeOK /\ ClientTypeOK(Tasks) /\ AdapterTypeOK /\ CallShape
      /\ call.waiting \in Seq(Nat)
  BY TypeParts, NumbersTyped DEF PipeTypeOK
<1>1. PICK q \in InOrder(Resumes) :
        Enqueue(Outcomes((IF Execution THEN call.waiting ELSE <<>>) \o Gens(q), "failed"))
  BY DEF AllFail
<1>2. (IF Execution THEN call.waiting ELSE <<>>) \o Gens(q) \in Seq(Nat)
  BY <1>0, GensType, EmptySeq, ConcatProperties
<1>3. OrchestratorTypeOK'
  BY <1>0, <1>1, <1>2, EnqueueType
<1>4. call' = (IF Execution THEN NoCall ELSE call) /\ <<>> \in Seq(Nat)
  BY EmptySeq DEF AllFail
<1>5. control' = IF control.pc = "waiting" THEN [control EXCEPT !.pc = "failed"] ELSE control
  BY DEF AllFail
<1> QED
  BY <1>0, <1>3, <1>4, <1>5 DEF AdapterTypeOK, CallShape, NoCall

LEMMA GivesUpType ==
  ASSUME Types, NEW i \in DOMAIN pending, GivesUp(i)
  PROVE  OrchestratorTypeOK' /\ PipeTypeOK' /\ AdapterTypeOK' /\ CallShape'
<1>0. /\ OrchestratorTypeOK /\ PipeTypeOK /\ ClientTypeOK(Tasks) /\ AdapterTypeOK /\ CallShape
      /\ pending[i] \in Call(Tasks)
  BY TypeParts, NumbersTyped DEF PipeTypeOK
<1>1. PipeTypeOK'
  <2>1. pending' \in Seq(Call(Tasks)) /\ (process # "ready" => \A j \in DOMAIN pending' : ~pending'[j].sent)
    BY <1>0, SettledType DEF GivesUp
  <2>2. UNCHANGED <<process, requests, workerVars>>
    BY DEF GivesUp
  <2> QED
    BY <1>0, <2>1, <2>2 DEF PipeTypeOK, WorkerTypeOK, ExecShape, ClientTypeOK, workerVars
<1>2. pending[i].type \in RequestTypes /\ pending[i].gen \in Nat
  BY <1>0 DEF Call
<1>3. CASE pending[i].type = "execute"
  BY <1>0, <1>1, <1>3, SettleType DEF GivesUp
<1>4. CASE pending[i].type = "resume"
  <2>1. Enqueue(<<OutcomeOp(pending[i].gen, "failed")>>) /\ UNCHANGED <<call, control>>
    BY <1>4 DEF GivesUp
  <2>2. OrchestratorTypeOK'
    BY <1>0, <1>2, <2>1, SingleOutcome, OrchestratorType DEF Automation
  <2> QED
    BY <1>0, <1>1, <2>1, <2>2, AdapterKept
<1>5. CASE pending[i].type \in {"pause", "cancel"}
  <2>1. /\ control' = [control EXCEPT !.pc = "failed"]
        /\ UNCHANGED <<call, orchestratorVars>>
    BY <1>5 DEF GivesUp
  <2> QED
    BY <1>0, <1>1, <2>1, OrchestratorKept DEF AdapterTypeOK, CallShape
<1> QED
  BY <1>2, <1>3, <1>4, <1>5 DEF RequestTypes

(* The client's, the worker's and the failures.                            *)
LEMMA ClientType ==
  ASSUME Types, Client,
         \A c \in Range(pending) : c.type = "execute" => call.pc = "acking"
  PROVE  Types'
<1>0. /\ OrchestratorTypeOK /\ PipeTypeOK /\ AdapterTypeOK /\ CallShape /\ WorldTypeOK
      /\ WorkerTypeOK(NoTask, Tasks) /\ ClientTypeOK(Tasks)
  BY TypeParts DEF PipeTypeOK
<1> USE <1>0, NumbersTyped
<1> SUFFICES OrchestratorTypeOK' /\ PipeTypeOK' /\ AdapterTypeOK' /\ CallShape' /\ WorldTypeOK'
  BY TypePartsNext
<1>1. CASE TargetKnown
  <2>1. PipeTypeOK'
    BY <1>1, SendKeeps DEF TargetKnown, RequestTypes
  <2>2. AdapterTypeOK' /\ CallShape'
    <3>1. call' = [call EXCEPT !.pc = "acking", !.id = requests + 1] /\ UNCHANGED control
      BY <1>1 DEF TargetKnown
    <3>2. requests + 1 \in Nat /\ call.task \in Tasks
      BY <1>1 DEF TargetKnown
    <3> HIDE NumbersTyped
    <3> QED
      BY <3>1, <3>2 DEF AdapterTypeOK, CallShape
  <2> QED
    BY <1>1, <2>1, <2>2, OrchestratorKept, WorldKept DEF TargetKnown
<1>2. CASE ProcessReady
  <2>1. PipeTypeOK'
    BY <1>2, ReadyType DEF ProcessReady, Ready, PipeTypeOK, ExecShape
  <2> QED
    BY <1>2, <2>1, AdapterKept, OrchestratorKept, WorldKept DEF ProcessReady
<1>3. CASE ResultArrives /\ UNCHANGED worldVars
  <2>1. PipeTypeOK'
    <3>1. stdout # <<>> /\ Consume /\ UNCHANGED clientVars
      BY <1>3 DEF ResultArrives, Receives
    <3> QED
      BY <3>1, ConsumeType DEF PipeTypeOK, ExecShape, ClientTypeOK, clientVars, Consume
  <2>2. CASE Settle(OutcomeOf(Head(stdout).status)) /\ UNCHANGED control
    BY <1>3, <2>1, <2>2, SettleType, WorldKept DEF OutcomeOf
  <2>3. CASE UNCHANGED <<call, orchestratorVars, control>>
    BY <1>3, <2>1, <2>3, OrchestratorKept, AdapterKept, WorldKept
  <2> QED
    BY <1>3, <2>2, <2>3 DEF ResultArrives
<1>4. CASE AckArrives /\ UNCHANGED worldVars
  <2>1. PICK i \in DOMAIN pending : Answers(pending[i]) /\ Settled(i) /\ Acknowledged(pending[i])
    BY <1>4 DEF AckArrives
  <2>2. stdout # <<>> /\ Consume /\ UNCHANGED <<process, requests>>
    BY <1>4, <2>1 DEF AckArrives, Answers, Receives
  <2>3. PipeTypeOK'
    <3>1. /\ pending' \in Seq(Call(Tasks))
          /\ process # "ready" => \A j \in DOMAIN pending' : ~pending'[j].sent
      BY <2>1, SettledType
    <3> QED
      BY <2>2, <3>1, ConsumeType DEF PipeTypeOK, ExecShape, ClientTypeOK, Consume
  <2>4. pending[i].gen \in Nat /\ pending[i].type \in RequestTypes
    BY DEF Call
  <2>5. UNCHANGED orchestratorVars
    BY <2>1, <2>4 DEF Acknowledged, RequestTypes
  <2>6. AdapterTypeOK' /\ CallShape'
    <3>1. CASE pending[i].type = "execute"
      <4>1. call' = [call EXCEPT !.pc = "running"] /\ UNCHANGED control
        BY <2>1, <3>1 DEF Acknowledged
      <4>2. call.task \in Tasks
        BY <3>1 DEF CallShape, Range
      <4>3. AdapterTypeOK'
        BY <4>1 DEF AdapterTypeOK
      <4> QED
        BY <4>1, <4>2, <4>3 DEF AdapterTypeOK, CallShape
    <3>2. CASE pending[i].type = "resume"
      <4>1. Append(call.waiting, pending[i].gen) \in Seq(Nat)
        BY <2>4, AppendProperties
      <4>2. /\ call' = IF Execution THEN [call EXCEPT !.waiting = Append(@, pending[i].gen)]
                                    ELSE call
            /\ UNCHANGED control
        BY <2>1, <3>2 DEF Acknowledged
      <4> QED
        BY <4>1, <4>2 DEF AdapterTypeOK, CallShape
    <3>3. CASE pending[i].type \in {"pause", "cancel"}
      BY <2>1, <3>3 DEF Acknowledged, AdapterTypeOK, CallShape
    <3> QED
      BY <2>4, <3>1, <3>2, <3>3 DEF RequestTypes
  <2> QED
    BY <1>4, <2>3, <2>5, <2>6, OrchestratorKept, WorldKept
<1>5. CASE LineDropped /\ UNCHANGED worldVars
  <2>1. stdout # <<>> /\ Consume /\ UNCHANGED <<clientVars, call, control, orchestratorVars>>
    BY <1>5 DEF LineDropped, IsDropped, Receives
  <2>2. PipeTypeOK'
    BY <2>1, ConsumeType DEF PipeTypeOK, ExecShape, ClientTypeOK, clientVars, Consume
  <2> QED
    BY <1>5, <2>1, <2>2, OrchestratorKept, AdapterKept, WorldKept
<1>6. CASE RequestTimesOut
  BY <1>6, GivesUpType, WorldKept DEF RequestTimesOut
<1>7. CASE StartRejects
  <2>1. pending' \in Seq(Call(Tasks)) /\ DOMAIN pending' = {}
    BY <1>7, EmptySeq DEF StartRejects, StartRejected
  <2>2. PipeTypeOK'
    BY <1>7, <2>1 DEF StartRejects, StartRejected, PipeTypeOK, WorkerTypeOK, ClientTypeOK,
       ExecShape, workerVars
  <2> QED
    BY <1>7, <2>2, AllFailType, WorldKept DEF StartRejects
<1> QED
  BY <1>1, <1>2, <1>3, <1>4, <1>5, <1>6, <1>7 DEF Client, ReadsLine

LEMMA FailureType ==
  ASSUME Types, Failure
  PROVE  Types'
<1>0. /\ OrchestratorTypeOK /\ PipeTypeOK /\ AdapterTypeOK /\ CallShape /\ WorldTypeOK
      /\ WorkerTypeOK(NoTask, Tasks) /\ ClientTypeOK(Tasks) /\ ExecShape
  BY TypeParts DEF PipeTypeOK
<1> USE <1>0, NumbersTyped
<1> SUFFICES OrchestratorTypeOK' /\ PipeTypeOK' /\ AdapterTypeOK' /\ CallShape' /\ WorldTypeOK'
  BY TypePartsNext
<1>1. CASE TargetUnknown
  <2>1. OrchestratorTypeOK'
    BY <1>1, EnqueueType DEF TargetUnknown
  <2>2. AdapterTypeOK' /\ CallShape'
    BY <1>1 DEF TargetUnknown, AdapterTypeOK, CallShape
  <2> QED
    BY <1>1, <2>1, <2>2, PipeKept, WorldKept DEF TargetUnknown
<1>2. CASE AnsweredTooLate
  BY <1>2, GivesUpType, WorldKept DEF AnsweredTooLate
<1>3. CASE ProcessDies
  <2>1. /\ stdin' = <<>> /\ stdout' = <<>> /\ serving' = <<>> /\ exec' = NoExec(NoTask)
        /\ process' = "none" /\ pending' = <<>> /\ UNCHANGED requests
    BY <1>3 DEF ProcessDies, ProcessGone, WorkerExits
  <2>2. /\ stdin' \in Seq(Request(Tasks)) /\ stdout' \in Seq(Response(Tasks))
        /\ serving' \in Seq(Request(Tasks)) /\ Len(serving') <= 1
        /\ pending' \in Seq(Call(Tasks)) /\ DOMAIN pending' = {}
    BY <2>1, EmptySeq
  <2>3. PipeTypeOK'
    BY <2>1, <2>2, AgentStepsAssumption DEF PipeTypeOK, WorkerTypeOK, ClientTypeOK, ExecShape, NoExec
  <2> QED
    BY <1>3, <2>3, AllFailType, WorldKept DEF ProcessDies
<1>4. CASE InvalidLine
  <2>1. pending' \in Seq(Call(Tasks)) /\ DOMAIN pending' = {}
    BY <1>4, EmptySeq DEF InvalidLine
  <2>2. PipeTypeOK'
    BY <1>4, <2>1 DEF InvalidLine, PipeTypeOK, WorkerTypeOK, ClientTypeOK, ExecShape,
       workerVars
  <2> QED
    BY <1>4, <2>2, AllFailType, WorldKept DEF InvalidLine
<1>5. CASE WorkerFails
  <2>1. WorkerTypeOK(NoTask, Tasks)' /\ ExecShape'
    BY <1>5, ExecutionType DEF WorkerFails
  <2>2. UNCHANGED <<clientVars, call, control, orchestratorVars>> /\ Fault
    BY <1>5 DEF WorkerFails
  <2>3. PipeTypeOK'
    BY <2>1, <2>2 DEF PipeTypeOK, ClientTypeOK, clientVars
  <2> QED
    BY <2>2, <2>3, OrchestratorKept, AdapterKept, WorldKept
<1>6. CASE SpawnError
  <2>1. pending' \in Seq(Call(Tasks)) /\ DOMAIN pending' = {}
    BY <1>6, EmptySeq DEF SpawnError, SpawnFails
  <2>2. PipeTypeOK'
    BY <1>6, <2>1 DEF SpawnError, SpawnFails, PipeTypeOK, WorkerTypeOK, ClientTypeOK, ExecShape,
       workerVars
  <2> QED
    BY <1>6, <2>2, AllFailType, WorldKept DEF SpawnError
<1> QED
  BY <1>1, <1>2, <1>3, <1>4, <1>5, <1>6 DEF Failure

LEMMA WorkerType ==
  ASSUME Types, Worker
  PROVE  Types'
<1>0. /\ OrchestratorTypeOK /\ PipeTypeOK /\ AdapterTypeOK /\ CallShape /\ WorldTypeOK
      /\ WorkerTypeOK(NoTask, Tasks) /\ ClientTypeOK(Tasks) /\ ExecShape
  BY TypeParts DEF PipeTypeOK
<1>1. WorkerTypeOK(NoTask, Tasks)' /\ ExecShape'
  BY <1>0, MainLoopType, ExecutionType DEF Worker
<1>2. UNCHANGED <<clientVars, call, control, orchestratorVars, delivered, faults, abandoned>>
  BY DEF Worker
<1>3. PipeTypeOK'
  BY <1>0, <1>1, <1>2 DEF PipeTypeOK, ClientTypeOK, clientVars
<1>4. achieved' \subseteq Tasks
  <2>1. stdout' \in Seq(Response(Tasks)) /\ achieved \subseteq Tasks
    BY <1>0, <1>1 DEF WorkerTypeOK, WorldTypeOK
  <2>2. \A i \in DOMAIN stdout' : stdout'[i].task \in Tasks
    <3>1. \A i \in DOMAIN stdout' : stdout'[i] \in Response(Tasks)
      BY <2>1, ElementOfSeq, LenProperties
    <3> QED
      BY <3>1 DEF Response
  <2> QED
    BY <2>1, <2>2 DEF Worker
<1>5. WorldTypeOK'
  BY <1>0, <1>2, <1>4 DEF WorldTypeOK
<1> QED
  BY <1>0, <1>2, <1>3, <1>5, OrchestratorKept, AdapterKept, TypePartsNext

=============================================================================
