---------------------------- MODULE GraphSyncProofs ----------------------------
(***************************************************************************)
(* The watcher keeps the graph in step with the cluster, whatever the      *)
(* objects and their specs: types, no real node of a deleted object unless *)
(* its deletion is under way, and every node and every SELECTS_PODS edge   *)
(* once the handlers have caught up.                                       *)
(***************************************************************************)
EXTENDS GraphSync, HandlerProofs

(***************************************************************************)
(* The inductive invariant, in parts.                                      *)
(***************************************************************************)

\* The variables are functions and records, the queues and tasks sequences.
Shapes ==
    /\ cluster = [o \in Objects |-> cluster[o]]
    /\ pending = [k \in Kinds |-> pending[k]] /\ task = [k \in Kinds |-> task[k]]
    /\ graph = [real |-> graph.real, placeholder |-> graph.placeholder, edges |-> graph.edges]
    /\ \A k \in Kinds : IsSeq(pending[k]) /\ IsSeq(task[k])

\* A crash leaves nothing to do.
DownIsIdle == ~up => \A k \in Kinds : pending[k] = <<>> /\ task[k] = <<>>

\* The notification that says what the cluster now holds of its object.
Current(o, n) ==
    /\ n.obj = o
    /\ IF Exists(o) THEN n.type # "delete" /\ n.spec = cluster[o] ELSE n.type = "delete"

Waits(o) == \E i \in 1..Len(pending[o.kind]) : Current(o, pending[o.kind][i])

\* Behind every notification of an object, or at its place, is the current one.
QueuesEndCurrent ==
    \A k \in Kinds : \A i \in 1..Len(pending[k]) : \E j \in i..Len(pending[k]) :
        Current(pending[k][i].obj, pending[k][j])

\* What a kind's handler may have left to do: a delete deletes nodes, of its own
\* kind's objects if of any; an add or update writes and deletes none.
Erasing(k, st) ==
    /\ IsStatement(st) /\ st.op = "DeleteNode" /\ st.skip = 0
    /\ \A o \in Objects : st.arg \in NodesOf(o) => o.kind = k

Writing(k, st) == \E o \in OfKind[k] : Writes(o, st)

ErasesOnly(k, q) == \A i \in 1..Len(q) : Erasing(k, q[i])
WritesOnly(k, q) == \A i \in 1..Len(q) : Writing(k, q[i]) /\ i + q[i].skip <= Len(q)

TasksOfKind == \A k \in Kinds : ErasesOnly(k, task[k]) \/ WritesOnly(k, task[k])

\* A handler that still writes a node of an object that is gone runs before a
\* notification of the deletion.
LateWritesAreUndone ==
    \A o \in Objects : ~Exists(o) =>
        \A n \in NodesOf(o) : Has(task[o.kind], "UpsertNode", n) => Waits(o)

\* A handler that still deletes a node of an object that exists again runs before
\* a notification that brings it back.
LateDeletesAreUndone ==
    \A o \in Objects : Exists(o) =>
        \A n \in NodesOf(o) : Has(task[o.kind], "DeleteNode", n) => Waits(o)

\* A node that is missing is coming.
NodesComing ==
    up /\ ~lossy =>
        \A o \in Objects : Exists(o) =>
            \A n \in NodesOf(o) :
                n \in graph.real \/ Has(task[o.kind], "UpsertNode", n) \/ Waits(o)

\* A Service that loses its edges to an update lists its Pods after it.
Follows(s, sel, q) ==
    \A i \in 1..Len(q) :
        q[i].op = "DeleteEdgesByTypeAndNode" /\ q[i].arg[1] = NodeFor(s) =>
            \E j \in i + 1..Len(q) : q[j].op = "ListPods" /\ q[j].arg = PodsArg(s, sel)

DropsAreFollowed ==
    \A s \in Existing("Service") : cluster[s].selector # {} =>
        Waits(s) \/ Follows(s, cluster[s].selector, task["Service"])

\* A missing edge of a Service and a Pod that it selects is coming, from either
\* side: from a list that will find the other, or from the edges that it found.
EdgeComing(s, p) ==
    \/ Waits(s) \/ Waits(p)
    \/ Has(task["Service"], "ListPods", PodsArg(s, cluster[s].selector))
    \/ Has(task["Pod"], "ListServices", ServicesArg(p, cluster[p].labels))
    \/ \E k \in {"Service", "Pod"} : Has(task[k], "UpsertEdge", SelectsEdge(s, p))

SelectsComing ==
    up /\ ~lossy =>
        \A s \in Existing("Service"), p \in Existing("Pod") :
            Selects(s, cluster[s].selector, p, cluster[p].labels) =>
                SelectsEdge(s, p) \in graph.edges \/ EdgeComing(s, p)

(***************************************************************************)
(* Sequences and lists.                                                    *)
(***************************************************************************)

LEMMA SeqIsSeq == ASSUME NEW S, NEW q \in Seq(S) PROVE IsSeq(q)
<1> DEFINE n == Len(q)
<1>1. n \in Nat /\ DOMAIN q = 1..n /\ q = [i \in 1..n |-> q[i]]
    BY LenProperties
<1> HIDE DEF n
<1>2. QED
    BY <1>1, FunIsSeq

LEMMA LenZero == ASSUME NEW q, IsSeq(q) PROVE Len(q) = 0 <=> q = <<>>
<1>1. q \in Seq(Range(q))
    BY DEF IsSeq
<1>2. QED
    BY <1>1, EmptySeq

LEMMA TailIsSeq ==
    ASSUME NEW q, IsSeq(q), q # <<>>
    PROVE  /\ Len(q) \in Nat /\ Len(q) >= 1 /\ Head(q) = q[1]
           /\ IsSeq(Tail(q)) /\ Len(Tail(q)) = Len(q) - 1
           /\ \A i \in 1..Len(q) - 1 : Tail(q)[i] = q[i + 1]
<1>1. q \in Seq(Range(q)) /\ Len(q) \in Nat /\ Len(q) # 0
    BY LenZero DEF IsSeq
<1>2. /\ Tail(q) \in Seq(Range(q)) /\ Len(Tail(q)) = Len(q) - 1
      /\ \A i \in 1..Len(Tail(q)) : Tail(q)[i] = q[i + 1]
    BY <1>1, HeadTailProperties
<1>4. IsSeq(Tail(q))
    BY <1>2, SeqIsSeq
<1>5. Head(q) = q[1]
    BY <1>1
<1>6. QED
    BY <1>1, <1>2, <1>4, <1>5

LEMMA AppendIsSeq ==
    ASSUME NEW q, IsSeq(q), NEW x
    PROVE  /\ IsSeq(Append(q, x)) /\ Len(Append(q, x)) = Len(q) + 1 /\ Len(q) \in Nat
           /\ \A i \in 1..Len(q) : Append(q, x)[i] = q[i]
           /\ Append(q, x)[Len(q) + 1] = x
<1> DEFINE S == Range(q) \union {x}
           r == Append(q, x)
<1>1. q \in Seq(S) /\ x \in S /\ Len(q) \in Nat
    BY SeqMonotonic DEF IsSeq
<1>2. /\ r \in Seq(S) /\ Len(r) = Len(q) + 1
      /\ \A i \in 1..Len(q) : r[i] = q[i]
      /\ r[Len(q) + 1] = x
    BY <1>1, AppendProperties
<1>4. IsSeq(r)
    BY <1>2, SeqIsSeq
<1>5. QED
    BY <1>1, <1>2, <1>4

\* What is left after the first m elements.
LEMMA SuffixIsSeq ==
    ASSUME NEW q, IsSeq(q), NEW m \in Nat, m <= Len(q)
    PROVE  /\ IsSeq(SubSeq(q, m + 1, Len(q)))
           /\ Len(SubSeq(q, m + 1, Len(q))) = Len(q) - m /\ Len(q) \in Nat
           /\ \A i \in 1..Len(q) - m : SubSeq(q, m + 1, Len(q))[i] = q[m + i]
<1> DEFINE r == SubSeq(q, m + 1, Len(q))
           S == Range(q)
<1>1. Len(q) \in Nat /\ \A i \in m + 1..Len(q) : q[i] \in S
    BY DEF IsSeq, Range
<1>2. m + 1 \in Int /\ Len(q) \in Int
    BY <1>1
<1>3. /\ r \in Seq(S)
      /\ Len(r) = IF m + 1 <= Len(q) THEN Len(q) - (m + 1) + 1 ELSE 0
      /\ \A i \in 1..Len(q) - (m + 1) + 1 : r[i] = q[m + 1 + i - 1]
    BY <1>1, <1>2, SubSeqProperties
<1>5. Len(r) = Len(q) - m
    BY <1>1, <1>3
<1>6. \A i \in 1..Len(q) - m : r[i] = q[m + i]
    <2> SUFFICES ASSUME NEW i \in 1..Len(q) - m PROVE r[i] = q[m + i]
        OBVIOUS
    <2>1. m + 1 + i - 1 = m + i /\ i \in 1..Len(q) - (m + 1) + 1
        BY <1>1
    <2>2. QED  BY <1>3, <2>1
<1>7. IsSeq(r)
    BY <1>3, SeqIsSeq
<1>8. QED
    BY <1>1, <1>5, <1>6, <1>7

\* The list of a finite set: its elements, and all of them.
LEMMA SetToSeqLists ==
    ASSUME NEW S, IsFiniteSet(S)
    PROVE  /\ IsSeq(SetToSeq(S))
           /\ \A i \in 1..Len(SetToSeq(S)) : SetToSeq(S)[i] \in S
           /\ \A x \in S : \E i \in 1..Len(SetToSeq(S)) : SetToSeq(S)[i] = x
<1> DEFINE n == Cardinality(S)
           q == SetToSeq(S)
<1>1. n \in Nat /\ ExistsBijection(1..n, S)
    BY FS_CardinalityType
<1>2. PICK f : f \in [1..n -> S] /\ IsInjective(f)
    <2>1. PICK f : f \in Bijection(1..n, S)
        BY <1>1 DEF ExistsBijection
    <2>2. f \in [1..n -> S] /\ IsInjective(f)
        BY <2>1 DEF Bijection, Injection
    <2>3. QED  BY <2>2
<1>3. q \in [1..n -> S] /\ IsInjective(q)
    BY <1>2, Zenon DEF SetToSeq
<1> HIDE DEF q, n
<1>4. q \in Injection(1..n, S)
    BY <1>3 DEF Injection
<1>5. IsFiniteSet(1..n) /\ Cardinality(1..n) = n
    BY <1>1, FS_Interval DEF n
<1>6. q \in Surjection(1..n, S)
    BY <1>4, <1>5, FS_Injection DEF n
<1>7. \A x \in S : \E i \in 1..n : q[i] = x
    BY <1>6 DEF Surjection
<1>8. IsSeq(q) /\ Len(q) = n
    BY <1>1, <1>3, FunIsSeq DEF n
<1>9. QED
    BY <1>3, <1>7, <1>8 DEF q

(***************************************************************************)
(* Objects, notifications and followers.                                   *)
(***************************************************************************)

LEMMA ObjectFacts ==
    ASSUME NEW o \in Objects
    PROVE  /\ o.kind \in Kinds /\ o.kind \in ObjectKinds
           /\ Absent \notin Specs[o] /\ \A s \in Specs[o] : WellFormed(o, s)
           /\ \A p \in Objects : o # p => NodesOf(o) \intersect NodesOf(p) = {}
BY SyncAssumption DEF Kinds, ObjectKinds

LEMMA KindFacts ==
    ASSUME NEW k \in Kinds
    PROVE  k \in HandledKinds /\ OfKind[k] = {o \in Objects : o.kind = k}
BY SyncAssumption DEF Kinds, OfKind

LEMMA ServiceAndPod ==
    /\ OfKind["Service"] = {o \in Objects : o.kind = "Service"}
    /\ OfKind["Pod"] = {o \in Objects : o.kind = "Pod"}
BY DEF OfKind, HandledKinds, CoreKinds

\* A listing has a notification of each object there is, with what it is now.
LEMMA ForEachLists ==
    ASSUME NEW k \in Kinds, NEW type
    PROVE  /\ IsSeq(ForEach(k, type))
           /\ \A i \in 1..Len(ForEach(k, type)) :
                  \E o \in Existing(k) : ForEach(k, type)[i] = Notification(type, o, cluster[o])
           /\ \A o \in Existing(k) :
                  \E i \in 1..Len(ForEach(k, type)) :
                      ForEach(k, type)[i] = Notification(type, o, cluster[o])
<1> DEFINE S == Existing(k)
           list == SetToSeq(S)
           q == [i \in DOMAIN list |-> Notification(type, list[i], cluster[list[i]])]
<1>1. IsFiniteSet(S)
    BY KindFacts, SyncAssumption, FS_Subset DEF Existing
<1>2. /\ IsSeq(list) /\ \A i \in 1..Len(list) : list[i] \in S
      /\ \A x \in S : \E i \in 1..Len(list) : list[i] = x
    BY <1>1, SetToSeqLists
<1>3. ForEach(k, type) = q
    BY DEF ForEach
<1> HIDE DEF S, list
<1>4. DOMAIN q = 1..Len(list) /\ Len(list) \in Nat
      /\ \A i \in 1..Len(list) : q[i] = Notification(type, list[i], cluster[list[i]])
    BY <1>2 DEF IsSeq
<1>5. q = [i \in 1..Len(list) |-> q[i]]
    BY <1>4
<1> HIDE DEF q
<1>6. IsSeq(q) /\ Len(q) = Len(list)
    BY <1>4, <1>5, FunIsSeq
<1>7. QED
    BY <1>2, <1>3, <1>4, <1>6 DEF S

\* What a list leaves to do: edges to write, none of which leads out of them.
EdgesOnly(q) ==
    /\ IsSeq(q)
    /\ \A i \in 1..Len(q) :
           IsStatement(q[i]) /\ q[i].op = "UpsertEdge" /\ i + q[i].skip <= Len(q)

LEMMA ChainKeeps ==
    ASSUME NEW q, EdgesOnly(q)
    PROVE  /\ EdgesOnly(Chain(q))
           /\ \A e : Has(q, "UpsertEdge", e) => Has(Chain(q), "UpsertEdge", e)
<1> DEFINE r == Chain(q)
<1>1. /\ IsSeq(r) /\ Len(r) = Len(q) /\ Len(q) \in Nat
      /\ \A i \in 1..Len(q) : r[i] = [q[i] EXCEPT !.skip = Len(q) - i]
    BY ChainShape DEF EdgesOnly, IsSeq
<1> HIDE DEF r
<1>2. ASSUME NEW i \in 1..Len(q)
      PROVE  IsStatement(r[i]) /\ r[i].op = q[i].op /\ r[i].arg = q[i].arg /\ r[i].skip = Len(q) - i
    <2> DEFINE st == q[i]
    <2>1. IsStatement(st) /\ Len(q) - i \in Nat
        BY <1>1 DEF EdgesOnly
    <2>2. r[i] = [st EXCEPT !.skip = Len(q) - i]
        BY <1>1
    <2> HIDE DEF st
    <2>3. /\ IsStatement([st EXCEPT !.skip = Len(q) - i])
          /\ [st EXCEPT !.skip = Len(q) - i].op = st.op
          /\ [st EXCEPT !.skip = Len(q) - i].arg = st.arg
          /\ [st EXCEPT !.skip = Len(q) - i].skip = Len(q) - i
        BY <2>1, SkipShape
    <2>4. QED  BY <2>2, <2>3, Zenon DEF st
<1>3. EdgesOnly(r)
    <2> SUFFICES ASSUME NEW i \in 1..Len(r)
                 PROVE  IsStatement(r[i]) /\ r[i].op = "UpsertEdge" /\ i + r[i].skip <= Len(r)
        BY <1>1 DEF EdgesOnly
    <2>1. i \in 1..Len(q) /\ q[i].op = "UpsertEdge"
        BY <1>1 DEF EdgesOnly
    <2>2. i + (Len(q) - i) <= Len(r)
        BY <1>1, <2>1
    <2>3. QED  BY <1>2, <2>1, <2>2
<1>4. \A e : Has(q, "UpsertEdge", e) => Has(r, "UpsertEdge", e)
    BY <1>1, <1>2 DEF Has
<1>5. QED
    BY <1>3, <1>4 DEF r

\* A finite set of edges as statements.
LEMMA EdgeStatements ==
    ASSUME NEW edges, IsFiniteSet(edges),
           NEW q, q = SetToSeq({Statement("UpsertEdge", e) : e \in edges})
    PROVE  EdgesOnly(q) /\ \A e \in edges : Has(q, "UpsertEdge", e)
<1> DEFINE S == {Statement("UpsertEdge", e) : e \in edges}
           f == [e \in edges |-> Statement("UpsertEdge", e)]
<1>1. f \in Surjection(edges, S)
    BY DEF Surjection
<1>2. IsFiniteSet(S)
    BY <1>1, FS_Surjection
<1>3. \A st \in S : IsStatement(st) /\ st.op = "UpsertEdge" /\ st.arg \in edges /\ st.skip = 0
    BY StatementShape
<1>4. \A e \in edges : \E st \in S : st.arg = e
    BY StatementShape
<1> HIDE DEF S, f
<1>5. /\ IsSeq(q) /\ \A i \in 1..Len(q) : q[i] \in S
      /\ \A st \in S : \E i \in 1..Len(q) : q[i] = st
    BY <1>2, SetToSeqLists DEF S
<1>6. EdgesOnly(q)
    BY <1>3, <1>5 DEF EdgesOnly, IsSeq
<1>7. ASSUME NEW e \in edges PROVE Has(q, "UpsertEdge", e)
    <2>1. PICK st \in S : st.arg = e
        BY <1>4
    <2>2. PICK i \in 1..Len(q) : q[i] = st
        BY <1>5
    <2>3. q[i].op = "UpsertEdge" /\ q[i].arg = e
        BY <1>3, <2>1, <2>2
    <2>4. QED  BY <2>3 DEF Has
<1>8. QED
    BY <1>6, <1>7

\* The existing objects of a kind are finitely many, and so is what is made of each.
LEMMA FiniteEdges ==
    ASSUME NEW S, S \subseteq Objects, NEW f, DOMAIN f = S
    PROVE  IsFiniteSet({f[o] : o \in S})
<1>1. IsFiniteSet(S)
    BY SyncAssumption, FS_Subset
<1>2. [o \in S |-> f[o]] \in Surjection(S, {f[o] : o \in S})
    BY DEF Surjection
<1>3. QED
    BY <1>1, <1>2, FS_Surjection

LEMMA ListedFinite ==
    ASSUME NEW st, IsList(st), NEW edges \in Listed(st)
    PROVE  IsFiniteSet(edges)
<1> DEFINE a == st.arg
           T == {t \in Existing("Service") : Selects(t, cluster[t].selector, a.for, a.labels)}
           P == {q \in Existing("Pod") : a.ns \in {"", q.ns} /\ a.labels \subseteq cluster[q].labels}
           L == {s \in Existing("Service") : a.labels \subseteq cluster[s].labels}
<1>1. T \subseteq Objects /\ P \subseteq Objects /\ L \subseteq Objects
    BY ServiceAndPod DEF Existing
<1>2. CASE st.op = "ListServices"
    <2> DEFINE f == [s \in T |-> SelectsEdge(s, a.for)]
    <2>1. edges = {SelectsEdge(s, a.for) : s \in T}
        BY <1>2 DEF Listed
    <2> HIDE DEF T
    <2>2. edges = {f[s] : s \in T} /\ DOMAIN f = T
        BY <2>1
    <2> HIDE DEF f
    <2>3. QED  BY <1>1, <2>2, FiniteEdges
<1>3. CASE st.op = "ListPods"
    <2> DEFINE f == [p \in P |-> <<NodeFor(a.for), a.type, NodeFor(p)>>]
    <2>1. edges = {<<NodeFor(a.for), a.type, NodeFor(p)>> : p \in P}
        BY <1>3 DEF Listed
    <2> HIDE DEF P
    <2>2. edges = {f[p] : p \in P} /\ DOMAIN f = P
        BY <2>1
    <2> HIDE DEF f
    <2>3. QED  BY <1>1, <2>2, FiniteEdges
<1>4. CASE st.op = "FindService"
    <2>1. edges = {} \/ \E s \in L : edges = {<<NodeFor(a.for), a.type, NodeFor(s)>>}
        BY <1>4 DEF Listed
    <2>2. QED  BY <2>1, FS_EmptySet, FS_Singleton
<1>5. QED
    BY <1>2, <1>3, <1>4 DEF IsList

\* The statements that follow one: the edges of a set that the list may give, or none.
LEMMA FollowersAre ==
    ASSUME NEW st, NEW q \in Followers(st)
    PROVE  /\ EdgesOnly(q)
           /\ ~IsList(st) => q = <<>>
           /\ IsList(st) => \E edges \in Listed(st) : \A e \in edges : Has(q, "UpsertEdge", e)
<1>1. CASE ~IsList(st)
    <2>1. q = <<>>
        BY <1>1 DEF Followers
    <2>2. EdgesOnly(q)
        BY <2>1, EmptyIsSeq DEF EdgesOnly
    <2>3. QED  BY <1>1, <2>1, <2>2
<1>2. CASE IsList(st)
    <2> DEFINE Merges(edges) == SetToSeq({Statement("UpsertEdge", e) : e \in edges})
    <2>1. PICK edges \in Listed(st) :
              q = IF st.arg.type = "SELECTS_PODS" THEN Chain(Merges(edges)) ELSE Merges(edges)
        BY <1>2 DEF Followers
    <2> DEFINE m == Merges(edges)
    <2>2. EdgesOnly(m) /\ \A e \in edges : Has(m, "UpsertEdge", e)
        BY <1>2, ListedFinite, EdgeStatements
    <2> HIDE DEF m
    <2>3. q = Chain(m) \/ q = m
        BY <2>1 DEF m
    <2>4. EdgesOnly(q) /\ \A e \in edges : Has(q, "UpsertEdge", e)
        BY <2>2, <2>3, ChainKeeps
    <2>5. QED  BY <1>2, <2>4
<1>3. QED
    BY <1>1, <1>2

\* Each side's list of the other finds every Pod and Service that go together.
LEMMA ListServicesFinds ==
    ASSUME NEW p \in Existing("Pod"), NEW s \in Existing("Service"),
           Selects(s, cluster[s].selector, p, cluster[p].labels),
           NEW st, st.op = "ListServices", st.arg = ServicesArg(p, cluster[p].labels),
           NEW q \in Followers(st)
    PROVE  Has(q, "UpsertEdge", SelectsEdge(s, p))
<1>1. PICK edges \in Listed(st) : \A e \in edges : Has(q, "UpsertEdge", e)
    BY FollowersAre DEF IsList
<1>2. st.arg.for = p /\ st.arg.labels = cluster[p].labels
    BY DEF ServicesArg
<1>3. edges = {SelectsEdge(t, st.arg.for) : t \in
                  {u \in Existing("Service") :
                       Selects(u, cluster[u].selector, st.arg.for, st.arg.labels)}}
    BY DEF Listed
<1>4. SelectsEdge(s, p) \in edges
    BY <1>2, <1>3
<1>5. QED
    BY <1>1, <1>4

LEMMA ListPodsFinds ==
    ASSUME NEW p \in Existing("Pod"), NEW s \in Existing("Service"),
           Selects(s, cluster[s].selector, p, cluster[p].labels),
           NEW st, st.op = "ListPods", st.arg = PodsArg(s, cluster[s].selector),
           NEW q \in Followers(st)
    PROVE  Has(q, "UpsertEdge", SelectsEdge(s, p))
<1>1. PICK edges \in Listed(st) : \A e \in edges : Has(q, "UpsertEdge", e)
    BY FollowersAre DEF IsList
<1>2. /\ st.arg.for = s /\ st.arg.labels = cluster[s].selector
      /\ st.arg.ns = s.ns /\ st.arg.type = "SELECTS_PODS"
    BY DEF PodsArg
<1>3. edges = {<<NodeFor(st.arg.for), st.arg.type, NodeFor(t)>> : t \in
                  {u \in Existing("Pod") :
                       st.arg.ns \in {"", u.ns} /\ st.arg.labels \subseteq cluster[u].labels}}
    BY DEF Listed
<1>4. s.ns = p.ns /\ cluster[s].selector \subseteq cluster[p].labels
    BY DEF Selects
<1>5. <<NodeFor(s), "SELECTS_PODS", NodeFor(p)>> \in edges
    BY <1>2, <1>3, <1>4
<1>6. QED
    BY <1>1, <1>5 DEF SelectsEdge

(***************************************************************************)
(* What the store's statements do to the graph.                            *)
(***************************************************************************)

IsGraph(g) ==
    /\ g = [real |-> g.real, placeholder |-> g.placeholder, edges |-> g.edges]
    /\ g.real \intersect g.placeholder = {}
    /\ \A e \in g.edges : {From(e), To(e)} \subseteq g.real \union g.placeholder

\* The statements that take edges or placeholders, as records.
LEMMA StoreForms ==
    ASSUME NEW g, IsGraph(g), NEW n, NEW types
    PROVE  /\ DeleteEdgesByNode(g, n) =
                  [real |-> g.real, placeholder |-> g.placeholder,
                   edges |-> g.edges \ EdgesAt(g, n)]
           /\ DeleteEdgesByTypeAndNode(g, n, types) =
                  [real |-> g.real, placeholder |-> g.placeholder,
                   edges |-> g.edges \ {d \in EdgesAt(g, n) : Label(d) \in types}]
           /\ CleanupOrphanedPlaceholders(g) =
                  [real |-> g.real, placeholder |-> g.placeholder \ Orphans(g),
                   edges |-> g.edges]
<1>1. g = [real |-> g.real, placeholder |-> g.placeholder, edges |-> g.edges]
    BY DEF IsGraph
<1>2. DeleteEdgesByNode(g, n) =
          [real |-> g.real, placeholder |-> g.placeholder, edges |-> g.edges \ EdgesAt(g, n)]
    BY <1>1 DEF DeleteEdgesByNode
<1>3. DeleteEdgesByTypeAndNode(g, n, types) =
          [real |-> g.real, placeholder |-> g.placeholder,
           edges |-> g.edges \ {d \in EdgesAt(g, n) : Label(d) \in types}]
    BY <1>1 DEF DeleteEdgesByTypeAndNode
<1>4. CleanupOrphanedPlaceholders(g) =
          [real |-> g.real, placeholder |-> g.placeholder \ Orphans(g), edges |-> g.edges]
    BY <1>1 DEF CleanupOrphanedPlaceholders
<1>5. QED
    BY <1>2, <1>3, <1>4

\* No statement leaves an edge without its ends, or a real node marked a placeholder;
\* and what it may have added to the real nodes and taken from them and the edges.
LEMMA RunDoes ==
    ASSUME NEW g, IsGraph(g), NEW st
    PROVE  /\ IsGraph(Run(g, st))
           /\ \A n \in Run(g, st).real : n \in g.real \/ (st.op = "UpsertNode" /\ n = st.arg)
           /\ \A n \in g.real \ Run(g, st).real : st.op = "DeleteNode" /\ n = st.arg
           /\ st.op = "UpsertNode" => st.arg \in Run(g, st).real
           /\ st.op = "DeleteNode" => st.arg \notin Run(g, st).real
           /\ st.op = "UpsertEdge" => st.arg \in Run(g, st).edges
           /\ \A e \in g.edges \ Run(g, st).edges :
                  \/ /\ st.op \in {"DeleteNode", "DeleteEdgesByNode"}
                     /\ st.arg \in {From(e), To(e)}
                  \/ /\ st.op = "DeleteEdgesByTypeAndNode"
                     /\ st.arg[1] \in {From(e), To(e)}
<1> DEFINE a == st.arg
<1> SUFFICES ASSUME NEW r, r = Run(g, st)
             PROVE  /\ IsGraph(r)
                    /\ \A n \in r.real : n \in g.real \/ (st.op = "UpsertNode" /\ n = st.arg)
                    /\ \A n \in g.real \ r.real : st.op = "DeleteNode" /\ n = st.arg
                    /\ st.op = "UpsertNode" => st.arg \in r.real
                    /\ st.op = "DeleteNode" => st.arg \notin r.real
                    /\ st.op = "UpsertEdge" => st.arg \in r.edges
                    /\ \A e \in g.edges \ r.edges :
                           \/ /\ st.op \in {"DeleteNode", "DeleteEdgesByNode"}
                              /\ st.arg \in {From(e), To(e)}
                           \/ /\ st.op = "DeleteEdgesByTypeAndNode"
                              /\ st.arg[1] \in {From(e), To(e)}
    OBVIOUS
<1>1. CASE st.op = "UpsertNode"
    <2>1. r = [real |-> g.real \union {a}, placeholder |-> g.placeholder \ {a}, edges |-> g.edges]
        BY <1>1 DEF Run, UpsertNode
    <2>2. /\ r.real = g.real \union {a} /\ r.placeholder = g.placeholder \ {a}
          /\ r.edges = g.edges
        BY <2>1
    <2>3. r = [real |-> r.real, placeholder |-> r.placeholder, edges |-> r.edges]
        BY <2>1
    <2>4. IsGraph(r)
        BY <2>2, <2>3 DEF IsGraph
    <2>5. QED  BY <1>1, <2>2, <2>4
<1>2. CASE st.op = "UpsertEdge"
    <2>1. r = [real |-> g.real, placeholder |-> g.placeholder \union ({From(a), To(a)} \ g.real),
               edges |-> g.edges \union {a}]
        BY <1>2 DEF Run, UpsertEdge
    <2>2. /\ r.real = g.real
          /\ r.placeholder = g.placeholder \union ({From(a), To(a)} \ g.real)
          /\ r.edges = g.edges \union {a}
        BY <2>1
    <2>3. r = [real |-> r.real, placeholder |-> r.placeholder, edges |-> r.edges]
        BY <2>1
    <2>4. IsGraph(r)
        BY <2>2, <2>3 DEF IsGraph
    <2>5. QED  BY <1>2, <2>2, <2>4
<1>3. CASE st.op = "DeleteNode"
    <2>1. r = [real |-> g.real \ {a}, placeholder |-> g.placeholder \ {a},
               edges |-> g.edges \ EdgesAt(g, a)]
        BY <1>3 DEF Run, DeleteNode
    <2>2. /\ r.real = g.real \ {a} /\ r.placeholder = g.placeholder \ {a}
          /\ r.edges = g.edges \ {e \in g.edges : a \in {From(e), To(e)}}
        BY <2>1 DEF EdgesAt
    <2>3. r = [real |-> r.real, placeholder |-> r.placeholder, edges |-> r.edges]
        BY <2>1
    <2>4. IsGraph(r)
        BY <2>2, <2>3 DEF IsGraph
    <2>5. QED  BY <1>3, <2>2, <2>4
<1>4. CASE st.op = "DeleteEdgesByNode"
    <2>1. r = [real |-> g.real, placeholder |-> g.placeholder, edges |-> g.edges \ EdgesAt(g, a)]
        BY <1>4, StoreForms DEF Run
    <2>2. /\ r.real = g.real /\ r.placeholder = g.placeholder
          /\ r.edges = g.edges \ {e \in g.edges : a \in {From(e), To(e)}}
        BY <2>1 DEF EdgesAt
    <2>3. r = [real |-> r.real, placeholder |-> r.placeholder, edges |-> r.edges]
        BY <2>1
    <2>4. IsGraph(r)
        BY <2>2, <2>3 DEF IsGraph
    <2>5. QED  BY <1>4, <2>2, <2>4
<1>5. CASE st.op = "DeleteEdgesByTypeAndNode"
    <2>1. r = [real |-> g.real, placeholder |-> g.placeholder,
               edges |-> g.edges \ {d \in EdgesAt(g, a[1]) : Label(d) \in a[2]}]
        BY <1>5, StoreForms DEF Run
    <2>2. /\ r.real = g.real /\ r.placeholder = g.placeholder
          /\ \A e \in r.edges : e \in g.edges
          /\ \A e \in g.edges : e \in r.edges \/ a[1] \in {From(e), To(e)}
        BY <2>1 DEF EdgesAt
    <2>3. r = [real |-> r.real, placeholder |-> r.placeholder, edges |-> r.edges]
        BY <2>1
    <2>4. IsGraph(r)
        BY <2>2, <2>3 DEF IsGraph
    <2>5. QED  BY <1>5, <2>2, <2>4
<1>6. CASE st.op \notin {"UpsertNode", "UpsertEdge", "DeleteNode", "DeleteEdgesByNode",
                         "DeleteEdgesByTypeAndNode"}
    BY <1>6 DEF Run
<1>7. QED
    BY <1>1, <1>2, <1>3, <1>4, <1>5, <1>6

LEMMA CleanupDoes ==
    ASSUME NEW g, IsGraph(g)
    PROVE  /\ IsGraph(CleanupOrphanedPlaceholders(g))
           /\ CleanupOrphanedPlaceholders(g).real = g.real
           /\ CleanupOrphanedPlaceholders(g).edges = g.edges
<1> DEFINE r == CleanupOrphanedPlaceholders(g)
<1>1. r = [real |-> g.real, placeholder |-> g.placeholder \ Orphans(g), edges |-> g.edges]
    BY StoreForms
<1>2. /\ r.real = g.real /\ r.placeholder = g.placeholder \ Orphans(g) /\ r.edges = g.edges
      /\ r = [real |-> r.real, placeholder |-> r.placeholder, edges |-> r.edges]
    BY <1>1
<1> HIDE DEF r
<1>3. \A e \in g.edges : From(e) \notin Orphans(g) /\ To(e) \notin Orphans(g)
    BY DEF Orphans, EdgesAt
<1>4. IsGraph(r)
    BY <1>2, <1>3 DEF IsGraph
<1>5. QED
    BY <1>2, <1>4 DEF r

(***************************************************************************)
(* What each action does, said without EXCEPT.                             *)
(***************************************************************************)

\* One entry of a function replaced.
LEMMA ExceptAt ==
    ASSUME NEW D, NEW f, f = [x \in D |-> f[x]], NEW k \in D, NEW v,
           NEW g, g = [f EXCEPT ![k] = v]
    PROVE  g = [x \in D |-> g[x]] /\ g[k] = v /\ \A j \in D : j # k => g[j] = f[j]
<1>1. g = [x \in D |-> IF x = k THEN v ELSE f[x]]
    OBVIOUS
<1>2. QED
    BY <1>1

\* The queues hold notifications of their kind.
QueuesOfKind ==
    \A k \in Kinds : \A i \in 1..Len(pending[k]) : IsNotification(pending[k][i], k)

Base ==
    /\ Shapes /\ IsGraph(graph)
    /\ \A o \in Objects : cluster[o] \in Specs[o] \union {Absent}
    /\ up \in BOOLEAN /\ lossy \in BOOLEAN /\ missed \subseteq Objects
    /\ changes \in 0..MaxChanges /\ errors \in 0..MaxErrors /\ crashes \in 0..MaxCrashes
    /\ DownIsIdle /\ QueuesOfKind /\ QueuesEndCurrent /\ TasksOfKind
    /\ LateWritesAreUndone /\ LateDeletesAreUndone

\* A step of the cluster changes one object and, while the watcher runs, tells its
\* kind's listener what the object now is.
Tells(o, n) ==
    /\ IsNotification(n, o.kind) /\ n.obj = o
    /\ IF cluster'[o] # Absent THEN n.type # "delete" /\ n.spec = cluster'[o]
       ELSE n.type = "delete"

LEMMA ClusterDoes ==
    ASSUME Base, ClusterStep
    PROVE  /\ UNCHANGED <<up, task, graph, lossy, errors, crashes>>
           /\ changes' \in 0..MaxChanges
           /\ \E o \in Objects :
                  /\ cluster' = [p \in Objects |-> cluster'[p]]
                  /\ cluster'[o] \in Specs[o] \union {Absent}
                  /\ \A p \in Objects : p # o => cluster'[p] = cluster[p]
                  /\ ~up => pending' = pending
                  /\ up => \E n : /\ Tells(o, n)
                                  /\ pending' = [k \in Kinds |-> pending'[k]]
                                  /\ pending'[o.kind] = Append(pending[o.kind], n)
                                  /\ \A k \in Kinds : k # o.kind => pending'[k] = pending[k]
                  /\ \A p \in missed' : p \in missed \/ p = o
                  /\ \A p \in missed : p \in missed' \/ (p = o /\ cluster'[o] # Absent)
                  /\ cluster'[o] = Absent /\ ~up => o \in missed'
<1>1. PICK o \in Objects : Delete(o) \/ \E s \in Specs[o] : Create(o, s) \/ Change(o, s)
    BY DEF ClusterStep
<1>2. /\ cluster = [p \in Objects |-> cluster[p]] /\ pending = [k \in Kinds |-> pending[k]]
      /\ o.kind \in Kinds /\ Absent \notin Specs[o] /\ changes \in 0..MaxChanges
      /\ MaxChanges \in Nat /\ up \in BOOLEAN /\ cluster[o] \in Specs[o] \union {Absent}
    BY ObjectFacts, SyncAssumption DEF Base, Shapes
<1>3. ASSUME NEW type \in {"add", "update", "delete"}, NEW s \in Specs[o], NEW v,
             cluster' = [cluster EXCEPT ![o] = v], Notify(type, o, s),
             IF type = "delete" THEN v = Absent ELSE v = s
      PROVE  /\ cluster' = [p \in Objects |-> cluster'[p]]
             /\ cluster'[o] = v /\ v \in Specs[o] \union {Absent}
             /\ \A p \in Objects : p # o => cluster'[p] = cluster[p]
             /\ ~up => pending' = pending
             /\ up => \E n : /\ Tells(o, n)
                             /\ pending' = [k \in Kinds |-> pending'[k]]
                             /\ pending'[o.kind] = Append(pending[o.kind], n)
                             /\ \A k \in Kinds : k # o.kind => pending'[k] = pending[k]
    <2>1. cluster' = [p \in Objects |-> cluster'[p]] /\ cluster'[o] = v
          /\ \A p \in Objects : p # o => cluster'[p] = cluster[p]
        BY <1>2, <1>3, ExceptAt
    <2>2. v \in Specs[o] \union {Absent}
        BY <1>3
    <2>3. ~up => pending' = pending
        BY <1>3 DEF Notify
    <2>4. ASSUME up
          PROVE  \E n : /\ Tells(o, n)
                        /\ pending' = [k \in Kinds |-> pending'[k]]
                        /\ pending'[o.kind] = Append(pending[o.kind], n)
                        /\ \A k \in Kinds : k # o.kind => pending'[k] = pending[k]
        <3> DEFINE n == Notification(type, o, s)
                   q == Append(pending[o.kind], n)
        <3>1. pending' = [pending EXCEPT ![o.kind] = q]
            BY <1>3, <2>4 DEF Notify
        <3>2. n.type = type /\ n.obj = o /\ n.spec = s
            BY DEF Notification
        <3> HIDE DEF n
        <3>3. Tells(o, n)
            BY <1>2, <1>3, <2>1, <3>2 DEF Tells, IsNotification
        <3> HIDE DEF q
        <3>4. /\ pending' = [k \in Kinds |-> pending'[k]] /\ pending'[o.kind] = q
              /\ \A k \in Kinds : k # o.kind => pending'[k] = pending[k]
            BY <1>2, <3>1, ExceptAt
        <3>5. QED  BY <3>3, <3>4 DEF q
    <2>5. QED  BY <2>1, <2>2, <2>3, <2>4
<1>4. CASE Delete(o)
    <2>1. /\ cluster' = [cluster EXCEPT ![o] = Absent] /\ Notify("delete", o, cluster[o])
          /\ cluster[o] \in Specs[o] /\ CountChange /\ changes < MaxChanges
          /\ missed' = IF up THEN missed ELSE missed \union {o}
        BY <1>2, <1>4 DEF Delete, Exists
    <2>2. UNCHANGED <<up, task, graph, lossy, errors, crashes>> /\ changes' \in 0..MaxChanges
        BY <1>2, <2>1 DEF CountChange
    <2>3. /\ \A p \in missed' : p \in missed \/ p = o
          /\ \A p \in missed : p \in missed'
          /\ ~up => o \in missed'
        BY <2>1
    <2>4. QED  BY <1>3, <2>1, <2>2, <2>3
<1>5. ASSUME NEW s \in Specs[o], Create(o, s) \/ Change(o, s)
      PROVE  /\ cluster' = [cluster EXCEPT ![o] = s]
             /\ Notify("add", o, s) \/ Notify("update", o, s)
             /\ UNCHANGED <<up, task, graph, lossy, errors, crashes>>
             /\ changes' \in 0..MaxChanges
             /\ missed' = missed \/ missed' = missed \ {o}
    BY <1>2, <1>5 DEF Create, Change, CountChange
<1>6. ASSUME NEW s \in Specs[o], Create(o, s) \/ Change(o, s)
      PROVE  /\ \A p \in missed' : p \in missed
             /\ \A p \in missed : p \in missed' \/ p = o
             /\ s # Absent
    BY <1>2, <1>5, <1>6
<1>7. CASE \E s \in Specs[o] : Create(o, s) \/ Change(o, s)
    <2>1. PICK s \in Specs[o] : Create(o, s) \/ Change(o, s)
        BY <1>7
    <2>2. /\ cluster' = [p \in Objects |-> cluster'[p]]
          /\ cluster'[o] = s /\ s \in Specs[o] \union {Absent}
          /\ \A p \in Objects : p # o => cluster'[p] = cluster[p]
          /\ ~up => pending' = pending
          /\ up => \E n : /\ Tells(o, n)
                          /\ pending' = [k \in Kinds |-> pending'[k]]
                          /\ pending'[o.kind] = Append(pending[o.kind], n)
                          /\ \A k \in Kinds : k # o.kind => pending'[k] = pending[k]
        BY <1>3, <1>5, <2>1
    <2>3. QED  BY <1>5, <1>6, <2>1, <2>2
<1>8. QED
    BY <1>1, <1>4, <1>7

LEMMA TakeDoes ==
    ASSUME Base, NEW k \in Kinds, Take(k)
    PROVE  /\ UNCHANGED <<cluster, up, graph, lossy, missed, changes, errors, crashes>>
           /\ up /\ task[k] = <<>> /\ Len(pending[k]) \in Nat /\ 1 \in 1..Len(pending[k])
           /\ task' = [j \in Kinds |-> task'[j]] /\ pending' = [j \in Kinds |-> pending'[j]]
           /\ \A j \in Kinds : j # k => task'[j] = task[j] /\ pending'[j] = pending[j]
           /\ task'[k] = Handler(pending[k][1].type, pending[k][1].obj, pending[k][1].spec)
           /\ IsSeq(pending'[k]) /\ Len(pending'[k]) = Len(pending[k]) - 1
           /\ \A i \in 1..Len(pending[k]) - 1 : pending'[k][i] = pending[k][i + 1]
<1>1. /\ task = [j \in Kinds |-> task[j]] /\ pending = [j \in Kinds |-> pending[j]]
      /\ IsSeq(pending[k]) /\ pending[k] # <<>> /\ task[k] = <<>>
      /\ up \in BOOLEAN /\ (~up => pending[k] = <<>>)
    BY DEF Base, Shapes, DownIsIdle, Take
<1> DEFINE n == Head(pending[k])
           h == Handler(n.type, n.obj, n.spec)
<1>2. task' = [task EXCEPT ![k] = h] /\ pending' = [pending EXCEPT ![k] = Tail(pending[k])]
      /\ UNCHANGED <<cluster, up, graph, lossy, missed, changes, errors, crashes>>
    BY <1>1 DEF Take
<1>3. /\ Len(pending[k]) \in Nat /\ Len(pending[k]) >= 1 /\ n = pending[k][1]
      /\ IsSeq(Tail(pending[k])) /\ Len(Tail(pending[k])) = Len(pending[k]) - 1
      /\ \A i \in 1..Len(pending[k]) - 1 : Tail(pending[k])[i] = pending[k][i + 1]
    BY <1>1, TailIsSeq
<1>4. h = Handler(pending[k][1].type, pending[k][1].obj, pending[k][1].spec)
    BY <1>3
<1> HIDE DEF n, h
<1>5. /\ task' = [j \in Kinds |-> task'[j]] /\ task'[k] = h
      /\ \A j \in Kinds : j # k => task'[j] = task[j]
    BY <1>1, <1>2, ExceptAt
<1>6. /\ pending' = [j \in Kinds |-> pending'[j]] /\ pending'[k] = Tail(pending[k])
      /\ \A j \in Kinds : j # k => pending'[j] = pending[j]
    BY <1>1, <1>2, ExceptAt
<1>7. 1 \in 1..Len(pending[k])
    BY <1>3
<1>8. /\ IsSeq(pending'[k]) /\ Len(pending'[k]) = Len(pending[k]) - 1
      /\ \A i \in 1..Len(pending[k]) - 1 : pending'[k][i] = pending[k][i + 1]
    <2>1. pending'[k] = Tail(pending[k])
        BY <1>6
    <2>2. QED  BY <1>3, <2>1
<1>9. task'[k] = Handler(pending[k][1].type, pending[k][1].obj, pending[k][1].spec)
    <2>1. task'[k] = h
        BY <1>5
    <2>2. QED  BY <1>4, <2>1
<1>10. \A j \in Kinds : j # k => task'[j] = task[j] /\ pending'[j] = pending[j]
    BY <1>5, <1>6
<1>11. up /\ task[k] = <<>> /\ Len(pending[k]) \in Nat
    BY <1>1, <1>3
<1>12. task' = [j \in Kinds |-> task'[j]] /\ pending' = [j \in Kinds |-> pending'[j]]
    BY <1>5, <1>6
<1>13. QED
    BY <1>2, <1>7, <1>8, <1>9, <1>10, <1>11, <1>12, Zenon

\* A statement is run; what follows it goes before the rest.
LEMMA ExecuteDoes ==
    ASSUME Base, NEW k \in Kinds, Execute(k)
    PROVE  /\ UNCHANGED <<cluster, up, pending, lossy, missed, changes, errors, crashes>>
           /\ up /\ Len(task[k]) \in Nat /\ 1 \in 1..Len(task[k])
           /\ graph' = Run(graph, task[k][1])
           /\ task' = [j \in Kinds |-> task'[j]]
           /\ \A j \in Kinds : j # k => task'[j] = task[j]
           /\ \E q \in Followers(task[k][1]) :
                  /\ EdgesOnly(q) /\ IsSeq(q) /\ Len(q) \in Nat
                  /\ IsSeq(task'[k]) /\ Len(task'[k]) = Len(q) + (Len(task[k]) - 1)
                  /\ \A i \in 1..Len(q) : task'[k][i] = q[i]
                  /\ \A i \in 2..Len(task[k]) : task'[k][Len(q) + (i - 1)] = task[k][i]
                  /\ \A i \in 1..Len(task'[k]) :
                         \/ i \in 1..Len(q) /\ task'[k][i] = q[i]
                         \/ /\ i - Len(q) + 1 \in 2..Len(task[k])
                            /\ task'[k][i] = task[k][i - Len(q) + 1]
<1>1. /\ task = [j \in Kinds |-> task[j]] /\ IsSeq(task[k]) /\ task[k] # <<>>
      /\ up \in BOOLEAN /\ (~up => task[k] = <<>>)
    BY DEF Base, Shapes, DownIsIdle, Execute
<1> DEFINE t == Tail(task[k])
<1>2. /\ Len(task[k]) \in Nat /\ Len(task[k]) >= 1 /\ Head(task[k]) = task[k][1]
      /\ IsSeq(t) /\ Len(t) = Len(task[k]) - 1
      /\ \A i \in 1..Len(task[k]) - 1 : t[i] = task[k][i + 1]
    BY <1>1, TailIsSeq
<1>3. PICK q \in Followers(task[k][1]) : task' = [task EXCEPT ![k] = q \o t]
    BY <1>2 DEF Execute
<1>4. graph' = Run(graph, task[k][1])
      /\ UNCHANGED <<cluster, up, pending, lossy, missed, changes, errors, crashes>>
    BY <1>2 DEF Execute
<1>5. EdgesOnly(q) /\ IsSeq(q) /\ Len(q) \in Nat
    BY FollowersAre DEF EdgesOnly, IsSeq
<1> HIDE DEF t
<1> DEFINE r == q \o t
<1>6. /\ IsSeq(r) /\ Len(r) = Len(q) + Len(t)
      /\ \A i \in 1..Len(q) : r[i] = q[i]
      /\ \A i \in 1..Len(t) : r[Len(q) + i] = t[i]
      /\ \A i \in 1..Len(r) : \/ i \in 1..Len(q) /\ r[i] = q[i]
                              \/ i - Len(q) \in 1..Len(t) /\ r[i] = t[i - Len(q)]
    <2>1. IsSeq(q) /\ IsSeq(t)
        BY <1>2, <1>5
    <2>2. QED  BY <2>1, ConcatIsSeq
<1> HIDE DEF r
<1>7. /\ task' = [j \in Kinds |-> task'[j]] /\ task'[k] = r
      /\ \A j \in Kinds : j # k => task'[j] = task[j]
    BY <1>1, <1>3, ExceptAt DEF r
<1>8. ASSUME NEW i \in 2..Len(task[k]) PROVE r[Len(q) + (i - 1)] = task[k][i]
    <2>1. i - 1 \in 1..Len(t) /\ i - 1 \in 1..Len(task[k]) - 1 /\ (i - 1) + 1 = i
        BY <1>2
    <2>2. t[i - 1] = task[k][i]
        BY <1>2, <2>1
    <2>3. QED  BY <1>6, <2>1, <2>2
<1>9. ASSUME NEW i \in 1..Len(r)
      PROVE  \/ i \in 1..Len(q) /\ r[i] = q[i]
             \/ i - Len(q) + 1 \in 2..Len(task[k]) /\ r[i] = task[k][i - Len(q) + 1]
    <2>1. CASE i \in 1..Len(q) /\ r[i] = q[i]
        BY <2>1
    <2>2. CASE i - Len(q) \in 1..Len(t) /\ r[i] = t[i - Len(q)]
        <3>1. i - Len(q) + 1 \in 2..Len(task[k]) /\ i - Len(q) \in 1..Len(task[k]) - 1
            BY <1>2, <1>5, <2>2
        <3>2. t[i - Len(q)] = task[k][i - Len(q) + 1]
            BY <1>2, <3>1
        <3>3. QED  BY <2>2, <3>1, <3>2
    <2>3. QED  BY <1>6, <2>1, <2>2
<1>10. 1 \in 1..Len(task[k])
    BY <1>2
<1>11. /\ IsSeq(task'[k]) /\ Len(task'[k]) = Len(q) + (Len(task[k]) - 1)
       /\ \A i \in 1..Len(q) : task'[k][i] = q[i]
       /\ \A i \in 2..Len(task[k]) : task'[k][Len(q) + (i - 1)] = task[k][i]
       /\ \A i \in 1..Len(task'[k]) :
              \/ i \in 1..Len(q) /\ task'[k][i] = q[i]
              \/ i - Len(q) + 1 \in 2..Len(task[k]) /\ task'[k][i] = task[k][i - Len(q) + 1]
    <2>1. task'[k] = r
        BY <1>7
    <2>2. Len(r) = Len(q) + (Len(task[k]) - 1)
        BY <1>2, <1>6
    <2>3. QED  BY <1>6, <1>8, <1>9, <2>1, <2>2
<1>12. task' = [j \in Kinds |-> task'[j]] /\ \A j \in Kinds : j # k => task'[j] = task[j]
    BY <1>7
<1>13. up /\ Len(task[k]) \in Nat
    BY <1>1, <1>2
<1>14. QED
    BY <1>4, <1>5, <1>10, <1>11, <1>12, <1>13, Zenon

\* A statement fails for good: it and what it leads past are left out.
LEMMA GiveUpDoes ==
    ASSUME Base, NEW k \in Kinds, GiveUp(k)
    PROVE  /\ UNCHANGED <<cluster, up, pending, changes, crashes>>
           /\ up /\ lossy' = TRUE /\ errors' \in 0..MaxErrors
           /\ Len(task[k]) \in Nat /\ 1 \in 1..Len(task[k])
           /\ graph' \in {graph, Run(graph, task[k][1])}
           /\ task' = [j \in Kinds |-> task'[j]]
           /\ \A j \in Kinds : j # k => task'[j] = task[j]
           /\ task[k][1].skip \in Nat /\ 1 + task[k][1].skip <= Len(task[k])
           /\ IsSeq(task'[k]) /\ Len(task'[k]) = Len(task[k]) - (1 + task[k][1].skip)
           /\ \A i \in 1..Len(task[k]) - (1 + task[k][1].skip) :
                  task'[k][i] = task[k][1 + task[k][1].skip + i]
           /\ missed \subseteq missed' /\ missed' \subseteq Objects
           /\ task[k][1].op = "DeleteNode" =>
                  \A o \in Objects : ~Exists(o) /\ task[k][1].arg \in NodesOf(o) => o \in missed'
<1>1. /\ task = [j \in Kinds |-> task[j]] /\ IsSeq(task[k]) /\ task[k] # <<>>
      /\ up \in BOOLEAN /\ (~up => task[k] = <<>>) /\ errors \in 0..MaxErrors /\ MaxErrors \in Nat
      /\ missed \subseteq Objects /\ errors < MaxErrors
      /\ ErasesOnly(k, task[k]) \/ WritesOnly(k, task[k])
    BY SyncAssumption DEF Base, Shapes, DownIsIdle, GiveUp, TasksOfKind
<1>2. /\ Len(task[k]) \in Nat /\ Len(task[k]) >= 1 /\ Head(task[k]) = task[k][1]
    BY <1>1, TailIsSeq
<1> DEFINE st == task[k][1]
           m == 1 + st.skip
           r == SubSeq(task[k], m + 1, Len(task[k]))
<1>3. st.skip \in Nat /\ m <= Len(task[k])
    <2>1. 1 \in 1..Len(task[k])
        BY <1>2
    <2>2. CASE ErasesOnly(k, task[k])
        BY <1>2, <2>1, <2>2 DEF ErasesOnly, Erasing
    <2>3. CASE WritesOnly(k, task[k])
        BY <1>2, <2>1, <2>3 DEF WritesOnly, Writing, Writes, IsStatement
    <2>4. QED  BY <1>1, <2>2, <2>3
<1>4. /\ task' = [task EXCEPT ![k] = SubSeq(task[k], 2 + st.skip, Len(task[k]))]
      /\ graph' \in {graph, Run(graph, st)} /\ lossy' = TRUE
      /\ UNCHANGED <<cluster, up, pending, changes, crashes>> /\ errors' = errors + 1
      /\ missed' = IF st.op # "DeleteNode" THEN missed
                   ELSE missed \union {o \in Objects : ~Exists(o) /\ st.arg \in NodesOf(o)}
    BY <1>1, <1>2 DEF GiveUp, CountError
<1>5. 2 + st.skip = m + 1 /\ m \in Nat
    BY <1>3
<1>6. task' = [task EXCEPT ![k] = r]
    BY <1>4, <1>5
<1>7. /\ IsSeq(r) /\ Len(r) = Len(task[k]) - m
      /\ \A i \in 1..Len(task[k]) - m : r[i] = task[k][m + i]
    BY <1>1, <1>3, <1>5, SuffixIsSeq
<1> HIDE DEF r
<1>8. /\ task' = [j \in Kinds |-> task'[j]] /\ task'[k] = r
      /\ \A j \in Kinds : j # k => task'[j] = task[j]
    BY <1>1, <1>6, ExceptAt
<1>9. errors' \in 0..MaxErrors /\ 1 \in 1..Len(task[k])
    <2>1. errors' = errors + 1 /\ errors \in 0..MaxErrors /\ MaxErrors \in Nat /\ errors < MaxErrors
        BY <1>1, <1>4
    <2>2. QED  BY <1>2, <2>1
<1>10. /\ missed \subseteq missed' /\ missed' \subseteq Objects
       /\ st.op = "DeleteNode" =>
              \A o \in Objects : ~Exists(o) /\ st.arg \in NodesOf(o) => o \in missed'
    BY <1>1, <1>4
<1>11. /\ IsSeq(task'[k]) /\ Len(task'[k]) = Len(task[k]) - (1 + st.skip)
       /\ \A i \in 1..Len(task[k]) - (1 + st.skip) : task'[k][i] = task[k][1 + st.skip + i]
    <2>1. task'[k] = r
        BY <1>8
    <2>2. QED  BY <1>7, <2>1
<1>12. task' = [j \in Kinds |-> task'[j]] /\ \A j \in Kinds : j # k => task'[j] = task[j]
    BY <1>8
<1>13. up /\ Len(task[k]) \in Nat
    BY <1>1, <1>2
<1>14. QED
    BY <1>3, <1>4, <1>9, <1>10, <1>11, <1>12, <1>13

(***************************************************************************)
(* Queues: who is told what.                                               *)
(***************************************************************************)

\* A queue that tells what each existing object of a kind is, and nothing else.
Lists(k, q) ==
    /\ IsSeq(q)
    /\ \A i \in 1..Len(q) : IsNotification(q[i], k) /\ Current(q[i].obj, q[i])
    /\ \A o \in Existing(k) : \E i \in 1..Len(q) : Current(o, q[i])

LEMMA ForEachTells ==
    ASSUME \A o \in Objects : cluster[o] \in Specs[o] \union {Absent},
           NEW k \in Kinds, NEW type \in {"add", "update"}
    PROVE  Lists(k, ForEach(k, type))
<1> DEFINE q == ForEach(k, type)
<1>1. /\ IsSeq(q)
      /\ \A i \in 1..Len(q) : \E o \in Existing(k) : q[i] = Notification(type, o, cluster[o])
      /\ \A o \in Existing(k) : \E i \in 1..Len(q) : q[i] = Notification(type, o, cluster[o])
    BY ForEachLists
<1> HIDE DEF q
<1>2. ASSUME NEW o \in Existing(k), NEW n, n = Notification(type, o, cluster[o])
      PROVE  n.obj = o /\ IsNotification(n, k) /\ Current(o, n)
    <2>1. n.type = type /\ n.obj = o /\ n.spec = cluster[o]
        BY <1>2 DEF Notification
    <2>2. o \in Objects /\ o.kind = k /\ Exists(o) /\ cluster[o] \in Specs[o]
        BY KindFacts DEF Existing, Exists
    <2>3. QED  BY <2>1, <2>2 DEF IsNotification, Current
<1>3. \A i \in 1..Len(q) : IsNotification(q[i], k) /\ Current(q[i].obj, q[i])
    BY <1>1, <1>2
<1>4. \A o \in Existing(k) : \E i \in 1..Len(q) : Current(o, q[i])
    BY <1>1, <1>2
<1>5. QED
    BY <1>1, <1>3, <1>4 DEF Lists, q

LEMMA ResyncDoes ==
    ASSUME Base, NEW k \in Kinds, Resync(k)
    PROVE  /\ UNCHANGED <<cluster, up, task, graph, lossy, missed, changes, errors, crashes>>
           /\ up /\ pending[k] = <<>>
           /\ pending' = [j \in Kinds |-> pending'[j]]
           /\ \A j \in Kinds : j # k => pending'[j] = pending[j]
           /\ Lists(k, pending'[k])
<1>1. /\ pending = [j \in Kinds |-> pending[j]]
      /\ \A o \in Objects : cluster[o] \in Specs[o] \union {Absent}
    BY DEF Base, Shapes
<1> DEFINE q == ForEach(k, "update")
<1>2. Lists(k, q)
    BY <1>1, ForEachTells
<1>3. /\ pending' = [pending EXCEPT ![k] = q] /\ up /\ pending[k] = <<>>
      /\ UNCHANGED <<cluster, up, task, graph, lossy, missed, changes, errors, crashes>>
    BY DEF Resync
<1> HIDE DEF q
<1>4. /\ pending' = [j \in Kinds |-> pending'[j]] /\ pending'[k] = q
      /\ \A j \in Kinds : j # k => pending'[j] = pending[j]
    BY <1>1, <1>3, ExceptAt
<1>5. Lists(k, pending'[k])
    BY <1>2, <1>4
<1>6. QED
    BY <1>3, <1>4, <1>5, Zenon

LEMMA RestartDoes ==
    ASSUME Base, Restart
    PROVE  /\ UNCHANGED <<cluster, task, graph, missed, changes, errors, crashes>>
           /\ ~up /\ up' = TRUE /\ lossy' = FALSE
           /\ pending' = [j \in Kinds |-> pending'[j]]
           /\ \A k \in Kinds : Lists(k, pending'[k]) /\ pending[k] = <<>> /\ task[k] = <<>>
<1>1. /\ \A o \in Objects : cluster[o] \in Specs[o] \union {Absent}
      /\ ~up => \A k \in Kinds : pending[k] = <<>> /\ task[k] = <<>>
    BY DEF Base, DownIsIdle
<1>2. \A k \in Kinds : Lists(k, ForEach(k, "add"))
    BY <1>1, ForEachTells
<1>3. pending' = [k \in Kinds |-> ForEach(k, "add")] /\ ~up
    BY DEF Restart
<1>4. \A k \in Kinds : Lists(k, pending'[k])
    BY <1>2, <1>3
<1>5. pending' = [j \in Kinds |-> pending'[j]]
    BY <1>3
<1>6. QED
    BY <1>1, <1>3, <1>4, <1>5 DEF Restart

\* After a step of the cluster its object waits, and the others as before.
LEMMA ClusterTells ==
    ASSUME Base, ClusterStep
    PROVE  /\ Shapes' /\ DownIsIdle' /\ QueuesOfKind' /\ QueuesEndCurrent'
           /\ missed' \subseteq Objects
           /\ \A p \in Objects : cluster'[p] \in Specs[p] \union {Absent}
           /\ \E o \in Objects :
                  /\ \A p \in Objects : p # o => cluster'[p] = cluster[p]
                  /\ up => Waits(o)'
                  /\ \A p \in Objects : p # o /\ Waits(p) => Waits(p)'
                  /\ \A p \in missed : p \in missed' \/ (p = o /\ cluster'[o] # Absent)
                  /\ cluster'[o] = Absent /\ ~up => o \in missed'
                  /\ \A p \in Objects : \A i \in 1..Len(pending[p.kind]) :
                         /\ i \in 1..Len(pending'[p.kind])
                         /\ pending'[p.kind][i] = pending[p.kind][i]
<1>1. /\ UNCHANGED <<up, task, graph, lossy, errors, crashes>>
      /\ changes' \in 0..MaxChanges
    BY ClusterDoes
<1>2. PICK o \in Objects :
          /\ cluster' = [p \in Objects |-> cluster'[p]]
          /\ cluster'[o] \in Specs[o] \union {Absent}
          /\ \A p \in Objects : p # o => cluster'[p] = cluster[p]
          /\ ~up => pending' = pending
          /\ up => \E n : /\ Tells(o, n)
                          /\ pending' = [k \in Kinds |-> pending'[k]]
                          /\ pending'[o.kind] = Append(pending[o.kind], n)
                          /\ \A k \in Kinds : k # o.kind => pending'[k] = pending[k]
          /\ \A p \in missed' : p \in missed \/ p = o
          /\ \A p \in missed : p \in missed' \/ (p = o /\ cluster'[o] # Absent)
          /\ cluster'[o] = Absent /\ ~up => o \in missed'
    BY ClusterDoes
<1>3. /\ Shapes /\ DownIsIdle /\ QueuesOfKind /\ QueuesEndCurrent /\ missed \subseteq Objects
      /\ \A p \in Objects : cluster[p] \in Specs[p] \union {Absent}
      /\ o.kind \in Kinds
    BY ObjectFacts DEF Base
<1>4. \A k \in Kinds : IsSeq(pending[k]) /\ IsSeq(task[k]) /\ Len(pending[k]) \in Nat
    BY <1>3 DEF Shapes, IsSeq
<1>5. missed' \subseteq Objects /\ \A p \in Objects : cluster'[p] \in Specs[p] \union {Absent}
    BY <1>2, <1>3
<1>6. CASE ~up
    <2>1. pending' = pending /\ \A k \in Kinds : pending[k] = <<>> /\ task[k] = <<>>
        BY <1>2, <1>3, <1>6 DEF DownIsIdle
    <2>2. \A k \in Kinds : Len(pending'[k]) = 0
        BY <2>1
    <2>3. Shapes'
        BY <1>1, <1>2, <1>3, <2>1 DEF Shapes
    <2>4. DownIsIdle' /\ QueuesOfKind' /\ QueuesEndCurrent'
        BY <1>1, <2>1, <2>2 DEF DownIsIdle, QueuesOfKind, QueuesEndCurrent
    <2>5. \A p \in Objects : ~Waits(p) /\ \A i \in 1..Len(pending[p.kind]) : FALSE
        BY <2>1, ObjectFacts DEF Waits
    <2>6. QED  BY <1>2, <1>5, <1>6, <2>3, <2>4, <2>5
<1>7. CASE up
    <2>1. PICK n : /\ Tells(o, n)
                   /\ pending' = [k \in Kinds |-> pending'[k]]
                   /\ pending'[o.kind] = Append(pending[o.kind], n)
                   /\ \A k \in Kinds : k # o.kind => pending'[k] = pending[k]
        BY <1>2, <1>7
    <2> DEFINE q == pending[o.kind]
               r == pending'[o.kind]
    <2>2. /\ IsSeq(r) /\ Len(r) = Len(q) + 1 /\ Len(q) \in Nat
          /\ \A i \in 1..Len(q) : r[i] = q[i]
          /\ r[Len(q) + 1] = n
        BY <1>3, <1>4, <2>1, AppendIsSeq
    <2>3. Shapes'
        <3>1. \A k \in Kinds : IsSeq(pending'[k]) /\ IsSeq(task[k])
            BY <1>4, <2>1, <2>2
        <3>2. task' = task /\ graph' = graph
            BY <1>1
        <3>3. QED  BY <1>2, <1>3, <2>1, <3>1, <3>2 DEF Shapes
    <2>4. DownIsIdle'
        BY <1>1, <1>7 DEF DownIsIdle
    <2>5. ASSUME NEW k \in Kinds, NEW i \in 1..Len(pending[k])
          PROVE  i \in 1..Len(pending'[k]) /\ pending'[k][i] = pending[k][i]
        BY <1>4, <2>1, <2>2
    <2>6. ASSUME NEW k \in Kinds, NEW i \in 1..Len(pending'[k])
          PROVE  \/ i \in 1..Len(pending[k]) /\ pending'[k][i] = pending[k][i]
                 \/ k = o.kind /\ i = Len(q) + 1 /\ pending'[k][i] = n
        BY <1>4, <2>1, <2>2
    <2>7. \A k \in Kinds : \A i \in 1..Len(pending'[k]) : IsNotification(pending'[k][i], k)
        BY <1>3, <2>1, <2>6 DEF QueuesOfKind, Tells
    <2>8. QueuesOfKind'
        BY <2>7 DEF QueuesOfKind
    <2>9. Current(o, n)'
        BY <2>1 DEF Current, Exists, Tells
    <2>10. ASSUME NEW p \in Objects, p # o, NEW m PROVE Current(p, m) => Current(p, m)'
        BY <1>2, <2>10 DEF Current, Exists
    <2>11. PICK last \in 1..Len(r) : last = Len(q) + 1 /\ r[last] = n
        <3>1. Len(q) + 1 \in 1..Len(r)
            BY <2>2
        <3>2. QED  BY <2>2, <3>1
    <2>12. Waits(o)'
        <3>1. Current(o, pending[o.kind][last])'
            BY <2>9, <2>11 DEF Current, Exists
        <3>2. QED  BY <2>11, <3>1 DEF Waits
    <2>13. ASSUME NEW p \in Objects, p # o, Waits(p) PROVE Waits(p)'
        <3>1. PICK i \in 1..Len(pending[p.kind]) : Current(p, pending[p.kind][i])
            BY <2>13 DEF Waits
        <3>2. i \in 1..Len(pending'[p.kind]) /\ pending'[p.kind][i] = pending[p.kind][i]
            BY <2>5, ObjectFacts
        <3>3. Current(p, pending[p.kind][i])'
            BY <1>2, <2>13, <3>1, <3>2 DEF Current, Exists
        <3>4. QED  BY <3>2, <3>3 DEF Waits
    <2>14. QueuesEndCurrent'
        <3> SUFFICES ASSUME NEW k \in Kinds, NEW i \in 1..Len(pending'[k])
                     PROVE  \E j \in i..Len(pending'[k]) :
                                Current(pending[k][i].obj, pending[k][j])'
            BY DEF QueuesEndCurrent
        <3>1. CASE pending'[k][i].obj = o
            <4>1. k = o.kind
                BY <2>7, <3>1 DEF IsNotification
            <4>2. last \in i..Len(r)
                BY <2>2, <2>11, <4>1
            <4>3. Current(pending[k][i].obj, pending[k][last])'
                BY <2>9, <2>11, <3>1, <4>1 DEF Current, Exists
            <4>4. QED  BY <4>1, <4>2, <4>3
        <3>2. CASE pending'[k][i].obj # o
            <4>1. n.obj = o
                BY <2>1 DEF Tells
            <4>2. i \in 1..Len(pending[k]) /\ pending'[k][i] = pending[k][i]
                BY <2>6, <3>2, <4>1
            <4>3. PICK j \in i..Len(pending[k]) : Current(pending[k][i].obj, pending[k][j])
                BY <1>3, <4>2 DEF QueuesEndCurrent
            <4>4. j \in 1..Len(pending[k])
                BY <1>4, <4>2, <4>3
            <4>5. j \in 1..Len(pending'[k]) /\ pending'[k][j] = pending[k][j]
                BY <2>5, <4>4
            <4>6. pending[k][i].obj \in Objects
                BY <1>3, <4>2 DEF QueuesOfKind, IsNotification
            <4>7. Current(pending[k][i].obj, pending[k][j])'
                BY <1>2, <3>2, <4>2, <4>3, <4>5, <4>6 DEF Current, Exists
            <4>8. j \in i..Len(pending'[k])
                BY <4>3, <4>5
            <4>9. QED  BY <4>7, <4>8
        <3>3. QED  BY <3>1, <3>2
    <2>15. \A p \in Objects : \A i \in 1..Len(pending[p.kind]) :
               i \in 1..Len(pending'[p.kind]) /\ pending'[p.kind][i] = pending[p.kind][i]
        BY <2>5, ObjectFacts
    <2>16. QED
        BY <1>2, <1>5, <1>7, <2>3, <2>4, <2>8, <2>12, <2>13, <2>14, <2>15
<1>8. QED
    BY <1>6, <1>7 DEF Base

\* What the taken notification starts.
LEMMA TakeStarts ==
    ASSUME Base, NEW k \in Kinds, Take(k), NEW n, n = pending[k][1], NEW o, o = n.obj
    PROVE  /\ IsNotification(n, k) /\ o \in Objects /\ o.kind = k /\ IsSeq(task'[k])
           /\ n.type = "delete" =>
                  /\ ErasesOnly(k, task'[k])
                  /\ \A i \in 1..Len(task'[k]) :
                         \A p \in Objects : task'[k][i].arg \in NodesOf(p) => p = o
                  /\ k \notin Misnamed => \A m \in NodesOf(o) : Has(task'[k], "DeleteNode", m)
           /\ n.type # "delete" =>
                  /\ WritesOnly(k, task'[k]) /\ \A i \in 1..Len(task'[k]) : Writes(o, task'[k][i])
                  /\ \A m \in NodesOf(o) : Has(task'[k], "UpsertNode", m)
                  /\ k = "Pod" => Has(task'[k], "ListServices", ServicesArg(o, n.spec.labels))
                  /\ k = "Service" /\ n.spec.selector # {} =>
                         /\ Has(task'[k], "ListPods", PodsArg(o, n.spec.selector))
                         /\ DropsFirst(task'[k], "ListPods", PodsArg(o, n.spec.selector))
<1>1. task'[k] = Handler(n.type, o, n.spec) /\ 1 \in 1..Len(pending[k])
    BY TakeDoes
<1>2. IsNotification(n, k)
    BY <1>1 DEF Base, QueuesOfKind
<1>3. /\ n.type \in {"add", "update", "delete"} /\ o \in Objects /\ o.kind = k
      /\ n.spec \in Specs[o]
    BY <1>2 DEF IsNotification
<1>4. o.kind \in ObjectKinds /\ WellFormed(o, n.spec) /\ o \in OfKind[k]
    BY <1>3, ObjectFacts, KindFacts
<1> DEFINE h == task'[k]
<1>5. CASE n.type = "delete"
    <2>1. /\ Erases(o, Handler("delete", o, n.spec))
          /\ k \notin Misnamed =>
                 \A m \in NodesOf(o) : Has(Handler("delete", o, n.spec), "DeleteNode", m)
        BY <1>3, <1>4, HandlerErases
    <2>2. Handler("delete", o, n.spec) = h
        BY <1>1, <1>5
    <2>3. Erases(o, h) /\ (k \notin Misnamed => \A m \in NodesOf(o) : Has(h, "DeleteNode", m))
        BY <2>1, <2>2
    <2> HIDE DEF h
    <2>4. ASSUME NEW i \in 1..Len(h), NEW p \in Objects, h[i].arg \in NodesOf(p) PROVE p = o
        <3>1. h[i].arg \in NodesOf(o) \/ Nobodys(h[i].arg)
            BY <2>3 DEF Erases
        <3>2. ~Nobodys(h[i].arg)
            BY <2>4, ObjectFacts DEF Nobodys
        <3>3. QED  BY <1>3, <2>4, <3>1, <3>2, ObjectFacts
    <2>5. ErasesOnly(k, h)
        BY <1>3, <2>3, <2>4 DEF Erases, ErasesOnly, Erasing
    <2>6. IsSeq(h)
        BY <2>3 DEF Erases
    <2>7. QED  BY <1>2, <1>3, <1>5, <2>3, <2>4, <2>5, <2>6 DEF h
<1>6. CASE n.type # "delete"
    <2>1. n.type \in {"add", "update"}
        BY <1>3, <1>6
    <2> DEFINE g == Handler(n.type, o, n.spec)
    <2>2. /\ Adds(o, g)
          /\ k = "Pod" => Has(g, "ListServices", ServicesArg(o, n.spec.labels))
          /\ k = "Service" /\ n.spec.selector # {} =>
                 /\ Has(g, "ListPods", PodsArg(o, n.spec.selector))
                 /\ DropsFirst(g, "ListPods", PodsArg(o, n.spec.selector))
        BY <1>3, <1>4, <2>1, HandlerAdds
    <2> HIDE DEF g
    <2>3. g = h
        BY <1>1 DEF g
    <2> HIDE DEF h
    <2>4. IsSeq(h) /\ WritesOnly(k, h) /\ \A i \in 1..Len(h) : Writes(o, h[i])
        BY <1>4, <2>2, <2>3 DEF Adds, Builds, WritesOnly, Writing
    <2>5. \A m \in NodesOf(o) : Has(h, "UpsertNode", m)
        BY <2>2, <2>3 DEF Adds
    <2>6. QED  BY <1>2, <1>3, <1>6, <2>2, <2>3, <2>4, <2>5 DEF h
<1>7. QED
    BY <1>5, <1>6

\* Taking a notification leaves its object waiting unless it was the current one.
LEMMA TakeTells ==
    ASSUME Base, NEW k \in Kinds, Take(k)
    PROVE  /\ Shapes' /\ DownIsIdle' /\ QueuesOfKind' /\ QueuesEndCurrent'
           /\ IsNotification(pending[k][1], k)
           /\ \A o \in Objects :
                  /\ Waits(o) =>
                         Waits(o)' \/ (pending[k][1].obj = o /\ Current(o, pending[k][1]))
                  /\ pending[k][1].obj = o =>
                         Waits(o)' \/ Current(o, pending[k][1])
                  /\ \A i \in 1..Len(pending[o.kind]) :
                         \/ i = 1 /\ o.kind = k
                         \/ \E j \in 1..Len(pending'[o.kind]) :
                                pending'[o.kind][j] = pending[o.kind][i]
<1> DEFINE n == pending[k][1]
<1>1. /\ UNCHANGED <<cluster, up, graph, lossy, missed, changes, errors, crashes>>
      /\ up /\ task[k] = <<>> /\ Len(pending[k]) \in Nat /\ 1 \in 1..Len(pending[k])
      /\ task' = [j \in Kinds |-> task'[j]] /\ pending' = [j \in Kinds |-> pending'[j]]
      /\ \A j \in Kinds : j # k => task'[j] = task[j] /\ pending'[j] = pending[j]
      /\ task'[k] = Handler(n.type, n.obj, n.spec)
      /\ IsSeq(pending'[k]) /\ Len(pending'[k]) = Len(pending[k]) - 1
      /\ \A i \in 1..Len(pending[k]) - 1 : pending'[k][i] = pending[k][i + 1]
    BY TakeDoes
<1>2. Shapes /\ QueuesOfKind /\ QueuesEndCurrent
    BY DEF Base
<1>3. IsNotification(n, k) /\ n.obj \in Objects /\ n.obj.kind = k
    BY <1>1, <1>2 DEF QueuesOfKind, IsNotification
<1>4. ASSUME NEW i \in 1..Len(pending'[k])
      PROVE  i + 1 \in 1..Len(pending[k]) /\ pending'[k][i] = pending[k][i + 1]
    BY <1>1
<1>5. ASSUME NEW i \in 1..Len(pending[k]), i # 1
      PROVE  \E j \in 1..Len(pending'[k]) : j + 1 = i /\ pending'[k][j] = pending[k][i]
    <2>1. i - 1 \in 1..Len(pending'[k]) /\ i - 1 \in 1..Len(pending[k]) - 1 /\ (i - 1) + 1 = i
        BY <1>1, <1>5
    <2>2. pending'[k][i - 1] = pending[k][i]
        BY <1>1, <2>1
    <2>3. QED  BY <2>1, <2>2
<1>6. \A o, m : Current(o, m) => Current(o, m)'
    BY <1>1 DEF Current, Exists
<1>7. DownIsIdle'
    BY <1>1 DEF DownIsIdle
<1>8. QueuesOfKind'
    <2>1. \A j \in Kinds : \A i \in 1..Len(pending'[j]) : IsNotification(pending'[j][i], j)
        BY <1>1, <1>2, <1>4 DEF QueuesOfKind
    <2>2. QED  BY <2>1 DEF QueuesOfKind
<1>10. QueuesEndCurrent'
    <2> SUFFICES ASSUME NEW j \in Kinds, NEW i \in 1..Len(pending'[j])
                 PROVE  \E l \in i..Len(pending'[j]) :
                            Current(pending[j][i].obj, pending[j][l])'
        BY DEF QueuesEndCurrent
    <2>1. CASE j # k
        <3>1. pending'[j] = pending[j]
            BY <1>1, <2>1
        <3>2. PICK l \in i..Len(pending[j]) : Current(pending[j][i].obj, pending[j][l])
            BY <1>2, <3>1 DEF QueuesEndCurrent
        <3>3. Current(pending[j][i].obj, pending[j][l])'
            BY <1>1, <3>1, <3>2 DEF Current, Exists
        <3>4. QED  BY <3>1, <3>2, <3>3
    <2>2. CASE j = k
        <3>1. PICK a \in 1..Len(pending[k]) : a = i + 1 /\ pending'[k][i] = pending[k][a]
            BY <1>4, <2>2
        <3>2. PICK b \in a..Len(pending[k]) : Current(pending[k][a].obj, pending[k][b])
            BY <1>2, <3>1 DEF QueuesEndCurrent
        <3>3. b \in 1..Len(pending[k]) /\ b # 1
            BY <1>1, <2>2, <3>1, <3>2
        <3>4. PICK l \in 1..Len(pending'[k]) : l + 1 = b /\ pending'[k][l] = pending[k][b]
            BY <1>5, <3>3
        <3>5. l \in i..Len(pending'[k])
            BY <1>1, <2>2, <3>1, <3>2, <3>4
        <3>6. Current(pending[k][i].obj, pending[k][l])'
            BY <1>1, <3>1, <3>2, <3>4 DEF Current, Exists
        <3>7. QED  BY <2>2, <3>5, <3>6
    <2>3. QED  BY <2>1, <2>2
<1>11. ASSUME NEW o \in Objects, NEW i \in 1..Len(pending[o.kind]),
              Current(o, pending[o.kind][i]), i # 1 \/ o.kind # k
       PROVE  Waits(o)'
    <2>1. o.kind \in Kinds
        BY ObjectFacts
    <2>2. PICK j \in 1..Len(pending'[o.kind]) : pending'[o.kind][j] = pending[o.kind][i]
        <3>1. CASE o.kind # k
            <4>1. pending'[o.kind] = pending[o.kind]
                BY <1>1, <2>1, <3>1
            <4>2. QED  BY <4>1
        <3>2. CASE o.kind = k
            BY <1>5, <1>11, <3>2
        <3>3. QED  BY <3>1, <3>2
    <2>3. Current(o, pending[o.kind][j])'
        BY <1>1, <1>11, <2>2 DEF Current, Exists
    <2>4. QED  BY <2>3 DEF Waits
<1>12. ASSUME NEW o \in Objects, Waits(o)
       PROVE  Waits(o)' \/ (n.obj = o /\ Current(o, n))
    <2>1. PICK i \in 1..Len(pending[o.kind]) : Current(o, pending[o.kind][i])
        BY <1>12 DEF Waits
    <2>2. CASE i # 1 \/ o.kind # k
        BY <1>11, <2>1, <2>2
    <2>3. CASE i = 1 /\ o.kind = k
        BY <2>1, <2>3 DEF Current
    <2>4. QED  BY <2>2, <2>3
<1>13. ASSUME NEW o \in Objects, n.obj = o PROVE Waits(o)' \/ Current(o, n)
    <2>1. PICK i \in 1..Len(pending[k]) : Current(o, pending[k][i])
        BY <1>1, <1>2, <1>13 DEF QueuesEndCurrent
    <2>2. o.kind = k
        BY <1>3, <1>13
    <2>3. CASE i = 1
        BY <2>1, <2>3
    <2>4. CASE i # 1
        BY <1>11, <2>1, <2>2, <2>4
    <2>5. QED  BY <2>3, <2>4
<1>14. ASSUME NEW o \in Objects, NEW i \in 1..Len(pending[o.kind]), i # 1 \/ o.kind # k
       PROVE  \E j \in 1..Len(pending'[o.kind]) : pending'[o.kind][j] = pending[o.kind][i]
    BY <1>1, <1>5, <1>14, ObjectFacts, SMTT(30)
<1>15. Shapes'
    <2>1. \A j \in Kinds : IsSeq(pending'[j]) /\ IsSeq(task'[j])
        BY <1>1, <1>2, TakeStarts DEF Shapes
    <2>2. QED  BY <1>1, <1>2, <2>1 DEF Shapes
<1>16. QED
    BY <1>3, <1>7, <1>8, <1>10, <1>12, <1>13, <1>14, <1>15

\* A new listing makes the existing objects of its kind wait.
LEMMA FilledTells ==
    ASSUME NEW k \in Kinds, Lists(k, pending'[k]), UNCHANGED cluster
    PROVE  /\ IsSeq(pending'[k])
           /\ \A i \in 1..Len(pending'[k]) :
                  /\ IsNotification(pending'[k][i], k)
                  /\ \E j \in i..Len(pending'[k]) : Current(pending[k][i].obj, pending[k][j])'
           /\ \A o \in Objects : o.kind = k /\ Exists(o) => Waits(o)'
<1>1. /\ IsSeq(pending'[k]) /\ Len(pending'[k]) \in Nat
      /\ \A i \in 1..Len(pending'[k]) :
             IsNotification(pending'[k][i], k) /\ Current(pending'[k][i].obj, pending'[k][i])
      /\ \A o \in Existing(k) : \E i \in 1..Len(pending'[k]) : Current(o, pending'[k][i])
    BY DEF Lists, IsSeq
<1>2. ASSUME NEW i \in 1..Len(pending'[k])
      PROVE  Current(pending[k][i].obj, pending[k][i])' /\ i \in i..Len(pending'[k])
    BY <1>1 DEF Current, Exists
<1>3. ASSUME NEW o \in Objects, o.kind = k, Exists(o) PROVE Waits(o)'
    <2>1. o \in Existing(k)
        BY <1>3, KindFacts DEF Existing
    <2>2. PICK i \in 1..Len(pending'[k]) : Current(o, pending'[k][i])
        BY <1>1, <2>1
    <2>3. Current(o, pending[o.kind][i])' /\ i \in 1..Len(pending'[o.kind])
        BY <1>3, <2>2 DEF Current, Exists
    <2>4. QED  BY <2>3 DEF Waits
<1>4. QED
    BY <1>1, <1>2, <1>3

\* What has not changed has not changed.
LEMMA WaitsSame ==
    ASSUME NEW o, pending'[o.kind] = pending[o.kind], UNCHANGED cluster
    PROVE  Waits(o)' = Waits(o)
BY DEF Waits, Current, Exists

(***************************************************************************)
(* Tasks: what is left to do.                                              *)
(***************************************************************************)

LEMMA ExecuteLeaves ==
    ASSUME Base, NEW k \in Kinds, Execute(k), NEW op, NEW arg
    PROVE  /\ Has(task[k], op, arg) =>
                  \/ task[k][1].op = op /\ task[k][1].arg = arg
                  \/ Has(task'[k], op, arg)
           /\ Has(task'[k], op, arg) => Has(task[k], op, arg) \/ op = "UpsertEdge"
<1>1. PICK q \in Followers(task[k][1]) :
          /\ EdgesOnly(q) /\ IsSeq(q) /\ Len(q) \in Nat
          /\ IsSeq(task'[k]) /\ Len(task'[k]) = Len(q) + (Len(task[k]) - 1)
          /\ \A i \in 1..Len(q) : task'[k][i] = q[i]
          /\ \A i \in 2..Len(task[k]) : task'[k][Len(q) + (i - 1)] = task[k][i]
          /\ \A i \in 1..Len(task'[k]) :
                 \/ i \in 1..Len(q) /\ task'[k][i] = q[i]
                 \/ /\ i - Len(q) + 1 \in 2..Len(task[k])
                    /\ task'[k][i] = task[k][i - Len(q) + 1]
    BY ExecuteDoes
<1>2. Len(task[k]) \in Nat /\ 1 \in 1..Len(task[k])
    BY ExecuteDoes
<1>3. ASSUME Has(task[k], op, arg), ~(task[k][1].op = op /\ task[k][1].arg = arg)
      PROVE  Has(task'[k], op, arg)
    <2>1. PICK i \in 1..Len(task[k]) : task[k][i].op = op /\ task[k][i].arg = arg
        BY <1>3 DEF Has
    <2>2. i \in 2..Len(task[k])
        <3>1. i # 1
            BY <1>3, <2>1
        <3>2. QED  BY <1>2, <3>1
    <2>3. Len(q) + (i - 1) \in 1..Len(task'[k])
        BY <1>1, <1>2, <2>2
    <2>4. task'[k][Len(q) + (i - 1)] = task[k][i]
        BY <1>1, <2>2
    <2>5. QED  BY <2>1, <2>3, <2>4 DEF Has
<1>4. ASSUME Has(task'[k], op, arg), op # "UpsertEdge" PROVE Has(task[k], op, arg)
    <2>1. PICK i \in 1..Len(task'[k]) : task'[k][i].op = op /\ task'[k][i].arg = arg
        BY <1>4 DEF Has
    <2>2. CASE i \in 1..Len(q) /\ task'[k][i] = q[i]
        BY <1>1, <1>4, <2>1, <2>2 DEF EdgesOnly
    <2>3. CASE /\ i - Len(q) + 1 \in 2..Len(task[k])
               /\ task'[k][i] = task[k][i - Len(q) + 1]
        <3>1. i - Len(q) + 1 \in 1..Len(task[k])
            BY <1>2, <2>3
        <3>2. QED  BY <2>1, <2>3, <3>1 DEF Has
    <2>4. QED  BY <1>1, <2>2, <2>3
<1>5. QED
    BY <1>3, <1>4

LEMMA GiveUpLeaves ==
    ASSUME Base, NEW k \in Kinds, GiveUp(k), NEW op, NEW arg
    PROVE  /\ Has(task'[k], op, arg) => Has(task[k], op, arg)
           /\ Has(task[k], op, arg) /\ task[k][1].skip = 0 =>
                  \/ task[k][1].op = op /\ task[k][1].arg = arg
                  \/ Has(task'[k], op, arg)
<1> DEFINE m == 1 + task[k][1].skip
<1>1. /\ Len(task[k]) \in Nat /\ m \in Nat /\ m <= Len(task[k]) /\ 1 <= m
      /\ Len(task'[k]) = Len(task[k]) - m
      /\ \A i \in 1..Len(task[k]) - m : task'[k][i] = task[k][m + i]
    <2>1. /\ Len(task[k]) \in Nat /\ task[k][1].skip \in Nat /\ 1 + task[k][1].skip <= Len(task[k])
          /\ Len(task'[k]) = Len(task[k]) - (1 + task[k][1].skip)
          /\ \A i \in 1..Len(task[k]) - (1 + task[k][1].skip) :
                 task'[k][i] = task[k][1 + task[k][1].skip + i]
        BY GiveUpDoes
    <2>2. QED  BY <2>1
<1>2. ASSUME Has(task'[k], op, arg) PROVE Has(task[k], op, arg)
    <2>1. PICK i \in 1..Len(task'[k]) : task'[k][i].op = op /\ task'[k][i].arg = arg
        BY <1>2 DEF Has
    <2>2. m + i \in 1..Len(task[k]) /\ task'[k][i] = task[k][m + i]
        BY <1>1
    <2>3. QED  BY <2>1, <2>2 DEF Has
<1>3. ASSUME Has(task[k], op, arg), m = 1, ~(task[k][1].op = op /\ task[k][1].arg = arg)
      PROVE  Has(task'[k], op, arg)
    <2>1. PICK i \in 1..Len(task[k]) : task[k][i].op = op /\ task[k][i].arg = arg
        BY <1>3 DEF Has
    <2>2. i # 1
        BY <1>3, <2>1
    <2>3. i - 1 \in 1..Len(task'[k]) /\ 1 + (i - 1) = i /\ i - 1 \in 1..Len(task[k]) - 1
        BY <1>1, <1>3, <2>2
    <2>4. task'[k][i - 1] = task[k][i]
        BY <1>1, <1>3, <2>3
    <2>5. QED  BY <2>1, <2>3, <2>4 DEF Has
<1>4. task[k][1].skip = 0 => m = 1
    OBVIOUS
<1>5. QED
    BY <1>2, <1>3, <1>4

(***************************************************************************)
(* The base of the invariant is kept by each action.                       *)
(***************************************************************************)

\* Both parts about what a handler still does, as they are after a step.
LEMMA LatePrime ==
    ASSUME \A o \in Objects : \A n \in NodesOf(o) :
               /\ cluster'[o] = Absent /\ Has(task'[o.kind], "UpsertNode", n) => Waits(o)'
               /\ cluster'[o] # Absent /\ Has(task'[o.kind], "DeleteNode", n) => Waits(o)'
    PROVE  LateWritesAreUndone' /\ LateDeletesAreUndone'
BY DEF LateWritesAreUndone, LateDeletesAreUndone, Exists, Has

LEMMA LateNow ==
    ASSUME Base, NEW o \in Objects, NEW n \in NodesOf(o)
    PROVE  /\ cluster[o] = Absent /\ Has(task[o.kind], "UpsertNode", n) => Waits(o)
           /\ cluster[o] # Absent /\ Has(task[o.kind], "DeleteNode", n) => Waits(o)
BY DEF Base, LateWritesAreUndone, LateDeletesAreUndone, Exists

\* An empty task does nothing.
LEMMA IdleHas == ASSUME NEW op, NEW arg PROVE ~Has(<<>>, op, arg)
BY EmptyIsSeq DEF Has

LEMMA TasksSame ==
    ASSUME TasksOfKind, UNCHANGED task
    PROVE  TasksOfKind'
BY DEF TasksOfKind, ErasesOnly, Erasing, WritesOnly, Writing

LEMMA ClusterKeepsBase == ASSUME Base, ClusterStep PROVE Base'
<1>1. /\ UNCHANGED <<up, task, graph, lossy, errors, crashes>>
      /\ changes' \in 0..MaxChanges
    BY ClusterDoes
<1>2. /\ Shapes' /\ DownIsIdle' /\ QueuesOfKind' /\ QueuesEndCurrent'
      /\ missed' \subseteq Objects
      /\ \A p \in Objects : cluster'[p] \in Specs[p] \union {Absent}
    BY ClusterTells
<1>3. PICK o \in Objects :
          /\ \A p \in Objects : p # o => cluster'[p] = cluster[p]
          /\ up => Waits(o)'
          /\ \A p \in Objects : p # o /\ Waits(p) => Waits(p)'
    BY ClusterTells
<1>4. IsGraph(graph)'
    BY <1>1 DEF Base, IsGraph
<1>5. TasksOfKind'
    BY <1>1, TasksSame DEF Base
<1>6. LateWritesAreUndone' /\ LateDeletesAreUndone'
    <2> SUFFICES ASSUME NEW p \in Objects, NEW n \in NodesOf(p)
                 PROVE  /\ cluster'[p] = Absent /\ Has(task'[p.kind], "UpsertNode", n) => Waits(p)'
                        /\ cluster'[p] # Absent /\ Has(task'[p.kind], "DeleteNode", n) => Waits(p)'
        BY LatePrime
    <2>1. /\ cluster[p] = Absent /\ Has(task[p.kind], "UpsertNode", n) => Waits(p)
          /\ cluster[p] # Absent /\ Has(task[p.kind], "DeleteNode", n) => Waits(p)
        BY LateNow
    <2>2. task' = task
        BY <1>1
    <2>3. CASE p # o
        BY <1>3, <2>1, <2>2, <2>3
    <2>4. CASE p = o /\ up
        BY <1>3, <2>4
    <2>5. CASE ~up
        <3>1. task[p.kind] = <<>>
            BY <2>5, ObjectFacts DEF Base, DownIsIdle
        <3>2. ~Has(task'[p.kind], "UpsertNode", n) /\ ~Has(task'[p.kind], "DeleteNode", n)
            BY <2>2, <3>1, IdleHas
        <3>3. QED  BY <3>2
    <2>6. QED  BY <2>3, <2>4, <2>5
<1>7. QED
    BY <1>1, <1>2, <1>4, <1>5, <1>6 DEF Base

\* A change of one kind's task to one that its handlers may have.
LEMMA TaskReplaced ==
    ASSUME TasksOfKind, NEW k \in Kinds, ErasesOnly(k, task'[k]) \/ WritesOnly(k, task'[k]),
           \A j \in Kinds : j # k => task'[j] = task[j]
    PROVE  TasksOfKind'
<1>1. \A j \in Kinds : ErasesOnly(j, task'[j]) \/ WritesOnly(j, task'[j])
    BY DEF TasksOfKind
<1>2. QED
    BY <1>1 DEF TasksOfKind, ErasesOnly, Erasing, WritesOnly, Writing

LEMMA TakeKeepsBase == ASSUME Base, NEW k \in Kinds, Take(k) PROVE Base'
<1>1. /\ UNCHANGED <<cluster, up, graph, lossy, missed, changes, errors, crashes>>
      /\ task[k] = <<>> /\ \A j \in Kinds : j # k => task'[j] = task[j] /\ pending'[j] = pending[j]
    BY TakeDoes
<1> DEFINE n == pending[k][1]
<1>2. /\ Shapes' /\ DownIsIdle' /\ QueuesOfKind' /\ QueuesEndCurrent'
      /\ \A o \in Objects :
             /\ Waits(o) => Waits(o)' \/ (n.obj = o /\ Current(o, n))
             /\ n.obj = o => Waits(o)' \/ Current(o, n)
    BY TakeTells
<1>3. /\ IsNotification(n, k) /\ n.obj \in Objects /\ n.obj.kind = k
      /\ n.type = "delete" =>
             /\ ErasesOnly(k, task'[k])
             /\ \A i \in 1..Len(task'[k]) :
                    \A p \in Objects : task'[k][i].arg \in NodesOf(p) => p = n.obj
      /\ n.type # "delete" =>
             WritesOnly(k, task'[k]) /\ \A i \in 1..Len(task'[k]) : Writes(n.obj, task'[k][i])
    BY TakeStarts
<1> HIDE DEF n
<1>4. TasksOfKind'
    BY <1>1, <1>3, TaskReplaced DEF Base
<1>5. LateWritesAreUndone' /\ LateDeletesAreUndone'
    <2> SUFFICES ASSUME NEW p \in Objects, NEW m \in NodesOf(p)
                 PROVE  /\ cluster'[p] = Absent /\ Has(task'[p.kind], "UpsertNode", m) => Waits(p)'
                        /\ cluster'[p] # Absent /\ Has(task'[p.kind], "DeleteNode", m) => Waits(p)'
        BY LatePrime
    <2>1. /\ cluster[p] = Absent /\ Has(task[p.kind], "UpsertNode", m) => Waits(p)
          /\ cluster[p] # Absent /\ Has(task[p.kind], "DeleteNode", m) => Waits(p)
        BY LateNow
    <2>2. CASE p.kind # k
        <3>1. task'[p.kind] = task[p.kind] /\ n.obj # p
            BY <1>1, <1>3, <2>2, ObjectFacts
        <3>2. QED  BY <1>1, <1>2, <2>1, <3>1
    <2>3. CASE p.kind = k
        <3>1. ASSUME cluster[p] = Absent, Has(task'[k], "UpsertNode", m)
              PROVE  n.obj = p /\ n.type # "delete"
            <4>1. PICK i \in 1..Len(task'[k]) : task'[k][i].op = "UpsertNode" /\ task'[k][i].arg = m
                BY <3>1 DEF Has
            <4>2. n.type # "delete"
                BY <1>3, <4>1 DEF ErasesOnly, Erasing
            <4>3. m \in NodesOf(n.obj)
                BY <1>3, <4>1, <4>2 DEF Writes
            <4>4. QED  BY <1>3, <4>2, <4>3, ObjectFacts
        <3>2. ASSUME cluster[p] # Absent, Has(task'[k], "DeleteNode", m)
              PROVE  n.obj = p /\ n.type = "delete"
            <4>1. PICK i \in 1..Len(task'[k]) : task'[k][i].op = "DeleteNode" /\ task'[k][i].arg = m
                BY <3>2 DEF Has
            <4>2. n.type = "delete"
                BY <1>3, <4>1 DEF Writes
            <4>3. QED  BY <1>3, <4>1, <4>2
        <3>3. ASSUME n.obj = p, IF cluster[p] = Absent THEN n.type # "delete" ELSE n.type = "delete"
              PROVE  Waits(p)'
            <4>1. ~Current(p, n)
                BY <3>3 DEF Current, Exists
            <4>2. QED  BY <1>2, <3>3, <4>1
        <3>4. QED  BY <1>1, <2>3, <3>1, <3>2, <3>3
    <2>4. QED  BY <2>2, <2>3
<1>6. IsGraph(graph)'
    BY <1>1 DEF Base, IsGraph
<1>7. QED
    BY <1>1, <1>2, <1>4, <1>5, <1>6 DEF Base

\* Pending notifications, and the rest, of a step that is about tasks only.
LEMMA QueuesSame ==
    ASSUME Base, UNCHANGED <<cluster, up, pending>>, up,
           task' = [j \in Kinds |-> task'[j]], \A k \in Kinds : IsSeq(task'[k]), IsGraph(graph')
    PROVE  /\ Shapes' /\ DownIsIdle' /\ QueuesOfKind' /\ QueuesEndCurrent' /\ IsGraph(graph)'
           /\ \A o \in Objects : Waits(o)' = Waits(o)
<1>1. Shapes /\ QueuesOfKind /\ QueuesEndCurrent
    BY DEF Base
<1>2. Shapes'
    BY <1>1 DEF Shapes, IsGraph
<1>3. DownIsIdle'
    BY DEF DownIsIdle
<1>4. QueuesOfKind' /\ QueuesEndCurrent'
    BY <1>1 DEF QueuesOfKind, QueuesEndCurrent, Current, Exists
<1>5. \A o \in Objects : Waits(o)' = Waits(o)
    BY WaitsSame
<1>6. IsGraph(graph)'
    BY DEF IsGraph
<1>7. QED
    BY <1>2, <1>3, <1>4, <1>5, <1>6

\* A step that leaves no write or delete of a node that was not there to do.
LEMMA LateKept ==
    ASSUME Base, UNCHANGED cluster,
           \A o \in Objects : Waits(o) => Waits(o)',
           \A k \in Kinds : \A op \in {"UpsertNode", "DeleteNode"} : \A n :
               Has(task'[k], op, n) => Has(task[k], op, n)
    PROVE  LateWritesAreUndone' /\ LateDeletesAreUndone'
<1> SUFFICES ASSUME NEW p \in Objects, NEW n \in NodesOf(p)
             PROVE  /\ cluster'[p] = Absent /\ Has(task'[p.kind], "UpsertNode", n) => Waits(p)'
                    /\ cluster'[p] # Absent /\ Has(task'[p.kind], "DeleteNode", n) => Waits(p)'
    BY LatePrime
<1>1. /\ cluster[p] = Absent /\ Has(task[p.kind], "UpsertNode", n) => Waits(p)
      /\ cluster[p] # Absent /\ Has(task[p.kind], "DeleteNode", n) => Waits(p)
    BY LateNow
<1>2. p.kind \in Kinds
    BY ObjectFacts
<1>3. QED
    BY <1>1, <1>2

LEMMA ExecuteKeepsBase == ASSUME Base, NEW k \in Kinds, Execute(k) PROVE Base'
<1>1. /\ UNCHANGED <<cluster, up, pending, lossy, missed, changes, errors, crashes>>
      /\ up /\ Len(task[k]) \in Nat /\ 1 \in 1..Len(task[k])
      /\ graph' = Run(graph, task[k][1]) /\ task' = [j \in Kinds |-> task'[j]]
      /\ \A j \in Kinds : j # k => task'[j] = task[j]
    BY ExecuteDoes
<1>2. PICK q \in Followers(task[k][1]) :
          /\ EdgesOnly(q) /\ IsSeq(q) /\ Len(q) \in Nat
          /\ IsSeq(task'[k]) /\ Len(task'[k]) = Len(q) + (Len(task[k]) - 1)
          /\ \A i \in 1..Len(task'[k]) :
                 \/ i \in 1..Len(q) /\ task'[k][i] = q[i]
                 \/ /\ i - Len(q) + 1 \in 2..Len(task[k])
                    /\ task'[k][i] = task[k][i - Len(q) + 1]
    BY ExecuteDoes
<1>3. Shapes /\ TasksOfKind /\ IsGraph(graph)
    BY DEF Base
<1>4. IsGraph(graph')
    BY <1>1, <1>3, RunDoes
<1>5. \A j \in Kinds : IsSeq(task'[j])
    BY <1>1, <1>2, <1>3 DEF Shapes
<1>6. /\ Shapes' /\ DownIsIdle' /\ QueuesOfKind' /\ QueuesEndCurrent' /\ IsGraph(graph)'
      /\ \A o \in Objects : Waits(o)' = Waits(o)
    BY <1>1, <1>4, <1>5, QueuesSame
<1>7. TasksOfKind'
    <2>1. CASE ErasesOnly(k, task[k])
        <3>1. task[k][1].op = "DeleteNode"
            BY <1>1, <2>1 DEF ErasesOnly, Erasing
        <3>2. q = <<>>
            BY <3>1, FollowersAre DEF IsList
        <3>3. Len(q) = 0
            BY <3>2
        <3>4. ASSUME NEW i \in 1..Len(task'[k]) PROVE Erasing(k, task'[k][i])
            <4>1. i - Len(q) + 1 \in 2..Len(task[k]) /\ task'[k][i] = task[k][i - Len(q) + 1]
                BY <1>2, <3>3
            <4>2. i - Len(q) + 1 \in 1..Len(task[k])
                BY <1>1, <4>1
            <4>3. QED  BY <2>1, <4>1, <4>2 DEF ErasesOnly
        <3>5. ErasesOnly(k, task'[k])
            BY <3>4 DEF ErasesOnly
        <3>6. QED  BY <1>1, <1>3, <3>5, TaskReplaced
    <2>2. CASE WritesOnly(k, task[k])
        <3>1. PICK o \in OfKind[k] : Writes(o, task[k][1])
            BY <1>1, <2>2 DEF WritesOnly, Writing
        <3>2. ASSUME NEW i \in 1..Len(task'[k])
              PROVE  Writing(k, task'[k][i]) /\ i + task'[k][i].skip <= Len(task'[k])
            <4>1. CASE i \in 1..Len(q) /\ task'[k][i] = q[i]
                <5>1. IsStatement(q[i]) /\ q[i].op = "UpsertEdge" /\ i + q[i].skip <= Len(q)
                    BY <1>2, <4>1 DEF EdgesOnly
                <5>2. Writes(o, q[i])
                    BY <5>1 DEF Writes
                <5>3. Len(q) <= Len(task'[k]) /\ q[i].skip \in Nat /\ Len(task'[k]) \in Nat
                    BY <1>1, <1>2, <5>1 DEF IsStatement
                <5>4. i + q[i].skip <= Len(task'[k])
                    BY <1>2, <5>1, <5>3
                <5>5. QED  BY <4>1, <5>2, <5>4 DEF Writing
            <4>2. CASE /\ i - Len(q) + 1 \in 2..Len(task[k])
                       /\ task'[k][i] = task[k][i - Len(q) + 1]
                <5> DEFINE j == i - Len(q) + 1
                <5>1. j \in 1..Len(task[k])
                    BY <1>1, <4>2
                <5>2. Writing(k, task[k][j]) /\ j + task[k][j].skip <= Len(task[k])
                    BY <2>2, <5>1 DEF WritesOnly
                <5>3. task[k][j].skip \in Nat
                    BY <5>2 DEF Writing, Writes, IsStatement
                <5>4. task'[k][i] = task[k][j]
                    BY <4>2
                <5>5. i + task[k][j].skip <= Len(task'[k])
                    <6>1. i = j + Len(q) - 1
                        BY <1>2
                    <6> HIDE DEF j
                    <6>2. QED  BY <1>1, <1>2, <5>1, <5>2, <5>3, <6>1
                <5>6. QED  BY <5>2, <5>4, <5>5
            <4>3. QED  BY <1>2, <4>1, <4>2
        <3>3. WritesOnly(k, task'[k])
            BY <3>2 DEF WritesOnly
        <3>4. QED  BY <1>1, <1>3, <3>3, TaskReplaced
    <2>3. QED  BY <1>3, <2>1, <2>2 DEF TasksOfKind
<1>8. LateWritesAreUndone' /\ LateDeletesAreUndone'
    <2>1. \A j \in Kinds : \A op \in {"UpsertNode", "DeleteNode"} : \A n :
              Has(task'[j], op, n) => Has(task[j], op, n)
        BY <1>1, ExecuteLeaves
    <2>2. QED  BY <1>1, <1>6, <2>1, LateKept
<1>9. QED
    BY <1>1, <1>6, <1>7, <1>8 DEF Base

LEMMA GiveUpKeepsBase == ASSUME Base, NEW k \in Kinds, GiveUp(k) PROVE Base'
<1> DEFINE m == 1 + task[k][1].skip
<1>1. /\ UNCHANGED <<cluster, up, pending, changes, crashes>>
      /\ up /\ lossy' = TRUE /\ errors' \in 0..MaxErrors /\ missed' \subseteq Objects
      /\ graph' \in {graph, Run(graph, task[k][1])} /\ task' = [j \in Kinds |-> task'[j]]
      /\ \A j \in Kinds : j # k => task'[j] = task[j]
    BY GiveUpDoes
<1>2. /\ Len(task[k]) \in Nat /\ m \in Nat /\ m <= Len(task[k])
      /\ IsSeq(task'[k]) /\ Len(task'[k]) = Len(task[k]) - m
      /\ \A i \in 1..Len(task[k]) - m : task'[k][i] = task[k][m + i]
    <2>1. /\ Len(task[k]) \in Nat /\ task[k][1].skip \in Nat /\ 1 + task[k][1].skip <= Len(task[k])
          /\ IsSeq(task'[k]) /\ Len(task'[k]) = Len(task[k]) - (1 + task[k][1].skip)
          /\ \A i \in 1..Len(task[k]) - (1 + task[k][1].skip) :
                 task'[k][i] = task[k][1 + task[k][1].skip + i]
        BY GiveUpDoes
    <2>2. QED  BY <2>1
<1> HIDE DEF m
<1>3. Shapes /\ TasksOfKind /\ IsGraph(graph)
    BY DEF Base
<1>4. IsGraph(graph')
    BY <1>1, <1>3, RunDoes
<1>5. \A j \in Kinds : IsSeq(task'[j])
    BY <1>1, <1>2, <1>3 DEF Shapes
<1>6. /\ Shapes' /\ DownIsIdle' /\ QueuesOfKind' /\ QueuesEndCurrent' /\ IsGraph(graph)'
      /\ \A o \in Objects : Waits(o)' = Waits(o)
    BY <1>1, <1>4, <1>5, QueuesSame
<1>7. ASSUME NEW i \in 1..Len(task'[k])
      PROVE  m + i \in 1..Len(task[k]) /\ task'[k][i] = task[k][m + i]
    BY <1>2
<1>8. TasksOfKind'
    <2>1. CASE ErasesOnly(k, task[k])
        <3>1. ErasesOnly(k, task'[k])
            BY <1>7, <2>1 DEF ErasesOnly
        <3>2. QED  BY <1>1, <1>3, <3>1, TaskReplaced
    <2>2. CASE WritesOnly(k, task[k])
        <3>1. ASSUME NEW i \in 1..Len(task'[k])
              PROVE  Writing(k, task'[k][i]) /\ i + task'[k][i].skip <= Len(task'[k])
            <4>1. Writing(k, task[k][m + i]) /\ (m + i) + task[k][m + i].skip <= Len(task[k])
                BY <1>7, <2>2 DEF WritesOnly
            <4>2. task[k][m + i].skip \in Nat
                BY <4>1 DEF Writing, Writes, IsStatement
            <4>3. i + task[k][m + i].skip <= Len(task'[k])
                BY <1>2, <4>1, <4>2
            <4>4. QED  BY <1>7, <4>1, <4>3
        <3>2. WritesOnly(k, task'[k])
            BY <3>1 DEF WritesOnly
        <3>3. QED  BY <1>1, <1>3, <3>2, TaskReplaced
    <2>3. QED  BY <1>3, <2>1, <2>2 DEF TasksOfKind
<1>9. LateWritesAreUndone' /\ LateDeletesAreUndone'
    <2>1. \A j \in Kinds : \A op \in {"UpsertNode", "DeleteNode"} : \A n :
              Has(task'[j], op, n) => Has(task[j], op, n)
        BY <1>1, GiveUpLeaves
    <2>2. QED  BY <1>1, <1>6, <2>1, LateKept
<1>10. QED
    BY <1>1, <1>6, <1>8, <1>9 DEF Base

\* A step that leaves the queues and the tasks alone.
LEMMA GraphStepKeepsBase ==
    ASSUME Base, UNCHANGED <<cluster, up, pending, task, lossy, missed, changes, crashes>>, up,
           errors' \in 0..MaxErrors, IsGraph(graph')
    PROVE  Base'
<1>1. Shapes /\ TasksOfKind
    BY DEF Base
<1>2. task' = [j \in Kinds |-> task'[j]] /\ \A k \in Kinds : IsSeq(task'[k])
    BY <1>1 DEF Shapes
<1>3. /\ Shapes' /\ DownIsIdle' /\ QueuesOfKind' /\ QueuesEndCurrent' /\ IsGraph(graph)'
      /\ \A o \in Objects : Waits(o)' = Waits(o)
    BY <1>2, QueuesSame
<1>4. LateWritesAreUndone' /\ LateDeletesAreUndone'
    BY <1>3, LateKept
<1>5. TasksOfKind'
    BY <1>1, TasksSame
<1>6. QED
    BY <1>3, <1>4, <1>5 DEF Base

\* An attempt that is repeated runs the statement, and nothing follows from it.
LEMMA RepeatDoes ==
    ASSUME Base, NEW k \in Kinds, Repeat(k)
    PROVE  /\ UNCHANGED <<cluster, up, pending, task, lossy, missed, changes, crashes>>
           /\ up /\ errors' \in 0..MaxErrors /\ 1 \in 1..Len(task[k])
           /\ graph' = Run(graph, task[k][1])
<1>1. IsSeq(task[k]) /\ task[k] # <<>> /\ errors \in 0..MaxErrors /\ MaxErrors \in Nat
    BY SyncAssumption DEF Base, Shapes, Repeat
<1>2. Len(task[k]) \in Nat /\ Len(task[k]) >= 1 /\ Head(task[k]) = task[k][1]
    BY <1>1, TailIsSeq
<1>3. up
    BY <1>1 DEF Base, DownIsIdle
<1>4. /\ UNCHANGED <<cluster, up, pending, task, lossy, missed, changes, crashes>>
      /\ errors < MaxErrors /\ errors' = errors + 1 /\ graph' = Run(graph, task[k][1])
    BY <1>2 DEF Repeat, CountError
<1>5. errors' \in 0..MaxErrors
    BY <1>1, <1>4
<1>6. 1 \in 1..Len(task[k])
    BY <1>2
<1>7. QED
    BY <1>3, <1>4, <1>5, <1>6

LEMMA RepeatKeepsBase == ASSUME Base, NEW k \in Kinds, Repeat(k) PROVE Base'
<1>1. IsGraph(graph')
    BY RepeatDoes, RunDoes DEF Base
<1>2. QED
    BY <1>1, RepeatDoes, GraphStepKeepsBase

LEMMA CleanupKeepsBase == ASSUME Base, Cleanup PROVE Base'
<1>1. IsGraph(graph')
    BY CleanupDoes DEF Base, Cleanup
<1>2. QED
    BY <1>1, GraphStepKeepsBase DEF Base, Cleanup

LEMMA ResyncKeepsBase == ASSUME Base, NEW k \in Kinds, Resync(k) PROVE Base'
<1>1. /\ UNCHANGED <<cluster, up, task, graph, lossy, missed, changes, errors, crashes>>
      /\ up /\ pending[k] = <<>> /\ pending' = [j \in Kinds |-> pending'[j]]
      /\ \A j \in Kinds : j # k => pending'[j] = pending[j]
      /\ Lists(k, pending'[k])
    BY ResyncDoes
<1>2. Shapes /\ TasksOfKind /\ QueuesOfKind /\ QueuesEndCurrent
    BY DEF Base
<1>3. /\ IsSeq(pending'[k])
      /\ \A i \in 1..Len(pending'[k]) :
             /\ IsNotification(pending'[k][i], k)
             /\ \E j \in i..Len(pending'[k]) : Current(pending[k][i].obj, pending[k][j])'
    BY <1>1, FilledTells
<1>4. Shapes'
    <2>1. \A j \in Kinds : IsSeq(pending'[j]) /\ IsSeq(task'[j])
        BY <1>1, <1>2, <1>3 DEF Shapes
    <2>2. QED  BY <1>1, <1>2, <2>1 DEF Shapes
<1>5. DownIsIdle'
    BY <1>1 DEF DownIsIdle
<1>6. QueuesOfKind'
    <2>1. \A j \in Kinds : \A i \in 1..Len(pending'[j]) : IsNotification(pending'[j][i], j)
        BY <1>1, <1>2, <1>3 DEF QueuesOfKind
    <2>2. QED  BY <2>1 DEF QueuesOfKind
<1>7. QueuesEndCurrent'
    <2> SUFFICES ASSUME NEW j \in Kinds, NEW i \in 1..Len(pending'[j])
                 PROVE  \E l \in i..Len(pending'[j]) : Current(pending[j][i].obj, pending[j][l])'
        BY DEF QueuesEndCurrent
    <2>1. CASE j = k
        BY <1>3, <2>1
    <2>2. CASE j # k
        <3>1. pending'[j] = pending[j]
            BY <1>1, <2>2
        <3>2. PICK l \in i..Len(pending[j]) : Current(pending[j][i].obj, pending[j][l])
            BY <1>2, <3>1 DEF QueuesEndCurrent
        <3>3. Current(pending[j][i].obj, pending[j][l])'
            BY <1>1, <3>1, <3>2 DEF Current, Exists
        <3>4. QED  BY <3>1, <3>2, <3>3
    <2>3. QED  BY <2>1, <2>2
<1>8. TasksOfKind'
    BY <1>1, <1>2, TasksSame
<1>9. LateWritesAreUndone' /\ LateDeletesAreUndone'
    <2>1. ASSUME NEW o \in Objects, Waits(o) PROVE Waits(o)'
        <3>1. o.kind # k
            BY <1>1, <2>1, EmptyIsSeq DEF Waits
        <3>2. pending'[o.kind] = pending[o.kind]
            BY <1>1, <3>1, ObjectFacts
        <3>3. QED  BY <1>1, <2>1, <3>2, WaitsSame
    <2>2. QED  BY <1>1, <2>1, LateKept
<1>10. IsGraph(graph)'
    BY <1>1 DEF Base, IsGraph
<1>11. QED
    BY <1>1, <1>4, <1>5, <1>6, <1>7, <1>8, <1>9, <1>10 DEF Base

\* A step after which no task is there.
LEMMA NoTasks ==
    ASSUME \A k \in Kinds : task'[k] = <<>>
    PROVE  TasksOfKind' /\ LateWritesAreUndone' /\ LateDeletesAreUndone'
<1>1. TasksOfKind'
    <2>1. \A k \in Kinds : Len(task'[k]) = 0
        BY EmptyIsSeq
    <2>2. QED  BY <2>1 DEF TasksOfKind, ErasesOnly
<1>2. \A o \in Objects : task'[o.kind] = <<>>
    BY ObjectFacts
<1>3. LateWritesAreUndone' /\ LateDeletesAreUndone'
    BY <1>2, IdleHas, LatePrime
<1>4. QED
    BY <1>1, <1>3

LEMMA RestartKeepsBase == ASSUME Base, Restart PROVE Base'
<1>1. /\ UNCHANGED <<cluster, task, graph, missed, changes, errors, crashes>>
      /\ up' = TRUE /\ lossy' = FALSE /\ pending' = [j \in Kinds |-> pending'[j]]
      /\ \A k \in Kinds : Lists(k, pending'[k]) /\ task'[k] = <<>>
    BY RestartDoes
<1>2. ASSUME NEW k \in Kinds
      PROVE  /\ IsSeq(pending'[k])
             /\ \A i \in 1..Len(pending'[k]) :
                    /\ IsNotification(pending'[k][i], k)
                    /\ \E j \in i..Len(pending'[k]) : Current(pending[k][i].obj, pending[k][j])'
    BY <1>1, FilledTells
<1>3. Shapes
    BY DEF Base
<1>4. Shapes'
    <2>1. \A j \in Kinds : IsSeq(pending'[j]) /\ IsSeq(task'[j])
        BY <1>1, <1>2, <1>3 DEF Shapes
    <2>2. QED  BY <1>1, <1>3, <2>1 DEF Shapes
<1>5. DownIsIdle'
    BY <1>1 DEF DownIsIdle
<1>6. QueuesOfKind' /\ QueuesEndCurrent'
    BY <1>2 DEF QueuesOfKind, QueuesEndCurrent
<1>7. TasksOfKind' /\ LateWritesAreUndone' /\ LateDeletesAreUndone'
    BY <1>1, NoTasks
<1>8. IsGraph(graph)'
    BY <1>1 DEF Base, IsGraph
<1>9. QED
    BY <1>1, <1>4, <1>5, <1>6, <1>7, <1>8 DEF Base

LEMMA CrashKeepsBase == ASSUME Base, Crash PROVE Base'
<1>1. /\ UNCHANGED <<cluster, graph, lossy, changes, errors>> /\ up' = FALSE
      /\ pending' = [k \in Kinds |-> <<>>] /\ task' = [k \in Kinds |-> <<>>]
      /\ missed' = missed \union Doomed /\ crashes < MaxCrashes /\ crashes' = crashes + 1
    BY DEF Crash
<1>2. \A k \in Kinds : pending'[k] = <<>> /\ task'[k] = <<>> /\ Len(pending'[k]) = 0
    BY <1>1, EmptyIsSeq
<1>3. Shapes /\ missed \subseteq Objects /\ crashes \in 0..MaxCrashes /\ MaxCrashes \in Nat
    BY SyncAssumption DEF Base
<1>4. Shapes'
    <2>1. \A k \in Kinds : IsSeq(pending'[k]) /\ IsSeq(task'[k])
        BY <1>2, EmptyIsSeq
    <2>2. pending' = [k \in Kinds |-> pending'[k]] /\ task' = [k \in Kinds |-> task'[k]]
        BY <1>1
    <2>3. QED  BY <1>1, <1>3, <2>1, <2>2 DEF Shapes
<1>5. DownIsIdle' /\ QueuesOfKind' /\ QueuesEndCurrent'
    BY <1>2 DEF DownIsIdle, QueuesOfKind, QueuesEndCurrent
<1>6. TasksOfKind' /\ LateWritesAreUndone' /\ LateDeletesAreUndone'
    BY <1>2, NoTasks
<1>7. missed' \subseteq Objects /\ crashes' \in 0..MaxCrashes
    BY <1>1, <1>3 DEF Doomed
<1>8. IsGraph(graph)'
    BY <1>1 DEF Base, IsGraph
<1>9. QED
    BY <1>1, <1>4, <1>5, <1>6, <1>7, <1>8 DEF Base

LEMMA InitBase == Init => Base
<1> SUFFICES ASSUME Init PROVE Base
    OBVIOUS
<1>1. /\ cluster \in [Objects -> (UNION {Specs[o] : o \in Objects}) \union {Absent}]
      /\ \A o \in Objects : cluster[o] \in Specs[o] \union {Absent}
    BY SyncAssumption DEF Init
<1>2. /\ pending = [k \in Kinds |-> ForEach(k, "add")] /\ task = [k \in Kinds |-> <<>>]
      /\ graph = EmptyGraph /\ missed = {} /\ up = TRUE /\ lossy = FALSE
      /\ changes = 0 /\ errors = 0 /\ crashes = 0
    BY DEF Init
<1>3. \A k \in Kinds : Lists(k, pending[k])
    <2>1. \A k \in Kinds : Lists(k, ForEach(k, "add"))
        BY <1>1, ForEachTells
    <2>2. QED  BY <1>2, <2>1
<1>4. \A k \in Kinds : task[k] = <<>> /\ Len(task[k]) = 0 /\ IsSeq(task[k])
    BY <1>2, EmptyIsSeq
<1>5. Shapes /\ IsGraph(graph)
    <2>1. cluster = [o \in Objects |-> cluster[o]]
        BY <1>1
    <2>2. pending = [k \in Kinds |-> pending[k]] /\ task = [k \in Kinds |-> task[k]]
        BY <1>2
    <2>3. IsGraph(graph)
        BY <1>2 DEF EmptyGraph, IsGraph
    <2>4. \A k \in Kinds : IsSeq(pending[k])
        BY <1>3 DEF Lists
    <2>5. QED  BY <1>4, <2>1, <2>2, <2>3, <2>4 DEF Shapes, IsGraph
<1>6. QueuesOfKind
    BY <1>3 DEF QueuesOfKind, Lists
<1>7. QueuesEndCurrent
    <2> SUFFICES ASSUME NEW k \in Kinds, NEW i \in 1..Len(pending[k])
                 PROVE  \E j \in i..Len(pending[k]) : Current(pending[k][i].obj, pending[k][j])
        BY DEF QueuesEndCurrent
    <2>1. Current(pending[k][i].obj, pending[k][i]) /\ Len(pending[k]) \in Nat
        BY <1>3 DEF Lists, IsSeq
    <2>2. i \in i..Len(pending[k])
        BY <2>1
    <2>3. QED  BY <2>1, <2>2
<1>8. TasksOfKind
    BY <1>4 DEF TasksOfKind, ErasesOnly
<1>9. LateWritesAreUndone /\ LateDeletesAreUndone
    BY <1>4, IdleHas, ObjectFacts DEF LateWritesAreUndone, LateDeletesAreUndone
<1>10. DownIsIdle
    BY <1>2 DEF DownIsIdle
<1>11. /\ up \in BOOLEAN /\ lossy \in BOOLEAN /\ missed \subseteq Objects
       /\ changes \in 0..MaxChanges /\ errors \in 0..MaxErrors /\ crashes \in 0..MaxCrashes
    <2>1. MaxChanges \in Nat /\ MaxErrors \in Nat /\ MaxCrashes \in Nat
        BY SyncAssumption
    <2>2. 0 \in 0..MaxChanges /\ 0 \in 0..MaxErrors /\ 0 \in 0..MaxCrashes
        BY <2>1
    <2>3. changes = 0 /\ errors = 0 /\ crashes = 0 /\ missed = {} /\ up = TRUE /\ lossy = FALSE
        BY <1>2, Zenon DEF Init
    <2>4. QED  BY <2>2, <2>3
<1>12. QED
    BY <1>1, <1>5, <1>6, <1>7, <1>8, <1>9, <1>10, <1>11 DEF Base

LEMMA StutterKeepsBase == ASSUME Base, UNCHANGED vars PROVE Base'
<1>1. UNCHANGED <<cluster, up, pending, task, graph, lossy, missed, changes, errors, crashes>>
    BY DEF vars
<1>2. Shapes' /\ IsGraph(graph)' /\ QueuesOfKind' /\ DownIsIdle'
    BY <1>1 DEF Base, Shapes, IsGraph, QueuesOfKind, DownIsIdle
<1>3. QueuesEndCurrent'
    BY <1>1 DEF Base, QueuesEndCurrent, Current, Exists
<1>4. TasksOfKind'
    BY <1>1, TasksSame DEF Base
<1>5. LateWritesAreUndone' /\ LateDeletesAreUndone'
    BY <1>1, WaitsSame, LateKept
<1>6. QED
    BY <1>1, <1>2, <1>3, <1>4, <1>5 DEF Base

LEMMA NextKeepsBase == Base /\ [Next]_vars => Base'
<1> SUFFICES ASSUME Base, [Next]_vars PROVE Base'
    OBVIOUS
<1>1. CASE ClusterStep
    BY <1>1, ClusterKeepsBase
<1>2. CASE \E k \in Kinds : HandlerStep(k) \/ Repeat(k) \/ GiveUp(k) \/ Resync(k)
    BY <1>2, TakeKeepsBase, ExecuteKeepsBase, RepeatKeepsBase, GiveUpKeepsBase, ResyncKeepsBase
    DEF HandlerStep
<1>3. CASE Cleanup
    BY <1>3, CleanupKeepsBase
<1>4. CASE Crash
    BY <1>4, CrashKeepsBase
<1>5. CASE Restart
    BY <1>5, RestartKeepsBase
<1>6. CASE UNCHANGED vars
    BY <1>6, StutterKeepsBase
<1>7. QED
    BY <1>1, <1>2, <1>3, <1>4, <1>5, <1>6 DEF Next

\* Throughout, queues end with what the cluster holds, tasks are of their kind, and
\* a handler overtaken by its object's deletion or return is followed by another.
THEOREM BaseAlways == Spec => []Base
<1>1. QED
    BY InitBase, NextKeepsBase, PTL DEF Spec

LEMMA BaseTypes == Base => TypeOK
<1> SUFFICES ASSUME Base PROVE TypeOK
    OBVIOUS
<1>1. /\ \A o \in Objects : cluster[o] \in Specs[o] \union {Absent}
      /\ up \in BOOLEAN /\ lossy \in BOOLEAN /\ missed \subseteq Objects
      /\ changes \in 0..MaxChanges /\ errors \in 0..MaxErrors /\ crashes \in 0..MaxCrashes
    BY DEF Base
<1>2. Shapes /\ QueuesOfKind /\ TasksOfKind /\ IsGraph(graph)
    BY DEF Base
<1>3. DOMAIN pending = Kinds /\ DOMAIN task = Kinds
    BY <1>2 DEF Shapes
<1>4. \A k \in Kinds : \A i \in DOMAIN pending[k] : IsNotification(pending[k][i], k)
    BY <1>2 DEF Shapes, QueuesOfKind, IsSeq
<1>5. ASSUME NEW k \in Kinds, NEW i \in DOMAIN task[k]
      PROVE  i + task[k][i].skip \in DOMAIN task[k]
    <2>1. DOMAIN task[k] = 1..Len(task[k]) /\ Len(task[k]) \in Nat
        BY <1>2 DEF Shapes, IsSeq
    <2>2. CASE ErasesOnly(k, task[k])
        <3>1. task[k][i].skip = 0
            BY <2>1, <2>2 DEF ErasesOnly, Erasing
        <3>2. QED  BY <2>1, <3>1
    <2>3. CASE WritesOnly(k, task[k])
        <3>1. Writing(k, task[k][i]) /\ i + task[k][i].skip <= Len(task[k])
            BY <2>1, <2>3 DEF WritesOnly
        <3>2. task[k][i].skip \in Nat
            BY <3>1 DEF Writing, Writes, IsStatement
        <3>3. QED  BY <2>1, <3>1, <3>2
    <2>4. QED  BY <1>2, <2>2, <2>3 DEF TasksOfKind
<1>6. /\ graph.real \intersect graph.placeholder = {}
      /\ \A e \in graph.edges : {From(e), To(e)} \subseteq graph.real \union graph.placeholder
    BY <1>2 DEF IsGraph
<1>7. QED
    BY <1>1, <1>3, <1>4, <1>5, <1>6 DEF TypeOK

\* The types: each queue holds its kind's notifications, no failure leads out of
\* the handler (OrReturn, Chain), no edge is without its ends, and no node is both
\* real and a placeholder, whatever statements of the handlers interleave.
THEOREM TypeCorrect == Spec => []TypeOK
<1>1. QED
    BY BaseAlways, BaseTypes, PTL

(***************************************************************************)
(* No real node of a deleted object unless its deletion is under way.      *)
(***************************************************************************)

\* The deletion of an object waits to be handled.
DeletePending(o) ==
    \E i \in 1..Len(pending[o.kind]) :
        pending[o.kind][i].type = "delete" /\ pending[o.kind][i].obj = o

Doing(o, n) == DeletePending(o) \/ Has(task[o.kind], "DeleteNode", n)

\* A node that the invariant is about.
Left(o, n) == o.kind \in DeletedById /\ ~Exists(o) /\ o \notin missed /\ n \in graph.real

LEMMA ComingIsDoing ==
    ASSUME Shapes, NEW o \in Objects, NEW n
    PROVE  DeleteComing(o, n) <=> Doing(o, n)
<1>1. DOMAIN pending[o.kind] = 1..Len(pending[o.kind]) /\ DOMAIN task[o.kind] = 1..Len(task[o.kind])
    BY ObjectFacts DEF Shapes, IsSeq
<1>2. QED
    BY <1>1 DEF DeleteComing, Doing, DeletePending, Has

LEMMA BackedNow ==
    ASSUME Base, RealNodeBacked, NEW o \in Objects, NEW n \in NodesOf(o), Left(o, n)
    PROVE  Doing(o, n)
BY ComingIsDoing DEF Base, RealNodeBacked, Left

LEMMA BackedPrime ==
    ASSUME Base', \A o \in Objects : \A n \in NodesOf(o) : Left(o, n)' => Doing(o, n)'
    PROVE  RealNodeBacked'
<1> SUFFICES ASSUME NEW o \in Objects, NEW n \in NodesOf(o), Left(o, n)'
             PROVE  DeleteComing(o, n)'
    BY DEF RealNodeBacked, Left, Exists
<1>1. DOMAIN pending'[o.kind] = 1..Len(pending'[o.kind]) /\ DOMAIN task'[o.kind] = 1..Len(task'[o.kind])
    BY ObjectFacts DEF Base, Shapes, IsSeq
<1>2. Doing(o, n)'
    OBVIOUS
<1>3. QED
    BY <1>1, <1>2 DEF DeleteComing, Doing, DeletePending, Has

\* The current notification of an object that is gone is of its deletion.
LEMMA GoneWaits ==
    ASSUME NEW o, ~Exists(o)
    PROVE  Waits(o) => DeletePending(o)
BY DEF Waits, Current, DeletePending

LEMMA GoneWaitsThen ==
    ASSUME NEW o, ~Exists(o)'
    PROVE  Waits(o)' => DeletePending(o)'
BY DEF Waits, Current, DeletePending, Exists

\* The notifications that wait after a step, if none went but the first of a kind.
LEMMA PendingKept ==
    ASSUME NEW o,
           \A i \in 1..Len(pending[o.kind]) :
               \E j \in 1..Len(pending'[o.kind]) : pending'[o.kind][j] = pending[o.kind][i],
           DeletePending(o)
    PROVE  DeletePending(o)'
BY DEF DeletePending

LEMMA PendingSame ==
    ASSUME NEW o, pending'[o.kind] = pending[o.kind]
    PROVE  DeletePending(o)' = DeletePending(o)
BY DEF DeletePending

LEMMA ClusterKeepsBacked ==
    ASSUME Base, Base', RealNodeBacked, ClusterStep PROVE RealNodeBacked'
<1>1. task' = task /\ graph' = graph /\ up' = up
    BY ClusterDoes
<1>2. PICK p \in Objects :
          /\ \A o \in Objects : o # p => cluster'[o] = cluster[o]
          /\ up => Waits(p)'
          /\ \A o \in missed : o \in missed' \/ (o = p /\ cluster'[p] # Absent)
          /\ cluster'[p] = Absent /\ ~up => p \in missed'
          /\ \A o \in Objects : \A i \in 1..Len(pending[o.kind]) :
                 /\ i \in 1..Len(pending'[o.kind])
                 /\ pending'[o.kind][i] = pending[o.kind][i]
    BY ClusterTells
<1>3. ASSUME NEW o \in Objects, NEW n \in NodesOf(o), Left(o, n)'
      PROVE  Doing(o, n)'
    <2>0. o.kind \in DeletedById /\ cluster'[o] = Absent /\ o \notin missed' /\ n \in graph'.real
        BY <1>3 DEF Left, Exists
    <2>1. CASE o = p
        <3>1. Waits(o)'
            BY <1>2, <2>0, <2>1
        <3>2. DeletePending(o)'
            BY <2>0, <3>1, GoneWaitsThen DEF Exists
        <3>3. QED  BY <3>2 DEF Doing
    <2>2. CASE o # p
        <3>1. Left(o, n)
            BY <1>1, <1>2, <2>0, <2>2 DEF Left, Exists
        <3>2. Doing(o, n)
            BY <3>1, BackedNow
        <3>3. DeletePending(o) => DeletePending(o)'
            BY <1>2, PendingKept
        <3>4. Has(task[o.kind], "DeleteNode", n) => Has(task[o.kind], "DeleteNode", n)'
            BY <1>1 DEF Has
        <3>5. QED  BY <3>2, <3>3, <3>4 DEF Doing
    <2>3. QED  BY <2>1, <2>2
<1>4. QED
    BY <1>3, BackedPrime

LEMMA TakeKeepsBacked ==
    ASSUME Base, Base', RealNodeBacked, NEW k \in Kinds, Take(k) PROVE RealNodeBacked'
<1> DEFINE h == pending[k][1]
<1>1. /\ cluster' = cluster /\ missed' = missed /\ graph' = graph /\ task[k] = <<>>
      /\ \A j \in Kinds : j # k => task'[j] = task[j]
    BY TakeDoes
<1>2. \A o \in Objects : \A i \in 1..Len(pending[o.kind]) :
          \/ i = 1 /\ o.kind = k
          \/ \E j \in 1..Len(pending'[o.kind]) : pending'[o.kind][j] = pending[o.kind][i]
    BY TakeTells
<1>3. h.type = "delete" /\ k \notin Misnamed => \A m \in NodesOf(h.obj) : Has(task'[k], "DeleteNode", m)
    BY TakeStarts
<1> HIDE DEF h
<1>4. ASSUME NEW o \in Objects, NEW n \in NodesOf(o), Left(o, n)'
      PROVE  Doing(o, n)'
    <2>1. Left(o, n) /\ o.kind \in DeletedById /\ o.kind \in Kinds
        BY <1>1, <1>4, ObjectFacts DEF Left, Exists
    <2>2. Doing(o, n)
        BY <2>1, BackedNow
    <2>3. CASE DeletePending(o)
        <3>1. PICK i \in 1..Len(pending[o.kind]) :
                  pending[o.kind][i].type = "delete" /\ pending[o.kind][i].obj = o
            BY <2>3 DEF DeletePending
        <3>2. CASE i = 1 /\ o.kind = k
            <4>1. h.type = "delete" /\ h.obj = o
                BY <3>1, <3>2 DEF h
            <4>2. k \notin Misnamed
                BY <2>1, <3>2 DEF DeletedById, Misnamed
            <4>3. Has(task'[k], "DeleteNode", n)
                BY <1>3, <4>1, <4>2
            <4>4. Has(task'[o.kind], "DeleteNode", n)
                BY <3>2, <4>3
            <4>5. QED  BY <4>4 DEF Doing, Has
        <3>3. CASE \E j \in 1..Len(pending'[o.kind]) : pending'[o.kind][j] = pending[o.kind][i]
            <4>1. DeletePending(o)'
                BY <3>1, <3>3 DEF DeletePending
            <4>2. QED  BY <4>1 DEF Doing
        <3>4. QED  BY <1>2, <3>2, <3>3
    <2>4. CASE Has(task[o.kind], "DeleteNode", n)
        <3>1. o.kind # k
            BY <1>1, <2>4, IdleHas
        <3>2. Has(task'[o.kind], "DeleteNode", n)
            BY <1>1, <2>1, <2>4, <3>1
        <3>3. QED  BY <3>2 DEF Doing, Has
    <2>5. QED  BY <2>2, <2>3, <2>4 DEF Doing
<1>5. QED
    BY <1>4, BackedPrime

\* A statement that runs, once or again: a node that it brings back has its
\* object's deletion still waiting.
LEMMA RunBacked ==
    ASSUME Base, RealNodeBacked, NEW k \in Kinds, 1 \in 1..Len(task[k]),
           NEW o \in Objects, NEW n \in NodesOf(o),
           o.kind \in DeletedById, ~Exists(o), o \notin missed, n \in Run(graph, task[k][1]).real
    PROVE  /\ Doing(o, n)
           /\ task[k][1].op = "DeleteNode" => task[k][1].arg # n
<1> DEFINE st == task[k][1]
<1>1. IsGraph(graph) /\ TasksOfKind
    BY DEF Base
<1>2. /\ n \in graph.real \/ (st.op = "UpsertNode" /\ n = st.arg)
      /\ st.op = "DeleteNode" => st.arg \notin Run(graph, st).real
    BY <1>1, RunDoes
<1>3. CASE n \in graph.real
    <2>1. Doing(o, n)
        BY <1>3, BackedNow DEF Left
    <2>2. QED  BY <1>2, <2>1
<1>4. CASE st.op = "UpsertNode" /\ n = st.arg
    <2>1. WritesOnly(k, task[k])
        BY <1>1, <1>4 DEF TasksOfKind, ErasesOnly, Erasing
    <2>2. PICK p \in OfKind[k] : Writes(p, st)
        BY <2>1 DEF WritesOnly, Writing
    <2>3. p \in Objects /\ p.kind = k /\ n \in NodesOf(p)
        BY <1>4, <2>2, KindFacts DEF Writes
    <2>4. p = o
        BY <2>3, ObjectFacts
    <2>5. Has(task[k], "UpsertNode", n)
        BY <1>4 DEF Has
    <2>6. Waits(o)
        BY <2>3, <2>4, <2>5, LateNow DEF Exists
    <2>7. DeletePending(o)
        BY <2>6, GoneWaits
    <2>8. QED  BY <1>4, <2>7 DEF Doing
<1>5. QED
    BY <1>2, <1>3, <1>4

LEMMA ExecuteKeepsBacked ==
    ASSUME Base, Base', RealNodeBacked, NEW k \in Kinds, Execute(k) PROVE RealNodeBacked'
<1>1. /\ cluster' = cluster /\ missed' = missed /\ pending' = pending /\ 1 \in 1..Len(task[k])
      /\ graph' = Run(graph, task[k][1]) /\ \A j \in Kinds : j # k => task'[j] = task[j]
    BY ExecuteDoes
<1>2. ASSUME NEW o \in Objects, NEW n \in NodesOf(o), Left(o, n)'
      PROVE  Doing(o, n)'
    <2>1. /\ o.kind \in DeletedById /\ ~Exists(o) /\ o \notin missed
          /\ n \in Run(graph, task[k][1]).real /\ o.kind \in Kinds
        BY <1>1, <1>2, ObjectFacts DEF Left, Exists
    <2>2. Doing(o, n) /\ (task[k][1].op = "DeleteNode" => task[k][1].arg # n)
        BY <1>1, <2>1, RunBacked
    <2>3. DeletePending(o) => DeletePending(o)'
        BY <1>1, PendingSame
    <2>4. Has(task[o.kind], "DeleteNode", n) => Has(task'[o.kind], "DeleteNode", n)
        <3>1. CASE o.kind = k
            BY <2>2, <3>1, ExecuteLeaves
        <3>2. CASE o.kind # k
            BY <1>1, <2>1, <3>2
        <3>3. QED  BY <3>1, <3>2
    <2>5. QED  BY <2>2, <2>3, <2>4 DEF Doing, Has
<1>3. QED
    BY <1>2, BackedPrime

LEMMA RepeatKeepsBacked ==
    ASSUME Base, Base', RealNodeBacked, NEW k \in Kinds, Repeat(k) PROVE RealNodeBacked'
<1>1. /\ cluster' = cluster /\ missed' = missed /\ pending' = pending /\ task' = task
      /\ 1 \in 1..Len(task[k]) /\ graph' = Run(graph, task[k][1])
    BY RepeatDoes
<1>2. ASSUME NEW o \in Objects, NEW n \in NodesOf(o), Left(o, n)'
      PROVE  Doing(o, n)'
    <2>1. /\ o.kind \in DeletedById /\ ~Exists(o) /\ o \notin missed
          /\ n \in Run(graph, task[k][1]).real
        BY <1>1, <1>2 DEF Left, Exists
    <2>2. Doing(o, n)
        BY <1>1, <2>1, RunBacked
    <2>3. QED  BY <1>1, <2>2 DEF Doing, DeletePending, Has
<1>3. QED
    BY <1>2, BackedPrime

LEMMA GiveUpKeepsBacked ==
    ASSUME Base, Base', RealNodeBacked, NEW k \in Kinds, GiveUp(k) PROVE RealNodeBacked'
<1>1. /\ cluster' = cluster /\ pending' = pending /\ 1 \in 1..Len(task[k])
      /\ graph' \in {graph, Run(graph, task[k][1])}
      /\ \A j \in Kinds : j # k => task'[j] = task[j]
      /\ missed \subseteq missed'
      /\ task[k][1].op = "DeleteNode" =>
             \A o \in Objects : ~Exists(o) /\ task[k][1].arg \in NodesOf(o) => o \in missed'
    BY GiveUpDoes
<1>2. ASSUME NEW o \in Objects, NEW n \in NodesOf(o), Left(o, n)'
      PROVE  Doing(o, n)'
    <2>1. /\ o.kind \in DeletedById /\ ~Exists(o) /\ o \notin missed /\ o \notin missed'
          /\ n \in graph.real \/ n \in Run(graph, task[k][1]).real
          /\ o.kind \in Kinds
        BY <1>1, <1>2, ObjectFacts DEF Left, Exists
    <2>2. Doing(o, n)
        <3>1. CASE n \in graph.real
            BY <2>1, <3>1, BackedNow DEF Left
        <3>2. CASE n \in Run(graph, task[k][1]).real
            BY <1>1, <2>1, <3>2, RunBacked
        <3>3. QED  BY <2>1, <3>1, <3>2
    <2>3. DeletePending(o) => DeletePending(o)'
        BY <1>1, PendingSame
    <2>4. ASSUME Has(task[o.kind], "DeleteNode", n) PROVE Has(task'[o.kind], "DeleteNode", n)
        <3>1. CASE o.kind # k
            BY <1>1, <2>1, <2>4, <3>1
        <3>2. CASE o.kind = k
            <4>1. ~WritesOnly(k, task[k])
                BY <2>4, <3>2 DEF Has, WritesOnly, Writing, Writes
            <4>2. Erasing(k, task[k][1])
                BY <1>1, <4>1 DEF Base, TasksOfKind, ErasesOnly
            <4>3. task[k][1].op = "DeleteNode" /\ task[k][1].skip = 0
                BY <4>2 DEF Erasing
            <4>4. task[k][1].arg # n
                BY <1>1, <2>1, <4>3
            <4>5. QED  BY <2>4, <3>2, <4>3, <4>4, GiveUpLeaves
        <3>3. QED  BY <3>1, <3>2
    <2>5. QED  BY <2>2, <2>3, <2>4 DEF Doing, Has
<1>3. QED
    BY <1>2, BackedPrime

LEMMA CrashKeepsBacked ==
    ASSUME Base, Base', RealNodeBacked, Crash PROVE RealNodeBacked'
<1>1. ASSUME NEW o \in Objects, NEW n \in NodesOf(o), Left(o, n)'
      PROVE  FALSE
    <2>1. cluster' = cluster /\ graph' = graph /\ missed' = missed \union Doomed
        BY DEF Crash
    <2>2. Left(o, n) /\ ~Exists(o) /\ o \notin Doomed
        BY <1>1, <2>1 DEF Left, Exists
    <2>3. DeleteComing(o, n)
        BY <2>2, BackedNow, ComingIsDoing DEF Base
    <2>4. QED  BY <2>2, <2>3 DEF Doomed
<1>2. QED
    BY <1>1, BackedPrime

LEMMA RestartKeepsBacked ==
    ASSUME Base, Base', RealNodeBacked, Restart PROVE RealNodeBacked'
<1>1. /\ cluster' = cluster /\ graph' = graph /\ missed' = missed
      /\ \A k \in Kinds : pending[k] = <<>> /\ task[k] = <<>>
    BY RestartDoes
<1>2. ASSUME NEW o \in Objects, NEW n \in NodesOf(o), Left(o, n)'
      PROVE  FALSE
    <2>1. Left(o, n)
        BY <1>1, <1>2 DEF Left, Exists
    <2>2. Doing(o, n) /\ pending[o.kind] = <<>> /\ task[o.kind] = <<>>
        BY <1>1, <2>1, BackedNow, ObjectFacts
    <2>3. ~DeletePending(o)
        BY <2>2 DEF DeletePending
    <2>4. QED  BY <2>2, <2>3, IdleHas DEF Doing
<1>3. QED
    BY <1>2, BackedPrime

LEMMA ResyncKeepsBacked ==
    ASSUME Base, Base', RealNodeBacked, NEW k \in Kinds, Resync(k) PROVE RealNodeBacked'
<1>1. /\ cluster' = cluster /\ graph' = graph /\ missed' = missed /\ task' = task
      /\ pending[k] = <<>> /\ \A j \in Kinds : j # k => pending'[j] = pending[j]
    BY ResyncDoes
<1>2. ASSUME NEW o \in Objects, NEW n \in NodesOf(o), Left(o, n)'
      PROVE  Doing(o, n)'
    <2>1. Left(o, n) /\ o.kind \in Kinds
        BY <1>1, <1>2, ObjectFacts DEF Left, Exists
    <2>2. Doing(o, n)
        BY <2>1, BackedNow
    <2>3. DeletePending(o) => DeletePending(o)'
        <3>1. CASE o.kind = k
            BY <1>1, <3>1 DEF DeletePending
        <3>2. CASE o.kind # k
            BY <1>1, <2>1, <3>2, PendingSame
        <3>3. QED  BY <3>1, <3>2
    <2>4. QED  BY <1>1, <2>2, <2>3 DEF Doing, Has
<1>3. QED
    BY <1>2, BackedPrime

LEMMA GraphStepKeepsBacked ==
    ASSUME Base', RealNodeBacked, UNCHANGED <<cluster, pending, task, missed>>,
           graph'.real = graph.real
    PROVE  RealNodeBacked'
BY DEF RealNodeBacked, DeleteComing, Exists

LEMMA NextKeepsBacked == Base /\ Base' /\ RealNodeBacked /\ [Next]_vars => RealNodeBacked'
<1> SUFFICES ASSUME Base, Base', RealNodeBacked, [Next]_vars PROVE RealNodeBacked'
    OBVIOUS
<1>1. CASE ClusterStep
    BY <1>1, ClusterKeepsBacked
<1>2. CASE \E k \in Kinds : HandlerStep(k) \/ Repeat(k) \/ GiveUp(k) \/ Resync(k)
    BY <1>2, TakeKeepsBacked, ExecuteKeepsBacked, RepeatKeepsBacked, GiveUpKeepsBacked,
       ResyncKeepsBacked
    DEF HandlerStep
<1>3. CASE Cleanup
    <2>1. /\ UNCHANGED <<cluster, pending, task, missed>>
          /\ graph' = CleanupOrphanedPlaceholders(graph)
        BY <1>3 DEF Cleanup
    <2>2. graph'.real = graph.real
        BY <2>1, CleanupDoes DEF Base
    <2>3. QED  BY <2>1, <2>2, GraphStepKeepsBacked
<1>4. CASE Crash
    BY <1>4, CrashKeepsBacked
<1>5. CASE Restart
    BY <1>5, RestartKeepsBacked
<1>6. CASE UNCHANGED vars
    <2>1. UNCHANGED <<cluster, pending, task, missed>> /\ graph' = graph
        BY <1>6 DEF vars
    <2>2. QED  BY <2>1, GraphStepKeepsBacked
<1>7. QED
    BY <1>1, <1>2, <1>3, <1>4, <1>5, <1>6 DEF Next

\* Whatever the handlers of other kinds write in between, no real node is left of an
\* object that is gone whose deletion is not still under way (HandleDelete), unless
\* the watcher was down, the delete statement failed, or the kind is one of the five
\* whose HandleDelete names the node by something else than its id.
THEOREM RealNodesBacked == Spec => []RealNodeBacked
<1>1. Init => RealNodeBacked
    BY DEF Init, EmptyGraph, RealNodeBacked
<1>2. QED
    BY <1>1, InitBase, NextKeepsBase, NextKeepsBacked, PTL DEF Spec

(***************************************************************************)
(* Every node of every object, once the handlers have caught up.           *)
(***************************************************************************)

\* A node of an object that exists is there, about to be written, or waits.
Coming(o, n) == n \in graph.real \/ Has(task[o.kind], "UpsertNode", n) \/ Waits(o)

LEMMA NodesPrime ==
    ASSUME up' /\ ~lossy' =>
               \A o \in Objects : cluster'[o] # Absent => \A n \in NodesOf(o) : Coming(o, n)'
    PROVE  NodesComing'
BY DEF NodesComing, Coming, Exists

LEMMA NodesNow ==
    ASSUME NodesComing, up, ~lossy, NEW o \in Objects, cluster[o] # Absent, NEW n \in NodesOf(o)
    PROVE  Coming(o, n)
BY DEF NodesComing, Coming, Exists

LEMMA ClusterKeepsNodes == ASSUME Base, NodesComing, ClusterStep PROVE NodesComing'
<1>1. task' = task /\ graph' = graph /\ up' = up /\ lossy' = lossy
    BY ClusterDoes
<1>2. PICK p \in Objects :
          /\ \A o \in Objects : o # p => cluster'[o] = cluster[o]
          /\ up => Waits(p)'
          /\ \A o \in Objects : o # p /\ Waits(o) => Waits(o)'
    BY ClusterTells
<1>3. ASSUME up', ~lossy', NEW o \in Objects, cluster'[o] # Absent, NEW n \in NodesOf(o)
      PROVE  Coming(o, n)'
    <2>1. CASE o = p
        BY <1>1, <1>2, <1>3, <2>1 DEF Coming
    <2>2. CASE o # p
        <3>1. Coming(o, n)
            BY <1>1, <1>2, <1>3, <2>2, NodesNow
        <3>2. Has(task[o.kind], "UpsertNode", n) => Has(task[o.kind], "UpsertNode", n)'
            BY <1>1 DEF Has
        <3>3. QED  BY <1>1, <1>2, <2>2, <3>1, <3>2 DEF Coming
    <2>3. QED  BY <2>1, <2>2
<1>4. QED
    BY <1>3, NodesPrime

LEMMA TakeKeepsNodes == ASSUME Base, NodesComing, NEW k \in Kinds, Take(k) PROVE NodesComing'
<1> DEFINE h == pending[k][1]
<1>1. /\ UNCHANGED <<cluster, up, graph, lossy>> /\ task[k] = <<>>
      /\ \A j \in Kinds : j # k => task'[j] = task[j]
    BY TakeDoes
<1>2. \A o \in Objects : Waits(o) => Waits(o)' \/ (h.obj = o /\ Current(o, h))
    BY TakeTells
<1>3. /\ h.obj.kind = k
      /\ h.type # "delete" => \A m \in NodesOf(h.obj) : Has(task'[k], "UpsertNode", m)
    BY TakeStarts
<1> HIDE DEF h
<1>4. ASSUME up', ~lossy', NEW o \in Objects, cluster'[o] # Absent, NEW n \in NodesOf(o)
      PROVE  Coming(o, n)'
    <2>1. Coming(o, n) /\ cluster[o] # Absent /\ o.kind \in Kinds
        BY <1>1, <1>4, NodesNow, ObjectFacts
    <2>2. CASE n \in graph.real
        BY <1>1, <2>2 DEF Coming
    <2>3. CASE Has(task[o.kind], "UpsertNode", n)
        <3>1. o.kind # k
            BY <1>1, <2>3, IdleHas
        <3>2. Has(task'[o.kind], "UpsertNode", n)
            BY <1>1, <2>1, <2>3, <3>1
        <3>3. QED  BY <3>2 DEF Coming, Has
    <2>4. CASE h.obj = o /\ Current(o, h)
        <3>1. h.type # "delete"
            BY <2>1, <2>4 DEF Current, Exists
        <3>2. Has(task'[o.kind], "UpsertNode", n)
            BY <1>3, <2>4, <3>1
        <3>3. QED  BY <3>2 DEF Coming, Has
    <2>5. CASE Waits(o)'
        BY <2>5 DEF Coming
    <2>6. QED  BY <1>2, <2>1, <2>2, <2>3, <2>4, <2>5 DEF Coming
<1>5. QED
    BY <1>4, NodesPrime

\* A statement that runs, once or again, takes away no node of an object that
\* exists but one that a waiting notification brings back.
LEMMA RunLoses ==
    ASSUME Base, NEW k \in Kinds, 1 \in 1..Len(task[k]),
           NEW o \in Objects, cluster[o] # Absent, NEW n \in NodesOf(o), n \in graph.real
    PROVE  n \in Run(graph, task[k][1]).real \/ Waits(o)
<1> DEFINE st == task[k][1]
<1>1. IsGraph(graph) /\ TasksOfKind
    BY DEF Base
<1>2. CASE st.op = "DeleteNode" /\ n = st.arg
    <2>1. ErasesOnly(k, task[k])
        BY <1>1, <1>2 DEF TasksOfKind, WritesOnly, Writing, Writes
    <2>2. o.kind = k
        BY <1>2, <2>1 DEF ErasesOnly, Erasing
    <2>3. Has(task[o.kind], "DeleteNode", n)
        BY <1>2, <2>2 DEF Has
    <2>4. QED  BY <2>3, LateNow
<1>3. CASE ~(st.op = "DeleteNode" /\ n = st.arg)
    BY <1>1, <1>3, RunDoes
<1>4. QED
    BY <1>2, <1>3

LEMMA ExecuteKeepsNodes == ASSUME Base, NodesComing, NEW k \in Kinds, Execute(k) PROVE NodesComing'
<1>1. /\ UNCHANGED <<cluster, up, pending, lossy>> /\ 1 \in 1..Len(task[k])
      /\ graph' = Run(graph, task[k][1]) /\ \A j \in Kinds : j # k => task'[j] = task[j]
    BY ExecuteDoes
<1>2. ASSUME up', ~lossy', NEW o \in Objects, cluster'[o] # Absent, NEW n \in NodesOf(o)
      PROVE  Coming(o, n)'
    <2>1. Coming(o, n) /\ cluster[o] # Absent /\ o.kind \in Kinds
        BY <1>1, <1>2, NodesNow, ObjectFacts
    <2>2. Waits(o) => Waits(o)'
        BY <1>1, WaitsSame
    <2>3. CASE n \in graph.real
        BY <1>1, <2>1, <2>2, <2>3, RunLoses DEF Coming
    <2>4. CASE Has(task[o.kind], "UpsertNode", n)
        <3>1. CASE o.kind = k /\ ~Has(task'[k], "UpsertNode", n)
            <4>1. task[k][1].op = "UpsertNode" /\ task[k][1].arg = n
                BY <2>4, <3>1, ExecuteLeaves
            <4>2. n \in graph'.real
                BY <1>1, <4>1, RunDoes DEF Base
            <4>3. QED  BY <4>2 DEF Coming
        <3>2. CASE Has(task'[o.kind], "UpsertNode", n)
            BY <3>2 DEF Coming, Has
        <3>3. QED  BY <1>1, <2>1, <2>4, <3>1, <3>2
    <2>5. QED  BY <2>1, <2>2, <2>3, <2>4 DEF Coming
<1>3. QED
    BY <1>2, NodesPrime

LEMMA RepeatKeepsNodes == ASSUME Base, NodesComing, NEW k \in Kinds, Repeat(k) PROVE NodesComing'
<1>1. /\ UNCHANGED <<cluster, up, pending, task, lossy>> /\ 1 \in 1..Len(task[k])
      /\ graph' = Run(graph, task[k][1])
    BY RepeatDoes
<1>2. ASSUME up', ~lossy', NEW o \in Objects, cluster'[o] # Absent, NEW n \in NodesOf(o)
      PROVE  Coming(o, n)'
    <2>1. Coming(o, n) /\ cluster[o] # Absent
        BY <1>1, <1>2, NodesNow
    <2>2. Waits(o) => Waits(o)'
        BY <1>1, WaitsSame
    <2>3. n \in graph.real => n \in graph'.real \/ Waits(o)
        BY <1>1, <2>1, RunLoses
    <2>4. Has(task[o.kind], "UpsertNode", n) => Has(task[o.kind], "UpsertNode", n)'
        BY <1>1 DEF Has
    <2>5. QED  BY <2>1, <2>2, <2>3, <2>4 DEF Coming
<1>3. QED
    BY <1>2, NodesPrime

LEMMA RestartKeepsNodes == ASSUME Base, Restart PROVE NodesComing'
<1>1. UNCHANGED cluster /\ \A k \in Kinds : Lists(k, pending'[k])
    BY RestartDoes
<1>2. ASSUME NEW o \in Objects, cluster'[o] # Absent, NEW n \in NodesOf(o)
      PROVE  Coming(o, n)'
    <2>1. Waits(o)'
        BY <1>1, <1>2, FilledTells, ObjectFacts DEF Exists
    <2>2. QED  BY <2>1 DEF Coming
<1>3. QED
    BY <1>2, NodesPrime

\* After a resync every object of the kind waits, and the others wait as they did.
LEMMA ResyncWaits ==
    ASSUME Base, NEW k \in Kinds, Resync(k), NEW o \in Objects, cluster[o] # Absent
    PROVE  /\ Waits(o) => Waits(o)'
           /\ o.kind = k => Waits(o)'
<1>1. UNCHANGED cluster /\ Lists(k, pending'[k]) /\ \A j \in Kinds : j # k => pending'[j] = pending[j]
    BY ResyncDoes
<1>2. ASSUME o.kind = k PROVE Waits(o)'
    BY <1>1, <1>2, FilledTells DEF Exists
<1>3. ASSUME o.kind # k, Waits(o) PROVE Waits(o)'
    <2>1. pending'[o.kind] = pending[o.kind]
        BY <1>1, <1>3, ObjectFacts
    <2>2. QED  BY <1>1, <1>3, <2>1, WaitsSame
<1>4. QED
    BY <1>2, <1>3

LEMMA ResyncKeepsNodes == ASSUME Base, NodesComing, NEW k \in Kinds, Resync(k) PROVE NodesComing'
<1>1. UNCHANGED <<cluster, up, task, graph, lossy>>
    BY ResyncDoes
<1>2. ASSUME up', ~lossy', NEW o \in Objects, cluster'[o] # Absent, NEW n \in NodesOf(o)
      PROVE  Coming(o, n)'
    <2>1. Coming(o, n) /\ cluster[o] # Absent
        BY <1>1, <1>2, NodesNow
    <2>2. Waits(o) => Waits(o)'
        BY <2>1, ResyncWaits
    <2>3. QED  BY <1>1, <2>1, <2>2 DEF Coming, Has
<1>3. QED
    BY <1>2, NodesPrime

LEMMA GraphStepKeepsNodes ==
    ASSUME NodesComing, UNCHANGED <<cluster, up, pending, task, lossy>>, graph'.real = graph.real
    PROVE  NodesComing'
BY DEF NodesComing, Waits, Current, Exists, Has

LEMMA NextKeepsNodes == Base /\ NodesComing /\ [Next]_vars => NodesComing'
<1> SUFFICES ASSUME Base, NodesComing, [Next]_vars PROVE NodesComing'
    OBVIOUS
<1>1. CASE ClusterStep
    BY <1>1, ClusterKeepsNodes
<1>2. CASE \E k \in Kinds : HandlerStep(k) \/ Repeat(k) \/ GiveUp(k) \/ Resync(k)
    <2>1. PICK k \in Kinds : HandlerStep(k) \/ Repeat(k) \/ GiveUp(k) \/ Resync(k)
        BY <1>2
    <2>2. CASE GiveUp(k)
        <3>1. lossy'
            BY <2>2, GiveUpDoes
        <3>2. QED  BY <3>1, NodesPrime
    <2>3. QED
        BY <2>1, <2>2, TakeKeepsNodes, ExecuteKeepsNodes, RepeatKeepsNodes, ResyncKeepsNodes
        DEF HandlerStep
<1>3. CASE Cleanup
    <2>1. /\ UNCHANGED <<cluster, up, pending, task, lossy>>
          /\ graph' = CleanupOrphanedPlaceholders(graph)
        BY <1>3 DEF Cleanup
    <2>2. graph'.real = graph.real
        BY <2>1, CleanupDoes DEF Base
    <2>3. QED  BY <2>1, <2>2, GraphStepKeepsNodes
<1>4. CASE Crash
    <2>1. ~up'
        BY <1>4 DEF Crash
    <2>2. QED  BY <2>1, NodesPrime
<1>5. CASE Restart
    BY <1>5, RestartKeepsNodes
<1>6. CASE UNCHANGED vars
    <2>1. UNCHANGED <<cluster, up, pending, task, lossy>> /\ graph' = graph
        BY <1>6 DEF vars
    <2>2. QED  BY <2>1, GraphStepKeepsNodes
<1>7. QED
    BY <1>1, <1>2, <1>3, <1>4, <1>5, <1>6 DEF Next

\* What the informers list first, every object waits to be told of.
LEMMA InitWaits == ASSUME Init, NEW o \in Objects, cluster[o] # Absent PROVE Waits(o)
<1>1. \A p \in Objects : cluster[p] \in Specs[p] \union {Absent}
    BY SyncAssumption DEF Init
<1>2. o.kind \in Kinds /\ pending[o.kind] = ForEach(o.kind, "add")
    BY ObjectFacts DEF Init
<1>3. Lists(o.kind, pending[o.kind])
    BY <1>1, <1>2, ForEachTells
<1>4. o \in Existing(o.kind)
    BY <1>2, KindFacts DEF Existing, Exists
<1>5. QED
    BY <1>3, <1>4 DEF Lists, Waits

\* A handler that has caught up has nothing to tell and nothing to do.
LEMMA QuietHas ==
    ASSUME Quiet, NEW o \in Objects
    PROVE  ~Waits(o) /\ \A op, arg : ~Has(task[o.kind], op, arg)
<1>1. pending[o.kind] = <<>> /\ task[o.kind] = <<>>
    BY ObjectFacts DEF Quiet
<1>2. ~Waits(o)
    BY <1>1 DEF Waits
<1>3. QED
    BY <1>1, <1>2, IdleHas

\* When the handlers have caught up and none of their statements failed, no object
\* lacks a node: no deletion overtaken by the object's return, no placeholder that
\* an edge made first, no listing and no crash leaves one out.
THEOREM NodesAreComplete == Spec => []NodesComplete
<1>1. Init => NodesComing
    BY InitWaits DEF NodesComing, Exists
<1>2. NodesComing => NodesComplete
    <2> SUFFICES ASSUME NodesComing, Quiet, ~lossy, NEW o \in Objects, Exists(o), NEW n \in NodesOf(o)
                 PROVE  n \in graph.real
        BY DEF NodesComplete
    <2>1. Coming(o, n)
        BY NodesNow DEF Quiet, Exists
    <2>2. QED  BY <2>1, QuietHas DEF Coming
<1>3. QED
    BY <1>1, <1>2, InitBase, NextKeepsBase, NextKeepsNodes, PTL DEF Spec

(***************************************************************************)
(* Every edge of a Service to a Pod it selects, once the handlers have     *)
(* caught up.                                                              *)
(***************************************************************************)

LEMMA DropsPrime ==
    ASSUME \A s \in Objects :
               s.kind = "Service" /\ cluster'[s] # Absent /\ cluster'[s].selector # {} =>
                   Waits(s)' \/ Follows(s, cluster'[s].selector, task'["Service"])
    PROVE  DropsAreFollowed'
BY ServiceAndPod DEF DropsAreFollowed, Existing, Exists, Follows

LEMMA DropsNow ==
    ASSUME DropsAreFollowed,
           NEW s \in Objects, s.kind = "Service", cluster[s] # Absent, cluster[s].selector # {}
    PROVE  Waits(s) \/ Follows(s, cluster[s].selector, task["Service"])
BY ServiceAndPod DEF DropsAreFollowed, Existing, Exists

LEMMA EmptyFollows == ASSUME NEW s, NEW sel PROVE Follows(s, sel, <<>>)
BY DEF Follows

LEMMA ClusterKeepsDrops == ASSUME Base, DropsAreFollowed, ClusterStep PROVE DropsAreFollowed'
<1>1. task' = task
    BY ClusterDoes
<1>2. PICK p \in Objects :
          /\ \A o \in Objects : o # p => cluster'[o] = cluster[o]
          /\ up => Waits(p)'
          /\ \A o \in Objects : o # p /\ Waits(o) => Waits(o)'
    BY ClusterTells
<1>3. ASSUME NEW s \in Objects, s.kind = "Service", cluster'[s] # Absent, cluster'[s].selector # {}
      PROVE  Waits(s)' \/ Follows(s, cluster'[s].selector, task'["Service"])
    <2>1. CASE ~up
        <3>1. task'["Service"] = <<>>
            BY <1>1, <1>3, <2>1, ObjectFacts DEF Base, DownIsIdle
        <3>2. QED  BY <3>1, EmptyFollows
    <2>2. CASE up /\ s = p
        BY <1>2, <2>2
    <2>3. CASE s # p
        BY <1>1, <1>2, <1>3, <2>3, DropsNow
    <2>4. QED  BY <2>1, <2>2, <2>3
<1>4. QED
    BY <1>3, DropsPrime

LEMMA TakeKeepsDrops ==
    ASSUME Base, DropsAreFollowed, NEW k \in Kinds, Take(k) PROVE DropsAreFollowed'
<1> DEFINE h == pending[k][1]
<1>1. /\ UNCHANGED cluster /\ task[k] = <<>>
      /\ \A j \in Kinds : j # k => task'[j] = task[j] /\ pending'[j] = pending[j]
    BY TakeDoes
<1>2. \A o \in Objects : h.obj = o => Waits(o)' \/ Current(o, h)
    BY TakeTells
<1>3. /\ h.obj \in Objects /\ h.obj.kind = k
      /\ h.type = "delete" => ErasesOnly(k, task'[k])
      /\ h.type # "delete" => \A i \in 1..Len(task'[k]) : Writes(h.obj, task'[k][i])
    BY TakeStarts
<1>4. h.type # "delete" /\ k = "Service" /\ h.spec.selector # {} =>
          DropsFirst(task'[k], "ListPods", PodsArg(h.obj, h.spec.selector))
    BY TakeStarts
<1> HIDE DEF h
<1>5. ASSUME NEW s \in Objects, s.kind = "Service", cluster'[s] # Absent, cluster'[s].selector # {}
      PROVE  Waits(s)' \/ Follows(s, cluster'[s].selector, task'["Service"])
    <2>1. Waits(s) \/ Follows(s, cluster[s].selector, task["Service"])
        BY <1>1, <1>5, DropsNow
    <2>2. CASE k # "Service"
        <3>1. "Service" \in Kinds
            BY <1>5, ObjectFacts
        <3>2. Waits(s)' = Waits(s)
            BY <1>1, <1>5, <2>2, <3>1, WaitsSame
        <3>3. QED  BY <1>1, <2>1, <2>2, <3>1, <3>2
    <2>3. CASE k = "Service" /\ h.type = "delete"
        BY <1>3, <2>3 DEF ErasesOnly, Erasing, Follows
    <2>4. CASE k = "Service" /\ h.type # "delete" /\ h.obj = s
        <3>1. ASSUME ~Waits(s)' PROVE Follows(s, cluster'[s].selector, task'[k])
            <4>1. Current(s, h)
                BY <1>2, <2>4, <3>1
            <4>2. h.spec = cluster'[s]
                BY <1>1, <1>5, <4>1 DEF Current, Exists
            <4>3. DropsFirst(task'[k], "ListPods", PodsArg(s, cluster'[s].selector))
                BY <1>5, <1>4, <2>4, <4>2
            <4>4. QED  BY <4>3 DEF DropsFirst, Follows
        <3>2. QED  BY <2>4, <3>1
    <2>5. CASE k = "Service" /\ h.type # "delete" /\ h.obj # s
        <3>1. ASSUME NEW i \in 1..Len(task'[k]), task'[k][i].op = "DeleteEdgesByTypeAndNode"
              PROVE  task'[k][i].arg[1] # NodeFor(s)
            <4>1. task'[k][i].arg[1] = NodeFor(h.obj)
                BY <1>3, <2>5, <3>1 DEF Writes
            <4>2. NodeFor(s) # NodeFor(h.obj)
                BY <1>3, <2>5, ObjectFacts, OwnNode
            <4>3. QED  BY <4>1, <4>2
        <3>2. QED  BY <2>5, <3>1 DEF Follows
    <2>6. QED  BY <2>2, <2>3, <2>4, <2>5
<1>6. QED
    BY <1>5, DropsPrime

LEMMA ExecuteFollows ==
    ASSUME Base, NEW k \in Kinds, Execute(k), NEW s, NEW sel, Follows(s, sel, task[k])
    PROVE  Follows(s, sel, task'[k])
<1>1. PICK q \in Followers(task[k][1]) :
          /\ EdgesOnly(q) /\ Len(q) \in Nat
          /\ Len(task'[k]) = Len(q) + (Len(task[k]) - 1)
          /\ \A i \in 2..Len(task[k]) : task'[k][Len(q) + (i - 1)] = task[k][i]
          /\ \A i \in 1..Len(task'[k]) :
                 \/ i \in 1..Len(q) /\ task'[k][i] = q[i]
                 \/ /\ i - Len(q) + 1 \in 2..Len(task[k])
                    /\ task'[k][i] = task[k][i - Len(q) + 1]
    BY ExecuteDoes
<1>2. Len(task[k]) \in Nat
    BY ExecuteDoes
<1>3. ASSUME NEW i \in 1..Len(task'[k]), task'[k][i].op = "DeleteEdgesByTypeAndNode",
             task'[k][i].arg[1] = NodeFor(s)
      PROVE  \E j \in i + 1..Len(task'[k]) :
                 task'[k][j].op = "ListPods" /\ task'[k][j].arg = PodsArg(s, sel)
    <2>1. ~(i \in 1..Len(q) /\ task'[k][i] = q[i])
        BY <1>1, <1>3 DEF EdgesOnly
    <2>2. PICK l : l = i - Len(q) + 1 /\ l \in 2..Len(task[k]) /\ task'[k][i] = task[k][l]
        BY <1>1, <2>1
    <2>3. l \in 1..Len(task[k])
        BY <1>2, <2>2
    <2>4. PICK j \in l + 1..Len(task[k]) : task[k][j].op = "ListPods" /\ task[k][j].arg = PodsArg(s, sel)
        BY <1>3, <2>2, <2>3 DEF Follows
    <2>5. j \in 2..Len(task[k]) /\ Len(q) + (j - 1) \in i + 1..Len(task'[k])
        BY <1>1, <1>2, <2>2, <2>4
    <2>6. task'[k][Len(q) + (j - 1)] = task[k][j]
        BY <1>1, <2>5
    <2>7. QED  BY <2>4, <2>5, <2>6
<1>4. QED
    BY <1>3 DEF Follows

LEMMA GiveUpFollows ==
    ASSUME Base, NEW k \in Kinds, GiveUp(k), NEW s, NEW sel, Follows(s, sel, task[k])
    PROVE  Follows(s, sel, task'[k])
<1>1. PICK m \in Nat :
          /\ Len(task[k]) \in Nat /\ m <= Len(task[k]) /\ Len(task'[k]) = Len(task[k]) - m
          /\ \A i \in 1..Len(task[k]) - m : task'[k][i] = task[k][m + i]
    <2>1. /\ Len(task[k]) \in Nat /\ task[k][1].skip \in Nat /\ 1 + task[k][1].skip <= Len(task[k])
          /\ Len(task'[k]) = Len(task[k]) - (1 + task[k][1].skip)
          /\ \A i \in 1..Len(task[k]) - (1 + task[k][1].skip) :
                 task'[k][i] = task[k][1 + task[k][1].skip + i]
        BY GiveUpDoes
    <2>2. 1 + task[k][1].skip \in Nat
        BY <2>1
    <2>3. QED  BY <2>1, <2>2
<1>2. ASSUME NEW i \in 1..Len(task'[k]), task'[k][i].op = "DeleteEdgesByTypeAndNode",
             task'[k][i].arg[1] = NodeFor(s)
      PROVE  \E j \in i + 1..Len(task'[k]) :
                 task'[k][j].op = "ListPods" /\ task'[k][j].arg = PodsArg(s, sel)
    <2>1. m + i \in 1..Len(task[k]) /\ task'[k][i] = task[k][m + i]
        BY <1>1
    <2>2. PICK j \in m + i + 1..Len(task[k]) :
              task[k][j].op = "ListPods" /\ task[k][j].arg = PodsArg(s, sel)
        BY <1>2, <2>1 DEF Follows
    <2>3. PICK l : l = j - m /\ l \in i + 1..Len(task'[k]) /\ l \in 1..Len(task[k]) - m /\ m + l = j
        BY <1>1, <2>2
    <2>4. task'[k][l] = task[k][j]
        BY <1>1, <2>3
    <2>5. QED  BY <2>2, <2>3, <2>4
<1>3. QED
    BY <1>2 DEF Follows

\* A step of a handler that leaves the drops of its kind followed.
LEMMA TaskKeepsDrops ==
    ASSUME DropsAreFollowed, NEW k \in Kinds, UNCHANGED <<cluster, pending>>,
           \A j \in Kinds : j # k => task'[j] = task[j],
           \A s, sel : Follows(s, sel, task[k]) => Follows(s, sel, task'[k])
    PROVE  DropsAreFollowed'
<1>1. ASSUME NEW s \in Objects, s.kind = "Service", cluster'[s] # Absent, cluster'[s].selector # {}
      PROVE  Waits(s)' \/ Follows(s, cluster'[s].selector, task'["Service"])
    <2>1. Waits(s) \/ Follows(s, cluster[s].selector, task["Service"])
        BY <1>1, DropsNow
    <2>2. "Service" \in Kinds /\ Waits(s)' = Waits(s)
        BY <1>1, ObjectFacts, WaitsSame
    <2>3. CASE k = "Service"
        BY <2>1, <2>2, <2>3
    <2>4. CASE k # "Service"
        BY <2>1, <2>2, <2>4
    <2>5. QED  BY <2>3, <2>4
<1>2. QED
    BY <1>1, DropsPrime

LEMMA IdleKeepsDrops ==
    ASSUME \A k \in Kinds : task'[k] = <<>> PROVE DropsAreFollowed'
<1>1. ASSUME NEW s \in Objects, s.kind = "Service"
      PROVE  Follows(s, cluster'[s].selector, task'["Service"])
    BY <1>1, ObjectFacts, EmptyFollows
<1>2. QED
    BY <1>1, DropsPrime

LEMMA ResyncKeepsDrops ==
    ASSUME Base, DropsAreFollowed, NEW k \in Kinds, Resync(k) PROVE DropsAreFollowed'
<1>1. UNCHANGED <<cluster, task>>
    BY ResyncDoes
<1>2. ASSUME NEW s \in Objects, s.kind = "Service", cluster'[s] # Absent, cluster'[s].selector # {}
      PROVE  Waits(s)' \/ Follows(s, cluster'[s].selector, task'["Service"])
    <2>1. Waits(s) \/ Follows(s, cluster[s].selector, task["Service"])
        BY <1>1, <1>2, DropsNow
    <2>2. Waits(s) => Waits(s)'
        BY <1>1, <1>2, ResyncWaits
    <2>3. QED  BY <1>1, <2>1, <2>2
<1>3. QED
    BY <1>2, DropsPrime

LEMMA NextKeepsDrops == Base /\ DropsAreFollowed /\ [Next]_vars => DropsAreFollowed'
<1> SUFFICES ASSUME Base, DropsAreFollowed, [Next]_vars PROVE DropsAreFollowed'
    OBVIOUS
<1>1. CASE ClusterStep
    BY <1>1, ClusterKeepsDrops
<1>2. CASE \E k \in Kinds : HandlerStep(k) \/ Repeat(k) \/ GiveUp(k) \/ Resync(k)
    <2>1. PICK k \in Kinds : Take(k) \/ Execute(k) \/ Repeat(k) \/ GiveUp(k) \/ Resync(k)
        BY <1>2 DEF HandlerStep
    <2>2. CASE Execute(k)
        <3>1. UNCHANGED <<cluster, pending>> /\ \A j \in Kinds : j # k => task'[j] = task[j]
            BY <2>2, ExecuteDoes
        <3>2. \A s, sel : Follows(s, sel, task[k]) => Follows(s, sel, task'[k])
            BY <2>2, ExecuteFollows
        <3>3. QED  BY <3>1, <3>2, TaskKeepsDrops
    <2>3. CASE GiveUp(k)
        <3>1. UNCHANGED <<cluster, pending>> /\ \A j \in Kinds : j # k => task'[j] = task[j]
            BY <2>3, GiveUpDoes
        <3>2. \A s, sel : Follows(s, sel, task[k]) => Follows(s, sel, task'[k])
            BY <2>3, GiveUpFollows
        <3>3. QED  BY <3>1, <3>2, TaskKeepsDrops
    <2>4. CASE Repeat(k)
        <3>1. UNCHANGED <<cluster, pending, task>>
            BY <2>4, RepeatDoes
        <3>2. QED  BY <3>1, TaskKeepsDrops
    <2>5. QED
        BY <2>1, <2>2, <2>3, <2>4, TakeKeepsDrops, ResyncKeepsDrops
<1>3. CASE Cleanup \/ UNCHANGED vars
    <2>1. UNCHANGED <<cluster, pending, task>>
        BY <1>3 DEF Cleanup, vars
    <2>2. QED
        BY <2>1 DEF DropsAreFollowed, Existing, Exists, Waits, Current, Follows
<1>4. CASE Crash
    <2>1. task' = [k \in Kinds |-> <<>>]
        BY <1>4 DEF Crash
    <2>2. QED  BY <2>1, IdleKeepsDrops
<1>5. CASE Restart
    <2>1. \A k \in Kinds : task'[k] = <<>>
        BY <1>5, RestartDoes
    <2>2. QED  BY <2>1, IdleKeepsDrops
<1>6. QED
    BY <1>1, <1>2, <1>3, <1>4, <1>5 DEF Next

\* A Service and a Pod that it selects, whose edge is not there.
Missing(s, p) ==
    /\ s.kind = "Service" /\ p.kind = "Pod" /\ Exists(s) /\ Exists(p)
    /\ Selects(s, cluster[s].selector, p, cluster[p].labels)
    /\ SelectsEdge(s, p) \notin graph.edges

LEMMA SelectsPrime ==
    ASSUME up' /\ ~lossy' => \A s, p \in Objects : Missing(s, p)' => EdgeComing(s, p)'
    PROVE  SelectsComing'
<1> SUFFICES ASSUME up', ~lossy', NEW s \in Existing("Service")', NEW p \in Existing("Pod")',
                    Selects(s, cluster'[s].selector, p, cluster'[p].labels),
                    SelectsEdge(s, p) \notin graph'.edges
             PROVE  EdgeComing(s, p)'
    BY Zenon DEF SelectsComing
<1>1. /\ s \in Objects /\ s.kind = "Service" /\ cluster'[s] # Absent
      /\ p \in Objects /\ p.kind = "Pod" /\ cluster'[p] # Absent
    BY ServiceAndPod DEF Existing, Exists
<1>2. Missing(s, p)'
    BY <1>1 DEF Missing, Exists
<1>3. QED
    BY <1>1, <1>2

LEMMA SelectsNow ==
    ASSUME SelectsComing, up, ~lossy, NEW s \in Objects, NEW p \in Objects, Missing(s, p)
    PROVE  EdgeComing(s, p)
<1>1. s \in Existing("Service") /\ p \in Existing("Pod")
    BY ServiceAndPod DEF Existing, Missing
<1>2. QED
    BY <1>1 DEF SelectsComing, Missing

\* An edge stays under way if what brings it does.
LEMMA StillComing ==
    ASSUME NEW s, NEW p, cluster'[s] = cluster[s], cluster'[p] = cluster[p], EdgeComing(s, p),
           Waits(s) => Waits(s)', Waits(p) => Waits(p)', UNCHANGED task
    PROVE  EdgeComing(s, p)'
BY DEF EdgeComing, Has

LEMMA ComingThen ==
    ASSUME NEW s, NEW p, UNCHANGED cluster,
           \/ Has(task'["Service"], "ListPods", PodsArg(s, cluster[s].selector))
           \/ Has(task'["Pod"], "ListServices", ServicesArg(p, cluster[p].labels))
           \/ \E k \in {"Service", "Pod"} : Has(task'[k], "UpsertEdge", SelectsEdge(s, p))
    PROVE  EdgeComing(s, p)'
BY DEF EdgeComing, Has

LEMMA ClusterKeepsSelects ==
    ASSUME Base, SelectsComing, ClusterStep PROVE SelectsComing'
<1>1. task' = task /\ graph' = graph /\ up' = up /\ lossy' = lossy
    BY ClusterDoes
<1>2. PICK o \in Objects :
          /\ \A x \in Objects : x # o => cluster'[x] = cluster[x]
          /\ up => Waits(o)'
          /\ \A x \in Objects : x # o /\ Waits(x) => Waits(x)'
    BY ClusterTells
<1>3. ASSUME up', ~lossy', NEW s \in Objects, NEW p \in Objects, Missing(s, p)'
      PROVE  EdgeComing(s, p)'
    <2>1. CASE o \in {s, p}
        <3>1. Waits(s)' \/ Waits(p)'
            BY <1>1, <1>2, <1>3, <2>1
        <3>2. QED  BY <3>1 DEF EdgeComing
    <2>2. CASE s # o /\ p # o
        <3>1. cluster'[s] = cluster[s] /\ cluster'[p] = cluster[p]
            BY <1>2, <2>2
        <3>2. Missing(s, p)
            BY <1>1, <1>3, <3>1 DEF Missing, Exists
        <3>3. EdgeComing(s, p)
            BY <1>1, <1>3, <3>2, SelectsNow
        <3>4. QED  BY <1>1, <1>2, <2>2, <3>1, <3>3, StillComing
    <2>3. QED  BY <2>1, <2>2
<1>4. QED
    BY <1>3, SelectsPrime

LEMMA TakeKeepsSelects ==
    ASSUME Base, SelectsComing, NEW k \in Kinds, Take(k) PROVE SelectsComing'
<1> DEFINE h == pending[k][1]
<1>1. /\ UNCHANGED <<cluster, up, graph, lossy>> /\ task[k] = <<>>
      /\ \A j \in Kinds : j # k => task'[j] = task[j]
    BY TakeDoes
<1>2. \A o \in Objects : Waits(o) => Waits(o)' \/ (h.obj = o /\ Current(o, h))
    BY TakeTells
<1>3. h.obj.kind = k
    BY TakeStarts
<1>4. h.type # "delete" /\ k = "Pod" =>
          Has(task'[k], "ListServices", ServicesArg(h.obj, h.spec.labels))
    BY TakeStarts
<1>5. h.type # "delete" /\ k = "Service" /\ h.spec.selector # {} =>
          Has(task'[k], "ListPods", PodsArg(h.obj, h.spec.selector))
    BY TakeStarts, SMTT(30)
<1> HIDE DEF h
<1>6. ASSUME up', ~lossy', NEW s \in Objects, NEW p \in Objects, Missing(s, p)'
      PROVE  EdgeComing(s, p)'
    <2>1. Missing(s, p)
        BY <1>1, <1>6 DEF Missing, Exists
    <2>2. EdgeComing(s, p)
        BY <1>1, <1>6, <2>1, SelectsNow
    <2>3. /\ s.kind = "Service" /\ p.kind = "Pod" /\ cluster[s] # Absent /\ cluster[p] # Absent
          /\ cluster[s].selector # {} /\ {"Service", "Pod"} \subseteq Kinds
        BY <2>1, ObjectFacts DEF Missing, Exists, Selects
    <2>4. CASE h.obj = s /\ Current(s, h)
        <3>1. h.type # "delete" /\ h.spec = cluster[s]
            BY <2>3, <2>4 DEF Current, Exists
        <3>2. Has(task'["Service"], "ListPods", PodsArg(s, cluster[s].selector))
            BY <1>3, <1>5, <2>3, <2>4, <3>1
        <3>3. QED  BY <1>1, <3>2 DEF EdgeComing, Has
    <2>5. CASE h.obj = p /\ Current(p, h)
        <3>1. h.type # "delete" /\ h.spec = cluster[p]
            BY <2>3, <2>5 DEF Current, Exists
        <3>2. Has(task'["Pod"], "ListServices", ServicesArg(p, cluster[p].labels))
            BY <1>3, <1>4, <2>3, <2>5, <3>1
        <3>3. QED  BY <1>1, <3>2 DEF EdgeComing, Has
    <2>6. CASE Waits(s)' \/ Waits(p)'
        BY <2>6 DEF EdgeComing
    <2>7. \A j \in {"Service", "Pod"} : \A op, arg : Has(task[j], op, arg) => Has(task'[j], op, arg)
        <3>1. \A op, arg : ~Has(task[k], op, arg)
            BY <1>1, IdleHas
        <3>2. QED  BY <1>1, <2>3, <3>1
    <2>8. CASE ~Waits(s) /\ ~Waits(p)
        <3>1. \/ Has(task'["Service"], "ListPods", PodsArg(s, cluster[s].selector))
              \/ Has(task'["Pod"], "ListServices", ServicesArg(p, cluster[p].labels))
              \/ \E j \in {"Service", "Pod"} : Has(task'[j], "UpsertEdge", SelectsEdge(s, p))
            BY <2>2, <2>7, <2>8 DEF EdgeComing
        <3>2. QED  BY <1>1, <3>1, ComingThen
    <2>9. QED  BY <1>2, <2>4, <2>5, <2>6, <2>8
<1>7. QED
    BY <1>6, SelectsPrime

\* A statement that runs, once or again, takes the edge away only if something
\* that waits, or a list later in its handler, brings it back.
LEMMA RunDrops ==
    ASSUME Base, DropsAreFollowed, NEW k \in Kinds, 1 \in 1..Len(task[k]),
           NEW s \in Objects, NEW p \in Objects,
           s.kind = "Service", p.kind = "Pod", Exists(s), Exists(p),
           Selects(s, cluster[s].selector, p, cluster[p].labels),
           SelectsEdge(s, p) \in graph.edges, SelectsEdge(s, p) \notin Run(graph, task[k][1]).edges
    PROVE  \/ Waits(s) \/ Waits(p)
           \/ /\ k = "Service" /\ task[k][1].op = "DeleteEdgesByTypeAndNode"
              /\ Has(task[k], "ListPods", PodsArg(s, cluster[s].selector))
<1> DEFINE st == task[k][1]
           ends == {NodeFor(s), NodeFor(p)}
<1>1. IsGraph(graph) /\ TasksOfKind /\ Len(task[k]) \in Nat
    BY DEF Base, Shapes, IsSeq
<1>2. From(SelectsEdge(s, p)) = NodeFor(s) /\ To(SelectsEdge(s, p)) = NodeFor(p)
    BY DEF SelectsEdge, From, To
<1>3. \/ st.op \in {"DeleteNode", "DeleteEdgesByNode"} /\ st.arg \in ends
      \/ st.op = "DeleteEdgesByTypeAndNode" /\ st.arg[1] \in ends
    <2> DEFINE e == SelectsEdge(s, p)
    <2>1. e \in graph.edges \ Run(graph, st).edges
        OBVIOUS
    <2> HIDE DEF e, st
    <2>2. \/ st.op \in {"DeleteNode", "DeleteEdgesByNode"} /\ st.arg \in {From(e), To(e)}
          \/ st.op = "DeleteEdgesByTypeAndNode" /\ st.arg[1] \in {From(e), To(e)}
        BY <1>1, <2>1, RunDoes
    <2>3. QED  BY <1>2, <2>2 DEF e
<1>4. \A o \in Objects : NodeFor(o) \in ends => o \in {s, p}
    BY ObjectFacts, OwnNode
<1>5. CASE st.op = "DeleteNode"
    <2>1. ErasesOnly(k, task[k])
        BY <1>1, <1>5 DEF TasksOfKind, WritesOnly, Writing, Writes
    <2>2. ASSUME NEW o \in Objects, Exists(o), st.arg = NodeFor(o) PROVE Waits(o)
        <3>1. st.arg \in NodesOf(o)
            BY <2>2, OwnNode
        <3>2. o.kind = k
            BY <2>1, <3>1 DEF ErasesOnly, Erasing
        <3>3. Has(task[o.kind], "DeleteNode", st.arg)
            BY <1>5, <3>2 DEF Has
        <3>4. QED  BY <2>2, <3>1, <3>3, LateNow DEF Exists
    <2>3. QED  BY <1>3, <1>5, <2>2
<1>6. CASE st.op # "DeleteNode"
    <2>1. WritesOnly(k, task[k])
        BY <1>1, <1>6 DEF TasksOfKind, ErasesOnly, Erasing
    <2>2. PICK o \in OfKind[k] : Writes(o, st)
        BY <2>1 DEF WritesOnly, Writing
    <2>3. o \in Objects /\ o.kind = k
        BY <2>2, KindFacts
    <2>4. st.op # "DeleteEdgesByNode"
        BY <1>3, <1>4, <2>2, <2>3 DEF Writes
    <2>5. st.op = "DeleteEdgesByTypeAndNode" /\ st.arg[1] = NodeFor(o) /\ o.kind = "Service"
        BY <1>3, <1>6, <2>2, <2>4 DEF Writes
    <2>6. o = s /\ k = "Service"
        BY <1>3, <1>4, <2>3, <2>5
    <2>7. cluster[s] # Absent /\ cluster[s].selector # {}
        BY DEF Exists, Selects
    <2>8. CASE Follows(s, cluster[s].selector, task[k])
        <3>1. PICK j \in 1 + 1..Len(task[k]) :
                  task[k][j].op = "ListPods" /\ task[k][j].arg = PodsArg(s, cluster[s].selector)
            BY <2>5, <2>6, <2>8 DEF Follows
        <3>2. j \in 1..Len(task[k])
            BY <1>1, <3>1
        <3>3. QED  BY <2>5, <2>6, <3>1, <3>2 DEF Has
    <2>9. QED  BY <2>6, <2>7, <2>8, DropsNow
<1>7. QED
    BY <1>5, <1>6

LEMMA ExecuteKeepsSelects ==
    ASSUME Base, DropsAreFollowed, SelectsComing, NEW k \in Kinds, Execute(k) PROVE SelectsComing'
<1> DEFINE st == task[k][1]
<1>1. /\ UNCHANGED <<cluster, up, pending, lossy>> /\ 1 \in 1..Len(task[k])
      /\ graph' = Run(graph, st) /\ \A j \in Kinds : j # k => task'[j] = task[j]
    BY ExecuteDoes
<1>2. \E q \in Followers(st) : Len(q) <= Len(task'[k]) /\ \A i \in 1..Len(q) : task'[k][i] = q[i]
    <2>1. PICK q \in Followers(st) :
              /\ Len(q) \in Nat /\ Len(task'[k]) = Len(q) + (Len(task[k]) - 1)
              /\ \A i \in 1..Len(q) : task'[k][i] = q[i]
        BY ExecuteDoes
    <2>2. Len(task[k]) \in Nat /\ Len(task[k]) >= 1
        BY <1>1, ExecuteDoes
    <2>3. QED  BY <2>1, <2>2
<1>3. \A op, arg : Has(task[k], op, arg) =>
          (st.op = op /\ st.arg = arg) \/ Has(task'[k], op, arg)
    BY ExecuteLeaves
<1>4. st.op = "UpsertEdge" => st.arg \in graph'.edges
    BY <1>1, RunDoes DEF Base
<1> HIDE DEF st
<1>5. ASSUME up', ~lossy', NEW s \in Objects, NEW p \in Objects, Missing(s, p)'
      PROVE  EdgeComing(s, p)'
    <2>1. /\ s.kind = "Service" /\ p.kind = "Pod" /\ Exists(s) /\ Exists(p)
          /\ Selects(s, cluster[s].selector, p, cluster[p].labels)
          /\ SelectsEdge(s, p) \notin Run(graph, st).edges /\ SelectsEdge(s, p) \notin graph'.edges
          /\ {"Service", "Pod"} \subseteq Kinds
        BY <1>1, <1>5, ObjectFacts DEF Missing, Exists
    <2>2. (Waits(s) => Waits(s)') /\ (Waits(p) => Waits(p)')
        BY <1>1, WaitsSame
    <2>3. CASE Waits(s) \/ Waits(p)
        BY <2>2, <2>3 DEF EdgeComing
    <2>4. CASE SelectsEdge(s, p) \in graph.edges
        <3>1. \/ Waits(s) \/ Waits(p)
              \/ /\ k = "Service" /\ st.op = "DeleteEdgesByTypeAndNode"
                 /\ Has(task[k], "ListPods", PodsArg(s, cluster[s].selector))
            BY <1>1, <2>1, <2>4, RunDrops DEF st
        <3>2. ASSUME k = "Service", st.op = "DeleteEdgesByTypeAndNode",
                     Has(task[k], "ListPods", PodsArg(s, cluster[s].selector))
              PROVE  Has(task'["Service"], "ListPods", PodsArg(s, cluster[s].selector))
            BY <1>3, <3>2
        <3>3. QED  BY <1>1, <2>3, <3>1, <3>2, ComingThen
    <2>5. CASE SelectsEdge(s, p) \notin graph.edges /\ ~Waits(s) /\ ~Waits(p)
        <3>1. EdgeComing(s, p)
            BY <1>1, <1>5, <2>1, <2>5, SelectsNow DEF Missing
        <3>2. s \in Existing("Service") /\ p \in Existing("Pod")
            BY <2>1, ServiceAndPod DEF Existing
        <3>3. ASSUME NEW q \in Followers(st), Has(q, "UpsertEdge", SelectsEdge(s, p)),
                     Len(q) <= Len(task'[k]), \A i \in 1..Len(q) : task'[k][i] = q[i]
              PROVE  Has(task'[k], "UpsertEdge", SelectsEdge(s, p))
            <4>1. PICK i \in 1..Len(q) : q[i].op = "UpsertEdge" /\ q[i].arg = SelectsEdge(s, p)
                BY <3>3 DEF Has
            <4>2. i \in 1..Len(task'[k])
                <5>1. Len(q) \in Nat /\ Len(task'[k]) \in Nat
                    <6>1. EdgesOnly(q)
                        BY FollowersAre
                    <6>2. Len(q) \in Nat
                        BY <6>1 DEF EdgesOnly, IsSeq
                    <6>3. IsSeq(task'[k])
                        BY ExecuteDoes
                    <6>4. QED  BY <6>2, <6>3 DEF IsSeq
                <5>2. QED  BY <3>3, <5>1
            <4>3. QED  BY <3>3, <4>1, <4>2 DEF Has
        <3>4. CASE Has(task["Service"], "ListPods", PodsArg(s, cluster[s].selector))
            <4>1. CASE k = "Service" /\ st.op = "ListPods" /\ st.arg = PodsArg(s, cluster[s].selector)
                <5>1. \A q \in Followers(st) : Has(q, "UpsertEdge", SelectsEdge(s, p))
                    BY <2>1, <3>2, <4>1, ListPodsFinds
                <5>2. Has(task'[k], "UpsertEdge", SelectsEdge(s, p))
                    BY <1>2, <3>3, <5>1
                <5>3. QED  BY <1>1, <4>1, <5>2, ComingThen
            <4>2. CASE Has(task'["Service"], "ListPods", PodsArg(s, cluster[s].selector))
                BY <1>1, <4>2, ComingThen
            <4>3. QED  BY <1>1, <1>3, <2>1, <3>4, <4>1, <4>2
        <3>5. CASE Has(task["Pod"], "ListServices", ServicesArg(p, cluster[p].labels))
            <4>1. CASE k = "Pod" /\ st.op = "ListServices" /\ st.arg = ServicesArg(p, cluster[p].labels)
                <5>1. \A q \in Followers(st) : Has(q, "UpsertEdge", SelectsEdge(s, p))
                    BY <2>1, <3>2, <4>1, ListServicesFinds
                <5>2. Has(task'[k], "UpsertEdge", SelectsEdge(s, p))
                    BY <1>2, <3>3, <5>1
                <5>3. QED  BY <1>1, <4>1, <5>2, ComingThen
            <4>2. CASE Has(task'["Pod"], "ListServices", ServicesArg(p, cluster[p].labels))
                BY <1>1, <4>2, ComingThen
            <4>3. QED  BY <1>1, <1>3, <2>1, <3>5, <4>1, <4>2
        <3>6. ASSUME NEW j \in {"Service", "Pod"}, Has(task[j], "UpsertEdge", SelectsEdge(s, p))
              PROVE  Has(task'[j], "UpsertEdge", SelectsEdge(s, p))
            <4>1. j \in Kinds
                BY <2>1
            <4>2. CASE j # k
                BY <1>1, <3>6, <4>1, <4>2
            <4>3. CASE j = k
                BY <1>3, <1>4, <2>1, <3>6, <4>3
            <4>4. QED  BY <4>2, <4>3
        <3>7. CASE \E j \in {"Service", "Pod"} : Has(task[j], "UpsertEdge", SelectsEdge(s, p))
            BY <1>1, <3>6, <3>7, ComingThen
        <3>8. QED  BY <2>5, <3>1, <3>4, <3>5, <3>7 DEF EdgeComing
    <2>6. QED  BY <2>3, <2>4, <2>5
<1>6. QED
    BY <1>5, SelectsPrime

LEMMA RepeatKeepsSelects ==
    ASSUME Base, DropsAreFollowed, SelectsComing, NEW k \in Kinds, Repeat(k) PROVE SelectsComing'
<1>1. /\ UNCHANGED <<cluster, up, pending, task, lossy>> /\ 1 \in 1..Len(task[k])
      /\ graph' = Run(graph, task[k][1])
    BY RepeatDoes
<1>2. ASSUME up', ~lossy', NEW s \in Objects, NEW p \in Objects, Missing(s, p)'
      PROVE  EdgeComing(s, p)'
    <2>1. /\ s.kind = "Service" /\ p.kind = "Pod" /\ Exists(s) /\ Exists(p)
          /\ Selects(s, cluster[s].selector, p, cluster[p].labels)
          /\ SelectsEdge(s, p) \notin Run(graph, task[k][1]).edges
        BY <1>1, <1>2 DEF Missing, Exists
    <2>2. EdgeComing(s, p)
        <3>1. CASE SelectsEdge(s, p) \in graph.edges
            <4>1. \/ Waits(s) \/ Waits(p)
                  \/ k = "Service" /\ Has(task[k], "ListPods", PodsArg(s, cluster[s].selector))
                BY <1>1, <2>1, <3>1, RunDrops
            <4>2. QED  BY <4>1 DEF EdgeComing
        <3>2. CASE SelectsEdge(s, p) \notin graph.edges
            BY <1>1, <1>2, <2>1, <3>2, SelectsNow DEF Missing
        <3>3. QED  BY <3>1, <3>2
    <2>3. (Waits(s) => Waits(s)') /\ (Waits(p) => Waits(p)')
        BY <1>1, WaitsSame
    <2>4. QED  BY <1>1, <2>2, <2>3, StillComing
<1>3. QED
    BY <1>2, SelectsPrime

LEMMA ResyncKeepsSelects ==
    ASSUME Base, SelectsComing, NEW k \in Kinds, Resync(k) PROVE SelectsComing'
<1>1. UNCHANGED <<cluster, up, task, graph, lossy>>
    BY ResyncDoes
<1>2. ASSUME up', ~lossy', NEW s \in Objects, NEW p \in Objects, Missing(s, p)'
      PROVE  EdgeComing(s, p)'
    <2>1. Missing(s, p) /\ cluster[s] # Absent /\ cluster[p] # Absent
        BY <1>1, <1>2 DEF Missing, Exists
    <2>2. EdgeComing(s, p)
        BY <1>1, <1>2, <2>1, SelectsNow
    <2>3. (Waits(s) => Waits(s)') /\ (Waits(p) => Waits(p)')
        BY <2>1, ResyncWaits
    <2>4. QED  BY <1>1, <2>2, <2>3, StillComing
<1>3. QED
    BY <1>2, SelectsPrime

LEMMA RestartKeepsSelects == ASSUME Base, Restart PROVE SelectsComing'
<1>1. UNCHANGED cluster /\ \A k \in Kinds : Lists(k, pending'[k])
    BY RestartDoes
<1>2. ASSUME NEW s \in Objects, NEW p \in Objects, Missing(s, p)' PROVE EdgeComing(s, p)'
    <2>1. Exists(s)
        BY <1>1, <1>2 DEF Missing, Exists
    <2>2. Waits(s)'
        BY <1>1, <2>1, FilledTells, ObjectFacts
    <2>3. QED  BY <2>2 DEF EdgeComing
<1>3. QED
    BY <1>2, SelectsPrime

LEMMA GraphStepKeepsSelects ==
    ASSUME SelectsComing, UNCHANGED <<cluster, up, pending, task, lossy>>,
           graph'.edges = graph.edges
    PROVE  SelectsComing'
<1>1. ASSUME up', ~lossy', NEW s \in Objects, NEW p \in Objects, Missing(s, p)'
      PROVE  EdgeComing(s, p)'
    <2>1. Missing(s, p)
        BY <1>1 DEF Missing, Exists
    <2>2. EdgeComing(s, p)
        BY <1>1, <2>1, SelectsNow
    <2>3. Waits(s)' = Waits(s) /\ Waits(p)' = Waits(p)
        BY WaitsSame
    <2>4. QED  BY <2>2, <2>3, StillComing
<1>2. QED
    BY <1>1, SelectsPrime

LEMMA NextKeepsSelects ==
    Base /\ DropsAreFollowed /\ SelectsComing /\ [Next]_vars => SelectsComing'
<1> SUFFICES ASSUME Base, DropsAreFollowed, SelectsComing, [Next]_vars PROVE SelectsComing'
    OBVIOUS
<1>1. CASE ClusterStep
    BY <1>1, ClusterKeepsSelects
<1>2. CASE \E k \in Kinds : HandlerStep(k) \/ Repeat(k) \/ GiveUp(k) \/ Resync(k)
    <2>1. PICK k \in Kinds : Take(k) \/ Execute(k) \/ Repeat(k) \/ GiveUp(k) \/ Resync(k)
        BY <1>2 DEF HandlerStep
    <2>2. CASE GiveUp(k)
        <3>1. lossy'
            BY <2>2, GiveUpDoes
        <3>2. QED  BY <3>1, SelectsPrime
    <2>3. QED
        BY <2>1, <2>2, TakeKeepsSelects, ExecuteKeepsSelects, RepeatKeepsSelects,
           ResyncKeepsSelects
<1>3. CASE Cleanup
    <2>1. /\ UNCHANGED <<cluster, up, pending, task, lossy>>
          /\ graph' = CleanupOrphanedPlaceholders(graph)
        BY <1>3 DEF Cleanup
    <2>2. graph'.edges = graph.edges
        BY <2>1, CleanupDoes DEF Base
    <2>3. QED  BY <2>1, <2>2, GraphStepKeepsSelects
<1>4. CASE Crash
    <2>1. ~up'
        BY <1>4 DEF Crash
    <2>2. QED  BY <2>1, SelectsPrime
<1>5. CASE Restart
    BY <1>5, RestartKeepsSelects
<1>6. CASE UNCHANGED vars
    <2>1. UNCHANGED <<cluster, up, pending, task, lossy>> /\ graph' = graph
        BY <1>6 DEF vars
    <2>2. QED  BY <2>1, GraphStepKeepsSelects
<1>7. QED
    BY <1>1, <1>2, <1>3, <1>4, <1>5, <1>6 DEF Next

\* When the handlers have caught up and none of their statements failed, every
\* Service has its edge to every Pod that it selects, though an update of the Service
\* deletes those edges while Pod handlers write them (processService, processPod) and
\* each works from its own list of the others, taken at any moment.
THEOREM SelectsAreComplete == Spec => []SelectsPodsComplete
<1>1. Init => DropsAreFollowed /\ SelectsComing
    <2> SUFFICES ASSUME Init PROVE DropsAreFollowed /\ SelectsComing
        OBVIOUS
    <2>1. \A s \in Existing("Service") : Waits(s)
        BY InitWaits, ServiceAndPod DEF Existing, Exists
    <2>2. QED  BY <2>1 DEF DropsAreFollowed, SelectsComing, EdgeComing
<1>2. SelectsComing => SelectsPodsComplete
    <2> SUFFICES ASSUME SelectsComing, Quiet, ~lossy,
                        NEW s \in Existing("Service"), NEW p \in Existing("Pod"),
                        Selects(s, cluster[s].selector, p, cluster[p].labels)
                 PROVE  SelectsEdge(s, p) \in graph.edges
        BY DEF SelectsPodsComplete, Matches
    <2>1. s \in Objects /\ s.kind = "Service" /\ p \in Objects /\ p.kind = "Pod"
        BY ServiceAndPod DEF Existing
    <2>2. ~EdgeComing(s, p)
        <3>1. ~Waits(s) /\ \A op, arg : ~Has(task["Service"], op, arg)
            BY <2>1, QuietHas
        <3>2. ~Waits(p) /\ \A op, arg : ~Has(task["Pod"], op, arg)
            BY <2>1, QuietHas
        <3>3. QED  BY <3>1, <3>2 DEF EdgeComing
    <2>3. up
        BY DEF Quiet
    <2>4. QED  BY <2>2, <2>3 DEF SelectsComing
<1>3. QED
    BY <1>1, <1>2, InitBase, NextKeepsBase, NextKeepsDrops, NextKeepsSelects, PTL DEF Spec
=============================================================================
