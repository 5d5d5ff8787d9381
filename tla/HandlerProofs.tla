----------------------------- MODULE HandlerProofs -----------------------------
(***************************************************************************)
(* What every handler does, of whatever kind and for whatever spec: an add *)
(* or an update writes each node of its object and no other, and deletes   *)
(* none; a delete only deletes, and what it deletes is the object's or is  *)
(* nobody's.                                                               *)
(***************************************************************************)
EXTENDS ExtensionHandlers, FiniteSetTheorems, FunctionTheorems, SequenceTheorems, TLAPS

(***************************************************************************)
(* Sequences of statements.                                                *)
(***************************************************************************)

\* A sequence, whatever its elements are.
IsSeq(q) == Len(q) \in Nat /\ DOMAIN q = 1..Len(q) /\ q \in Seq(Range(q))

\* A record of the form that Statement makes, its skip perhaps set since.
IsStatement(st) ==
    st = [op |-> st.op, arg |-> st.arg, skip |-> st.skip] /\ st.skip \in Nat

\* What the handler of an existing object may write.
Writes(o, st) ==
    /\ IsStatement(st)
    /\ st.op # "DeleteNode"
    /\ st.op = "UpsertNode" => st.arg \in NodesOf(o)
    /\ st.op = "DeleteEdgesByNode" => st.arg = NodeFor(o) /\ o.kind \notin {"Pod", "Service"}
    /\ st.op = "DeleteEdgesByTypeAndNode" => st.arg[1] = NodeFor(o) /\ o.kind = "Service"

\* A part of such a handler: no failure leads out of it.
Builds(o, q) ==
    /\ IsSeq(q)
    /\ \A i \in 1..Len(q) : Writes(o, q[i]) /\ i + q[i].skip <= Len(q)

Has(q, op, arg) == \E i \in 1..Len(q) : q[i].op = op /\ q[i].arg = arg

\* A part that writes every node of the object.
Adds(o, q) == Builds(o, q) /\ \A n \in NodesOf(o) : Has(q, "UpsertNode", n)

\* A function on 1..n is a sequence.
LEMMA FunIsSeq ==
    ASSUME NEW n \in Nat, NEW q, DOMAIN q = 1..n, q = [i \in 1..n |-> q[i]]
    PROVE  IsSeq(q) /\ Len(q) = n
<1>1. q \in [1..n -> Range(q)]
    BY DEF Range
<1>2. q \in Seq(Range(q))
    BY <1>1, IsASeq
<1>3. QED
    BY <1>2, LenProperties DEF IsSeq

LEMMA EmptyIsSeq == IsSeq(<<>>) /\ Len(<<>>) = 0
BY DEF IsSeq, Range

LEMMA OneIsSeq == ASSUME NEW x PROVE IsSeq(<<x>>) /\ Len(<<x>>) = 1 /\ <<x>>[1] = x
<1>1. <<x>> \in Seq({x}) /\ Len(<<x>>) = 1 /\ <<x>>[1] = x /\ DOMAIN <<x>> = 1..1
    OBVIOUS
<1>2. Range(<<x>>) = {x}
    BY <1>1 DEF Range
<1>3. QED
    BY <1>1, <1>2 DEF IsSeq

\* What concatenation gives.
LEMMA ConcatIsSeq ==
    ASSUME NEW p, NEW q, IsSeq(p), IsSeq(q)
    PROVE  /\ IsSeq(p \o q)
           /\ Len(p \o q) = Len(p) + Len(q)
           /\ \A i \in 1..Len(p) : (p \o q)[i] = p[i]
           /\ \A i \in 1..Len(q) : (p \o q)[Len(p) + i] = q[i]
           /\ \A i \in 1..Len(p \o q) :
                  \/ i \in 1..Len(p) /\ (p \o q)[i] = p[i]
                  \/ i - Len(p) \in 1..Len(q) /\ (p \o q)[i] = q[i - Len(p)]
<1> DEFINE S == Range(p) \union Range(q)
           r == p \o q
<1>1. p \in Seq(S) /\ q \in Seq(S)
    BY SeqMonotonic DEF IsSeq
<1>2. r \in Seq(S) /\ Len(r) = Len(p) + Len(q)
      /\ \A i \in 1..Len(p) + Len(q) : r[i] = IF i <= Len(p) THEN p[i] ELSE q[i - Len(p)]
    BY <1>1, ConcatProperties
<1>3. Len(p) \in Nat /\ Len(q) \in Nat /\ Len(r) \in Nat
    BY <1>2 DEF IsSeq
<1>4. DOMAIN r = 1..Len(r) /\ r = [i \in 1..Len(r) |-> r[i]]
    BY <1>2, LenProperties
<1>5. IsSeq(r)
    BY <1>3, <1>4, FunIsSeq
<1> HIDE DEF r, S
<1>6. QED
    BY <1>2, <1>3, <1>5 DEF r

(***************************************************************************)
(* The parts of a handler and how they are put together.                   *)
(***************************************************************************)

\* The statements that the handlers make are statements.
LEMMA StatementShape ==
    ASSUME NEW op, NEW arg
    PROVE  /\ IsStatement(Statement(op, arg))
           /\ Statement(op, arg).op = op /\ Statement(op, arg).arg = arg
           /\ Statement(op, arg).skip = 0
BY DEF IsStatement, Statement

LEMMA EmptyBuilds == ASSUME NEW o PROVE Builds(o, <<>>)
BY EmptyIsSeq DEF Builds

LEMMA OneBuilds ==
    ASSUME NEW o, NEW st, Writes(o, st), st.skip = 0
    PROVE  Builds(o, <<st>>)
<1>1. IsSeq(<<st>>) /\ Len(<<st>>) = 1 /\ <<st>>[1] = st
    BY OneIsSeq
<1>2. QED
    BY <1>1 DEF Builds

LEMMA ConcatBuilds ==
    ASSUME NEW o, NEW p, NEW q, Builds(o, p), Builds(o, q)
    PROVE  Builds(o, p \o q)
<1> DEFINE r == p \o q
<1>1. IsSeq(p) /\ IsSeq(q) /\ Len(p) \in Nat /\ Len(q) \in Nat
    BY DEF Builds, IsSeq
<1>2. /\ IsSeq(r) /\ Len(r) = Len(p) + Len(q)
      /\ \A i \in 1..Len(r) : \/ i \in 1..Len(p) /\ r[i] = p[i]
                              \/ i - Len(p) \in 1..Len(q) /\ r[i] = q[i - Len(p)]
    BY <1>1, ConcatIsSeq
<1> HIDE DEF r
<1> SUFFICES ASSUME NEW i \in 1..Len(r) PROVE Writes(o, r[i]) /\ i + r[i].skip <= Len(r)
    BY <1>2 DEF Builds, r
<1>3. CASE i \in 1..Len(p) /\ r[i] = p[i]
    <2>1. Writes(o, p[i]) /\ i + p[i].skip <= Len(p) /\ p[i].skip \in Nat
        BY <1>3 DEF Builds, Writes, IsStatement
    <2>2. QED  BY <1>1, <1>2, <1>3, <2>1
<1>4. CASE i - Len(p) \in 1..Len(q) /\ r[i] = q[i - Len(p)]
    <2> DEFINE j == i - Len(p)
    <2>1. Writes(o, q[j]) /\ j + q[j].skip <= Len(q) /\ q[j].skip \in Nat
        BY <1>4 DEF Builds, Writes, IsStatement
    <2>2. QED  BY <1>1, <1>2, <1>4, <2>1
<1>5. QED  BY <1>2, <1>3, <1>4

\* A statement of either part is one of the whole.
LEMMA ConcatHas ==
    ASSUME NEW p, NEW q, IsSeq(p), IsSeq(q), NEW op, NEW arg,
           Has(p, op, arg) \/ Has(q, op, arg)
    PROVE  Has(p \o q, op, arg)
<1>1. Len(p) \in Nat /\ Len(q) \in Nat
    BY DEF IsSeq
<1>2. /\ Len(p \o q) = Len(p) + Len(q)
      /\ \A i \in 1..Len(p) : (p \o q)[i] = p[i]
      /\ \A i \in 1..Len(q) : (p \o q)[Len(p) + i] = q[i]
    BY ConcatIsSeq
<1>3. CASE Has(p, op, arg)
    <2>1. PICK i \in 1..Len(p) : p[i].op = op /\ p[i].arg = arg
        BY <1>3 DEF Has
    <2>2. i \in 1..Len(p \o q)
        BY <1>1, <1>2
    <2>3. QED  BY <1>2, <2>1, <2>2 DEF Has
<1>4. CASE Has(q, op, arg)
    <2>1. PICK i \in 1..Len(q) : q[i].op = op /\ q[i].arg = arg
        BY <1>4 DEF Has
    <2>2. Len(p) + i \in 1..Len(p \o q)
        BY <1>1, <1>2
    <2>3. QED  BY <1>2, <2>1, <2>2 DEF Has
<1>5. QED  BY <1>3, <1>4

\* Setting a statement's skip leaves the rest of it.
LEMMA SkipShape ==
    ASSUME NEW st, IsStatement(st), NEW k \in Nat
    PROVE  /\ IsStatement([st EXCEPT !.skip = k])
           /\ [st EXCEPT !.skip = k].op = st.op /\ [st EXCEPT !.skip = k].arg = st.arg
           /\ [st EXCEPT !.skip = k].skip = k
<1> DEFINE r == [op |-> st.op, arg |-> st.arg, skip |-> k]
<1>1. [st EXCEPT !.skip = k] = r
    BY DEF IsStatement
<1>2. r.op = st.op /\ r.arg = st.arg /\ r.skip = k
    OBVIOUS
<1>3. IsStatement(r)
    BY DEF IsStatement
<1>4. QED
    BY <1>1, <1>2, <1>3

LEMMA SkipWrites ==
    ASSUME NEW o, NEW st, Writes(o, st), NEW k \in Nat
    PROVE  Writes(o, [st EXCEPT !.skip = k])
BY SkipShape DEF Writes

\* Chain keeps the statements and lets each skip to the end.
LEMMA ChainShape ==
    ASSUME NEW q, IsSeq(q)
    PROVE  /\ IsSeq(Chain(q)) /\ Len(Chain(q)) = Len(q)
           /\ \A i \in 1..Len(q) : Chain(q)[i] = [q[i] EXCEPT !.skip = Len(q) - i]
<1>1. Len(q) \in Nat /\ DOMAIN q = 1..Len(q)
    BY DEF IsSeq
<1>2. Chain(q) = [i \in 1..Len(q) |-> [q[i] EXCEPT !.skip = Len(q) - i]]
    BY <1>1 DEF Chain
<1>3. DOMAIN Chain(q) = 1..Len(q) /\ Chain(q) = [i \in 1..Len(q) |-> Chain(q)[i]]
    BY <1>2
<1>4. IsSeq(Chain(q)) /\ Len(Chain(q)) = Len(q)
    BY <1>1, <1>3, FunIsSeq
<1>5. QED
    BY <1>2, <1>4

LEMMA ChainBuilds ==
    ASSUME NEW o, NEW q, Builds(o, q)
    PROVE  Builds(o, Chain(q))
<1>1. IsSeq(q) /\ Len(q) \in Nat
    BY DEF Builds, IsSeq
<1>2. /\ IsSeq(Chain(q)) /\ Len(Chain(q)) = Len(q)
      /\ \A i \in 1..Len(q) : Chain(q)[i] = [q[i] EXCEPT !.skip = Len(q) - i]
    BY <1>1, ChainShape
<1> SUFFICES ASSUME NEW i \in 1..Len(q)
             PROVE  Writes(o, Chain(q)[i]) /\ i + Chain(q)[i].skip <= Len(q)
    BY <1>2 DEF Builds
<1>3. Len(q) - i \in Nat /\ Writes(o, q[i])
    BY <1>1 DEF Builds
<1>4. IsStatement(q[i])
    BY <1>3 DEF Writes
<1>5. Writes(o, [q[i] EXCEPT !.skip = Len(q) - i])
    BY <1>3, SkipWrites
<1>6. [q[i] EXCEPT !.skip = Len(q) - i].skip = Len(q) - i
    BY <1>3, <1>4, SkipShape
<1>7. Chain(q)[i] = [q[i] EXCEPT !.skip = Len(q) - i]
    BY <1>2
<1>8. Writes(o, Chain(q)[i]) /\ Chain(q)[i].skip = Len(q) - i
    BY <1>5, <1>6, <1>7, Zenon
<1>9. QED
    BY <1>1, <1>8

\* The node first, then the rest unless that failed.
LEMMA OrReturnBuilds ==
    ASSUME NEW o, NEW st, NEW rest, Writes(o, st), Builds(o, rest)
    PROVE  /\ Builds(o, OrReturn(st, rest))
           /\ Has(OrReturn(st, rest), st.op, st.arg)
           /\ \A op, arg : Has(rest, op, arg) => Has(OrReturn(st, rest), op, arg)
<1> DEFINE first == [st EXCEPT !.skip = Len(rest)]
           q == <<first>> \o rest
<1>1. IsSeq(rest) /\ Len(rest) \in Nat
    BY DEF Builds, IsSeq
<1>2. Writes(o, first) /\ first.skip = Len(rest) /\ first.op = st.op /\ first.arg = st.arg
    BY <1>1, SkipWrites, SkipShape DEF Writes
<1> HIDE DEF first
<1>3. IsSeq(<<first>>) /\ Len(<<first>>) = 1 /\ <<first>>[1] = first
    BY OneIsSeq
<1>4. /\ IsSeq(q) /\ Len(q) = 1 + Len(rest) /\ q[1] = first
      /\ \A i \in 1..Len(q) : i = 1 \/ (i - 1 \in 1..Len(rest) /\ q[i] = rest[i - 1])
    BY <1>1, <1>3, ConcatIsSeq
<1>5. Builds(o, q)
    <2> HIDE DEF q
    <2> SUFFICES ASSUME NEW i \in 1..Len(q) PROVE Writes(o, q[i]) /\ i + q[i].skip <= Len(q)
        BY <1>4 DEF Builds
    <2>1. CASE i = 1
        BY <1>1, <1>2, <1>4, <2>1
    <2>2. CASE i # 1
        <3> DEFINE j == i - 1
        <3>1. j \in 1..Len(rest) /\ q[i] = rest[j]
            BY <1>4, <2>2
        <3>2. Writes(o, rest[j]) /\ j + rest[j].skip <= Len(rest) /\ rest[j].skip \in Nat
            BY <3>1 DEF Builds, Writes, IsStatement
        <3>3. QED  BY <1>1, <1>4, <3>1, <3>2
    <2>3. QED  BY <2>1, <2>2
<1>6. Has(<<first>>, st.op, st.arg)
    BY <1>2, <1>3 DEF Has
<1>7. /\ Has(q, st.op, st.arg)
      /\ \A op, arg : Has(rest, op, arg) => Has(q, op, arg)
    BY <1>1, <1>3, <1>6, ConcatHas
<1>8. OrReturn(st, rest) = q
    BY DEF OrReturn, first
<1>9. QED
    BY <1>5, <1>7, <1>8

(***************************************************************************)
(* The parts that the kinds share.                                         *)
(***************************************************************************)

\* Statements that write an edge, or list objects to write edges to.
LEMMA OtherWrites ==
    ASSUME NEW o, NEW op, NEW arg, op \in {"UpsertEdge", "ListServices", "ListPods", "FindService"}
    PROVE  Writes(o, Statement(op, arg))
BY StatementShape DEF Writes

LEMMA MergeEdgeWrites ==
    ASSUME NEW o, NEW from, NEW type, NEW to
    PROVE  Writes(o, MergeEdge(from, type, to)) /\ MergeEdge(from, type, to).skip = 0
BY OtherWrites, StatementShape DEF MergeEdge

LEMMA ListWrites ==
    ASSUME NEW o, NEW p, NEW type, NEW ns, NEW labels
    PROVE  /\ Builds(o, <<ListServices(p, labels)>>)
           /\ Builds(o, <<ListPods(p, type, ns, labels)>>)
           /\ Writes(o, ListPods(p, type, ns, labels)) /\ ListPods(p, type, ns, labels).skip = 0
           /\ Builds(o, <<EdgeToServiceWith(p, type, labels)>>)
           /\ Writes(o, EdgeToServiceWith(p, type, labels))
           /\ EdgeToServiceWith(p, type, labels).skip = 0
<1>1. /\ Writes(o, ListServices(p, labels)) /\ ListServices(p, labels).skip = 0
      /\ Writes(o, ListPods(p, type, ns, labels)) /\ ListPods(p, type, ns, labels).skip = 0
      /\ Writes(o, EdgeToServiceWith(p, type, labels))
      /\ EdgeToServiceWith(p, type, labels).skip = 0
    BY OtherWrites, StatementShape DEF ListServices, ListPods, EdgeToServiceWith
<1>2. QED
    BY <1>1, OneBuilds

LEMMA NodeWrites ==
    ASSUME NEW o, NEW n \in NodesOf(o)
    PROVE  /\ Writes(o, MergeNode(n)) /\ MergeNode(n).skip = 0
           /\ MergeNode(n).op = "UpsertNode" /\ MergeNode(n).arg = n
BY StatementShape DEF Writes, MergeNode

LEMMA OwnNode == \A o : NodeFor(o) \in NodesOf(o)
BY DEF NodesOf

\* One edge, written alone.
LEMMA EdgeBuilds ==
    ASSUME NEW o, NEW from, NEW type, NEW to
    PROVE  Builds(o, <<MergeEdge(from, type, to)>>)
BY MergeEdgeWrites, OneBuilds

LEMMA NamespaceEdgeBuilds == ASSUME NEW o PROVE Builds(o, NamespaceEdge(o))
BY EdgeBuilds DEF NamespaceEdge

LEMMA OwnerEdgeBuilds == ASSUME NEW o, NEW owner PROVE Builds(o, OwnerEdge(o, owner))
BY EdgeBuilds, EmptyBuilds DEF OwnerEdge

LEMMA ClassEdgeBuilds == ASSUME NEW o, NEW class PROVE Builds(o, ClassEdge(o, class))
BY EdgeBuilds, EmptyBuilds DEF ClassEdge

\* A statement for each element of a sequence, none of which skips another.
LEMMA EachBuilds ==
    ASSUME NEW o, NEW n \in Nat, NEW q, DOMAIN q = 1..n, q = [i \in 1..n |-> q[i]],
           \A i \in 1..n : Writes(o, q[i]) /\ q[i].skip = 0
    PROVE  Builds(o, q)
<1>1. IsSeq(q) /\ Len(q) = n
    BY FunIsSeq
<1>2. QED
    BY <1>1 DEF Builds

\* What WellFormed calls a sequence is one.
LEMMA SequenceIsSeq == ASSUME NEW q, IsSequence(q) PROVE IsSeq(q)
<1>1. q \in Seq(Range(q))
    BY DEF IsSequence
<1>2. QED
    BY <1>1, LenProperties DEF IsSeq

LEMMA EdgesToBuilds ==
    ASSUME NEW o, NEW type, NEW kind, NEW refs, IsSeq(refs)
    PROVE  Builds(o, EdgesTo(o, type, kind, refs))
<1> DEFINE q == EdgesTo(o, type, kind, refs)
           n == Len(refs)
<1>1. n \in Nat /\ DOMAIN refs = 1..n
    BY DEF IsSeq
<1>2. q = [i \in 1..n |-> MergeEdge(NodeFor(o), type, NodeOf(kind, refs[i].ns, refs[i].name))]
    BY <1>1 DEF EdgesTo
<1>3. DOMAIN q = 1..n /\ q = [i \in 1..n |-> q[i]]
      /\ \A i \in 1..n : Writes(o, q[i]) /\ q[i].skip = 0
    BY <1>2, MergeEdgeWrites
<1> HIDE DEF q, n
<1>4. QED
    BY <1>1, <1>3, EachBuilds DEF q

\* The parsed references, and those that name something, are sequences.
LEMMA ParsedIsSeq ==
    ASSUME NEW hosts, NEW ns, IsSeq(hosts)
    PROVE  IsSeq(Parsed(hosts, ns))
<1>1. Len(hosts) \in Nat /\ DOMAIN hosts = 1..Len(hosts)
    BY DEF IsSeq
<1>2. Parsed(hosts, ns) = [i \in 1..Len(hosts) |-> ParseServiceHost(hosts[i], ns)]
    BY <1>1 DEF Parsed
<1>3. DOMAIN Parsed(hosts, ns) = 1..Len(hosts)
      /\ Parsed(hosts, ns) = [i \in 1..Len(hosts) |-> Parsed(hosts, ns)[i]]
    BY <1>2
<1>4. QED
    BY <1>1, <1>3, FunIsSeq

LEMMA NamedIsSeq == ASSUME NEW refs, IsSeq(refs) PROVE IsSeq(Named(refs))
<1> DEFINE I == {i \in DOMAIN refs : refs[i].name # ""}
           n == Cardinality(I)
<1>1. IsFiniteSet(1..Len(refs)) /\ DOMAIN refs = 1..Len(refs)
    BY FS_Interval DEF IsSeq
<1>2. I \in SUBSET (1..Len(refs))
    BY <1>1
<1>3. n \in Nat
    BY <1>1, <1>2, FS_Subset, FS_CardinalityType
<1>4. DOMAIN Named(refs) = 1..n /\ Named(refs) = [i \in 1..n |-> Named(refs)[i]]
    BY DEF Named
<1> HIDE DEF n
<1>5. QED
    BY <1>3, <1>4, FunIsSeq

(***************************************************************************)
(* An object whose only node is its own: the node, then anything.          *)
(***************************************************************************)

LEMMA AddBuilds ==
    ASSUME NEW o, o.kind # "Pod", NEW rest, Builds(o, rest)
    PROVE  Adds(o, OrReturn(MergeNode(NodeFor(o)), rest))
<1>1. NodesOf(o) = {NodeFor(o)}
    BY DEF NodesOf
<1>2. /\ Writes(o, MergeNode(NodeFor(o)))
      /\ MergeNode(NodeFor(o)).op = "UpsertNode" /\ MergeNode(NodeFor(o)).arg = NodeFor(o)
    BY OwnNode, NodeWrites
<1>3. QED
    BY <1>1, <1>2, OrReturnBuilds DEF Adds

LEMMA NodeAlone ==
    ASSUME NEW o, o.kind # "Pod"
    PROVE  Adds(o, <<MergeNode(NodeFor(o))>>)
<1>1. NodesOf(o) = {NodeFor(o)}
    BY DEF NodesOf
<1> DEFINE st == MergeNode(NodeFor(o))
<1>2. Writes(o, st) /\ st.skip = 0 /\ st.op = "UpsertNode" /\ st.arg = NodeFor(o)
    BY OwnNode, NodeWrites
<1> HIDE DEF st
<1>3. Builds(o, <<st>>) /\ IsSeq(<<st>>) /\ Len(<<st>>) = 1 /\ <<st>>[1] = st
    BY <1>2, OneBuilds, OneIsSeq
<1>4. Has(<<st>>, "UpsertNode", NodeFor(o))
    BY <1>2, <1>3 DEF Has
<1>5. QED
    BY <1>1, <1>3, <1>4 DEF Adds, st

\* What comes before or after the node's writes does not take them away.
LEMMA AddsAfter ==
    ASSUME NEW o, NEW p, NEW q, Builds(o, p), Adds(o, q)
    PROVE  Adds(o, p \o q)
<1>1. Builds(o, p \o q) /\ IsSeq(p) /\ IsSeq(q)
    BY ConcatBuilds DEF Adds, Builds
<1>2. \A n \in NodesOf(o) : Has(p \o q, "UpsertNode", n)
    BY <1>1, ConcatHas DEF Adds
<1>3. QED
    BY <1>1, <1>2 DEF Adds

LEMMA RefreshAdds ==
    ASSUME NEW o, o.kind \notin {"Pod", "Service"}, NEW type \in {"add", "update"},
           NEW add, Adds(o, add)
    PROVE  Adds(o, Refresh(type, o, add))
<1>1. Builds(o, <<DropEdges(NodeFor(o))>>)
    <2>1. Writes(o, DropEdges(NodeFor(o))) /\ DropEdges(NodeFor(o)).skip = 0
        BY StatementShape DEF Writes, DropEdges
    <2>2. QED  BY <2>1, OneBuilds
<1>2. Adds(o, <<DropEdges(NodeFor(o))>> \o add)
    BY <1>1, AddsAfter
<1>3. QED
    BY <1>2 DEF Refresh

(***************************************************************************)
(* Adds and updates, kind by kind.                                         *)
(***************************************************************************)

\* The fields that a kind's handler walks through.
LEMMA SpecSequences ==
    ASSUME NEW o, NEW s, WellFormed(o, s)
    PROVE  /\ o.kind = "Pod" => IsSeq(o.containers) /\ IsSeq(s.uses)
           /\ o.kind = "Gateway" => IsSeq(s.certificates)
           /\ o.kind \in RouteKinds => IsSeq(s.parents) /\ IsSeq(s.backends)
           /\ o.kind = "ReferenceGrant" => IsSeq(s.services)
           /\ o.kind = "BackendTLSPolicy" => IsSeq(s.targets)
           /\ o.kind = "VirtualService" => IsSeq(s.gateways) /\ IsSeq(s.hosts) /\ IsSeq(s.subsets)
           /\ o.kind = "DestinationRule" => IsSeq(s.subsets)
           /\ o.kind = "DNSPolicy" => IsSeq(s.providers)
<1>1. /\ o.kind = "Pod" => ListFields(o.kind) = {"uses"}
      /\ o.kind = "Gateway" => ListFields(o.kind) = {"certificates"}
      /\ o.kind = "ReferenceGrant" => ListFields(o.kind) = {"services"}
      /\ o.kind = "BackendTLSPolicy" => ListFields(o.kind) = {"targets"}
      /\ o.kind = "VirtualService" => ListFields(o.kind) = {"gateways", "hosts", "subsets"}
      /\ o.kind = "DestinationRule" => ListFields(o.kind) = {"subsets"}
      /\ o.kind = "DNSPolicy" => ListFields(o.kind) = {"providers"}
    BY DEF ListFields, RouteKinds
<1>2. o.kind \in RouteKinds => ListFields(o.kind) = {"parents", "backends"}
    BY DEF ListFields, RouteKinds
<1>3. \A f \in ListFields(o.kind) : IsSeq(s[f])
    BY SequenceIsSeq DEF WellFormed
<1>4. o.kind = "Pod" => IsSeq(o.containers)
    BY SequenceIsSeq DEF WellFormed
<1>5. QED
    BY <1>1, <1>2, <1>3, <1>4

\* The list of Services that a Pod's handler asks for, and of Pods that a Service's does.
ServicesArg(o, labels) == [for |-> o, type |-> "SELECTS_PODS", labels |-> labels]
PodsArg(o, sel) == [for |-> o, type |-> "SELECTS_PODS", ns |-> o.ns, labels |-> sel]

\* A Pod: its node, its containers, its edges, and the Services that select it.
LEMMA PodAdds ==
    ASSUME NEW o, o.kind = "Pod", NEW s, WellFormed(o, s)
    PROVE  /\ Adds(o, PodAdd(o, s))
           /\ Has(PodAdd(o, s), "ListServices", ServicesArg(o, s.labels))
<1> DEFINE nc == Len(o.containers)
           C == ContainerUpserts(o)
           S == PodSchedulingEdges(o, s)
           E == PodContainerEdges(o)
           V == PodVolumeEdges(o, s)
           L == <<ListServices(o, s.labels)>>
           W == OwnerEdge(o, s.owner)
           rest == C \o S \o E \o V \o L \o W
<1>1. IsSeq(o.containers) /\ nc \in Nat /\ DOMAIN o.containers = 1..nc
    BY SequenceIsSeq DEF WellFormed, IsSeq
<1>2. IsSeq(s.uses) /\ Len(s.uses) \in Nat /\ DOMAIN s.uses = 1..Len(s.uses)
    <2>1. IsSeq(s.uses)
        BY SpecSequences
    <2>2. QED  BY <2>1 DEF IsSeq
<1>3. NodesOf(o) = {NodeFor(o)} \union {ContainerNode(o, o.containers[i]) : i \in 1..nc}
    BY <1>1 DEF NodesOf
<1>4. C = [i \in 1..nc |-> MergeNode(ContainerNode(o, o.containers[i]))]
    BY <1>1 DEF ContainerUpserts, ContainerNodes
<1>5. DOMAIN C = 1..nc /\ C = [i \in 1..nc |-> C[i]]
      /\ \A i \in 1..nc : /\ Writes(o, C[i]) /\ C[i].skip = 0
                          /\ C[i].op = "UpsertNode" /\ C[i].arg = ContainerNode(o, o.containers[i])
    <2>1. \A i \in 1..nc : ContainerNode(o, o.containers[i]) \in NodesOf(o)
        BY <1>3
    <2>2. \A i \in 1..nc : C[i] = MergeNode(ContainerNode(o, o.containers[i]))
        BY <1>4
    <2>3. DOMAIN C = 1..nc /\ C = [i \in 1..nc |-> C[i]]
        BY <1>4
    <2> HIDE DEF C, nc
    <2>4. QED  BY <2>1, <2>2, <2>3, NodeWrites
<1>6. Builds(o, C)
    <2> HIDE DEF C, nc
    <2>1. QED  BY <1>1, <1>5, EachBuilds DEF nc
<1>7. Len(C) = nc
    <2> HIDE DEF C, nc
    <2>1. QED  BY <1>1, <1>5, FunIsSeq DEF nc
<1>8. Builds(o, S)
    <2>1. Builds(o, IF s.node = "" THEN <<>>
                    ELSE <<MergeEdge(NodeFor(o), "SCHEDULED_ON", NodeOf("Node", "", s.node))>>)
        BY EdgeBuilds, EmptyBuilds
    <2>2. QED  BY <2>1, NamespaceEdgeBuilds, ConcatBuilds, ChainBuilds DEF PodSchedulingEdges
<1>9. Builds(o, E)
    <2> DEFINE q == [i \in DOMAIN o.containers |->
                        MergeEdge(NodeFor(o), "CONTAINS", ContainerNode(o, o.containers[i]))]
    <2>1. DOMAIN q = 1..nc /\ q = [i \in 1..nc |-> q[i]]
          /\ \A i \in 1..nc : Writes(o, q[i]) /\ q[i].skip = 0
        BY <1>1, MergeEdgeWrites
    <2> HIDE DEF q, nc
    <2>2. Builds(o, q)
        BY <1>1, <2>1, EachBuilds DEF nc
    <2>3. QED  BY <2>2, ChainBuilds DEF PodContainerEdges, q
<1>10. Builds(o, V)
    <2> DEFINE n == Len(s.uses)
               q == [i \in DOMAIN s.uses |->
                        LET r == s.uses[i]
                        IN  MergeEdge(NodeFor(o), VolumeEdgeType[r.kind],
                                      NodeOf(r.kind, o.ns, r.name))]
    <2>1. DOMAIN q = 1..n /\ q = [i \in 1..n |-> q[i]]
          /\ \A i \in 1..n : Writes(o, q[i]) /\ q[i].skip = 0
        BY <1>2, MergeEdgeWrites
    <2> HIDE DEF q, n
    <2>2. Builds(o, q)
        BY <1>2, <2>1, EachBuilds DEF n
    <2>3. QED  BY <2>2, ChainBuilds DEF PodVolumeEdges, q
<1>11. Builds(o, L) /\ Builds(o, W)
    BY ListWrites, OwnerEdgeBuilds
<1>12. Has(L, "ListServices", ServicesArg(o, s.labels))
    <2>1. /\ ListServices(o, s.labels).op = "ListServices"
          /\ ListServices(o, s.labels).arg = ServicesArg(o, s.labels)
        BY StatementShape DEF ListServices, ServicesArg
    <2>2. Len(L) = 1 /\ L[1] = ListServices(o, s.labels)
        BY OneIsSeq
    <2>3. QED  BY <2>1, <2>2 DEF Has
<1>13. \A i \in 1..nc : Has(C, "UpsertNode", ContainerNode(o, o.containers[i]))
    <2> HIDE DEF C, nc
    <2>1. QED  BY <1>5, <1>7 DEF Has
<1> HIDE DEF C, S, E, V, L, W, nc
<1>14. Builds(o, C \o S) /\ Builds(o, C \o S \o E) /\ Builds(o, C \o S \o E \o V)
       /\ Builds(o, C \o S \o E \o V \o L) /\ Builds(o, rest)
    BY <1>6, <1>8, <1>9, <1>10, <1>11, ConcatBuilds
<1>15. /\ \A n : Has(C, "UpsertNode", n) => Has(rest, "UpsertNode", n)
       /\ Has(rest, "ListServices", ServicesArg(o, s.labels))
    <2>1. IsSeq(C) /\ IsSeq(S) /\ IsSeq(E) /\ IsSeq(V) /\ IsSeq(L) /\ IsSeq(W)
          /\ IsSeq(C \o S) /\ IsSeq(C \o S \o E) /\ IsSeq(C \o S \o E \o V)
          /\ IsSeq(C \o S \o E \o V \o L)
        BY <1>6, <1>8, <1>9, <1>10, <1>11, <1>14 DEF Builds
    <2>2. \A n : Has(C, "UpsertNode", n) => Has(C \o S \o E \o V, "UpsertNode", n)
        BY <2>1, ConcatHas
    <2>3. \A n : Has(C, "UpsertNode", n) => Has(rest, "UpsertNode", n)
        BY <2>1, <2>2, ConcatHas
    <2>4. Has(C \o S \o E \o V \o L, "ListServices", ServicesArg(o, s.labels))
        BY <1>12, <2>1, ConcatHas
    <2>5. QED  BY <2>1, <2>3, <2>4, ConcatHas
<1>16. PodAdd(o, s) = OrReturn(MergeNode(NodeFor(o)), rest)
    BY DEF PodAdd, C, S, E, V, L, W
<1> HIDE DEF rest
<1>17. /\ Writes(o, MergeNode(NodeFor(o)))
       /\ MergeNode(NodeFor(o)).op = "UpsertNode" /\ MergeNode(NodeFor(o)).arg = NodeFor(o)
    BY OwnNode, NodeWrites
<1>18. /\ Builds(o, PodAdd(o, s)) /\ Has(PodAdd(o, s), "UpsertNode", NodeFor(o))
       /\ \A op, arg : Has(rest, op, arg) => Has(PodAdd(o, s), op, arg)
    BY <1>14, <1>16, <1>17, OrReturnBuilds
<1>19. QED
    BY <1>3, <1>13, <1>15, <1>18 DEF Adds

\* A deletion of a Service's edges comes before the list that writes them again.
DropsFirst(q, op, arg) ==
    \A i \in 1..Len(q) : q[i].op = "DeleteEdgesByTypeAndNode" =>
        \E j \in i + 1..Len(q) : q[j].op = op /\ q[j].arg = arg

\* A Service: its edges go first on an update; then it lists the Pods it selects.
LEMMA ServiceAdds ==
    ASSUME NEW o, o.kind = "Service", NEW s, NEW type \in {"add", "update"}
    PROVE  /\ Adds(o, ServiceHandler(type, o, s))
           /\ s.selector # {} =>
                  /\ Has(ServiceHandler(type, o, s), "ListPods", PodsArg(o, s.selector))
                  /\ DropsFirst(ServiceHandler(type, o, s), "ListPods", PodsArg(o, s.selector))
<1> DEFINE list == ListPods(o, "SELECTS_PODS", o.ns, s.selector)
           L == IF s.selector = {} THEN <<>> ELSE <<list>>
           rest == NamespaceEdge(o) \o L
           q == ServiceAdd(o, s)
           drop == DropEdgesOf(NodeFor(o), ManagedEdgeTypes)
<1>1. /\ Builds(o, L)
      /\ s.selector # {} => Has(L, "ListPods", PodsArg(o, s.selector))
    <2>1. list.op = "ListPods" /\ list.arg = PodsArg(o, s.selector)
        BY StatementShape DEF ListPods, PodsArg
    <2>2. Len(<<list>>) = 1 /\ <<list>>[1] = list /\ Builds(o, <<list>>)
        BY OneIsSeq, ListWrites
    <2> HIDE DEF list
    <2>3. QED  BY <2>1, <2>2, EmptyBuilds DEF Has
<1>2. \A i \in 1..Len(L) : L[i].op # "DeleteEdgesByTypeAndNode"
    <2>1. list.op = "ListPods"
        BY StatementShape DEF ListPods
    <2>2. Len(<<list>>) = 1 /\ <<list>>[1] = list /\ Len(<<>>) = 0
        BY OneIsSeq, EmptyIsSeq
    <2> HIDE DEF list
    <2>3. QED  BY <2>1, <2>2
<1>3. /\ Builds(o, NamespaceEdge(o))
      /\ \A i \in 1..Len(NamespaceEdge(o)) :
             NamespaceEdge(o)[i].op # "DeleteEdgesByTypeAndNode"
    <2> DEFINE e == MergeEdge(NodeFor(o), "IN_NAMESPACE", NodeOf("Namespace", "", o.ns))
    <2>1. e.op = "UpsertEdge"
        BY StatementShape DEF MergeEdge
    <2>2. Len(<<e>>) = 1 /\ <<e>>[1] = e
        BY OneIsSeq
    <2> HIDE DEF e
    <2>3. NamespaceEdge(o) = <<e>>
        BY DEF NamespaceEdge, e
    <2>4. QED  BY <2>1, <2>2, <2>3, NamespaceEdgeBuilds
<1> HIDE DEF L
<1>4. /\ Builds(o, rest)
      /\ s.selector # {} => Has(rest, "ListPods", PodsArg(o, s.selector))
      /\ \A i \in 1..Len(rest) : rest[i].op # "DeleteEdgesByTypeAndNode"
    <2>1. IsSeq(L) /\ IsSeq(NamespaceEdge(o))
        BY <1>1, <1>3 DEF Builds
    <2>2. \A i \in 1..Len(rest) :
              \/ i \in 1..Len(NamespaceEdge(o)) /\ rest[i] = NamespaceEdge(o)[i]
              \/ i - Len(NamespaceEdge(o)) \in 1..Len(L)
                    /\ rest[i] = L[i - Len(NamespaceEdge(o))]
        BY <2>1, ConcatIsSeq
    <2>3. QED  BY <1>1, <1>2, <1>3, <2>1, <2>2, ConcatBuilds, ConcatHas
<1>5. q = OrReturn(MergeNode(NodeFor(o)), rest)
    BY DEF ServiceAdd, L
<1> HIDE DEF rest
<1>6. Adds(o, q) /\ \A op, arg : Has(rest, op, arg) => Has(q, op, arg)
    <2>1. Writes(o, MergeNode(NodeFor(o)))
        BY OwnNode, NodeWrites
    <2>2. QED  BY <1>4, <1>5, <2>1, AddBuilds, OrReturnBuilds
<1>7. IsSeq(q) /\ IsSeq(rest) /\ Len(rest) \in Nat /\ Len(q) \in Nat
    BY <1>4, <1>6 DEF Adds, Builds, IsSeq
<1>8. \A i \in 1..Len(q) : q[i].op # "DeleteEdgesByTypeAndNode"
    <2> DEFINE first == [MergeNode(NodeFor(o)) EXCEPT !.skip = Len(rest)]
    <2>1. IsStatement(MergeNode(NodeFor(o))) /\ MergeNode(NodeFor(o)).op = "UpsertNode"
        BY StatementShape DEF MergeNode
    <2>2. first.op = "UpsertNode"
        BY <1>7, <2>1, SkipShape
    <2>3. q = <<first>> \o rest
        BY <1>5 DEF OrReturn
    <2> HIDE DEF first, q
    <2>4. IsSeq(<<first>>) /\ Len(<<first>>) = 1 /\ <<first>>[1] = first
        BY OneIsSeq
    <2>5. \A i \in 1..Len(q) : \/ i \in 1..1 /\ q[i] = <<first>>[i]
                               \/ i - 1 \in 1..Len(rest) /\ q[i] = rest[i - 1]
        BY <1>7, <2>3, <2>4, ConcatIsSeq
    <2> SUFFICES ASSUME NEW i \in 1..Len(q) PROVE q[i].op # "DeleteEdgesByTypeAndNode"
        OBVIOUS
    <2>6. CASE i \in 1..1 /\ q[i] = <<first>>[i]
        BY <2>2, <2>4, <2>6
    <2>7. CASE i - 1 \in 1..Len(rest) /\ q[i] = rest[i - 1]
        BY <1>4, <2>7
    <2>8. QED  BY <2>5, <2>6, <2>7
<1>9. s.selector # {} => Has(q, "ListPods", PodsArg(o, s.selector))
    BY <1>4, <1>6
<1> HIDE DEF q, drop
<1>10. CASE type = "add"
    <2>1. ServiceHandler(type, o, s) = q
        BY <1>10 DEF ServiceHandler, q
    <2>2. QED  BY <1>6, <1>8, <1>9, <2>1 DEF DropsFirst
<1>11. CASE type = "update"
    <2> DEFINE r == <<drop>> \o q
    <2>1. ServiceHandler(type, o, s) = r
        BY <1>11 DEF ServiceHandler, q, drop
    <2>2. Builds(o, <<drop>>)
        <3>1. Writes(o, drop) /\ drop.skip = 0
            BY StatementShape DEF Writes, DropEdgesOf, drop
        <3>2. QED  BY <3>1, OneBuilds
    <2>3. IsSeq(<<drop>>) /\ Len(<<drop>>) = 1
        BY OneIsSeq
    <2>4. Adds(o, r)
        BY <1>6, <2>2, AddsAfter
    <2>5. s.selector # {} => Has(r, "ListPods", PodsArg(o, s.selector))
        BY <1>7, <1>9, <2>3, ConcatHas
    <2>6. /\ Len(r) = 1 + Len(q)
          /\ \A i \in 1..Len(q) : r[1 + i] = q[i]
          /\ \A i \in 1..Len(r) : i \in 1..1 \/ (i - 1 \in 1..Len(q) /\ r[i] = q[i - 1])
        BY <1>7, <2>3, ConcatIsSeq
    <2>7. s.selector # {} => DropsFirst(r, "ListPods", PodsArg(o, s.selector))
        <3> HIDE DEF r
        <3> SUFFICES ASSUME s.selector # {}, NEW i \in 1..Len(r),
                            r[i].op = "DeleteEdgesByTypeAndNode"
                     PROVE  \E j \in i + 1..Len(r) :
                                r[j].op = "ListPods" /\ r[j].arg = PodsArg(o, s.selector)
            BY DEF DropsFirst
        <3>1. i = 1
            BY <1>8, <2>6
        <3>2. PICK k \in 1..Len(q) : q[k].op = "ListPods" /\ q[k].arg = PodsArg(o, s.selector)
            BY <1>9 DEF Has
        <3>3. 1 + k \in i + 1..Len(r) /\ r[1 + k] = q[k]
            BY <1>7, <2>6, <3>1
        <3>4. QED  BY <3>2, <3>3
    <2>8. QED  BY <2>1, <2>4, <2>5, <2>7
<1>12. QED  BY <1>10, <1>11

\* The other core kinds.
LEMMA NamespacedAdds ==
    ASSUME NEW o, o.kind # "Pod", NEW type \in {"add", "update"}
    PROVE  Adds(o, NamespacedHandler(type, o))
BY NamespaceEdgeBuilds, AddBuilds DEF NamespacedHandler

LEMMA SecretAdds ==
    ASSUME NEW o, o.kind \notin {"Pod", "Service"}, NEW type \in {"add", "update"}
    PROVE  Adds(o, SecretHandler(type, o))
<1>1. Builds(o, <<DropEdges(NodeFor(o))>>)
    <2>1. Writes(o, DropEdges(NodeFor(o))) /\ DropEdges(NodeFor(o)).skip = 0
        BY StatementShape DEF Writes, DropEdges
    <2>2. QED  BY <2>1, OneBuilds
<1>2. QED
    BY <1>1, EmptyBuilds, NamespacedAdds, AddsAfter DEF SecretHandler

LEMMA OtherCoreAdds ==
    ASSUME NEW o, o.kind # "Pod", NEW s, NEW type \in {"add", "update"}
    PROVE  /\ Adds(o, NodeHandler(type, o)) /\ Adds(o, NamespaceHandler(type, o))
           /\ Adds(o, StorageClassHandler(type, o)) /\ Adds(o, GatewayClassHandler(type, o))
           /\ Adds(o, ReplicaSetHandler(type, o, s)) /\ Adds(o, PVHandler(type, o, s))
           /\ Adds(o, PVCHandler(type, o, s)) /\ Adds(o, EventHandler(type, o))
<1>1. Builds(o, NamespaceEdge(o) \o OwnerEdge(o, s.owner))
    BY NamespaceEdgeBuilds, OwnerEdgeBuilds, ConcatBuilds
<1>2. Builds(o, NamespaceEdge(o)
            \o (IF s.volume = "" THEN <<>>
                ELSE <<MergeEdge(NodeFor(o), "BOUND_TO", NodeOf("PersistentVolume", "", s.volume))>>)
            \o ClassEdge(o, s.class))
    BY NamespaceEdgeBuilds, EdgeBuilds, EmptyBuilds, ClassEdgeBuilds, ConcatBuilds
<1>3. Builds(o, IF o.involved.kind \notin RegisteredKinds THEN <<>>
                ELSE <<MergeEdge(NodeFor(o), "INVOLVES",
                                 ReferredNode(o.involved.kind, o.ns, o.involved.name))>>)
    BY EdgeBuilds, EmptyBuilds
<1>4. Adds(o, NodeHandler(type, o)) /\ Adds(o, NamespaceHandler(type, o))
      /\ Adds(o, StorageClassHandler(type, o)) /\ Adds(o, GatewayClassHandler(type, o))
    BY NodeAlone DEF NodeHandler, NamespaceHandler, StorageClassHandler, GatewayClassHandler
<1>5. Adds(o, ReplicaSetHandler(type, o, s))
    BY <1>1, AddBuilds DEF ReplicaSetHandler
<1>6. Adds(o, PVHandler(type, o, s))
    BY ClassEdgeBuilds, AddBuilds DEF PVHandler
<1>7. Adds(o, PVCHandler(type, o, s))
    BY <1>2, AddBuilds DEF PVCHandler
<1>8. Adds(o, EventHandler(type, o))
    BY <1>3, AddBuilds DEF EventHandler
<1>9. QED  BY <1>4, <1>5, <1>6, <1>7, <1>8

(***************************************************************************)
(* The extensions: an update deletes the node's edges and adds again.      *)
(***************************************************************************)

\* The kinds that RefreshAdds is about.
LEMMA RefreshOrReturn ==
    ASSUME NEW o, o.kind \notin {"Pod", "Service"}, NEW type \in {"add", "update"},
           NEW rest, Builds(o, rest)
    PROVE  Adds(o, Refresh(type, o, OrReturn(MergeNode(NodeFor(o)), NamespaceEdge(o) \o rest)))
BY NamespaceEdgeBuilds, ConcatBuilds, AddBuilds, RefreshAdds

LEMMA GatewayAdds ==
    ASSUME NEW o, NEW s, WellFormed(o, s), NEW type \in {"add", "update"}
    PROVE  /\ o.kind = "Gateway" => Adds(o, GatewayHandler(type, o, s))
           /\ o.kind \in RouteKinds => Adds(o, RouteHandler(type, o, s))
           /\ o.kind = "ReferenceGrant" => Adds(o, ReferenceGrantHandler(type, o, s))
           /\ o.kind = "BackendTLSPolicy" => Adds(o, BackendTLSPolicyHandler(type, o, s))
<1>1. ASSUME o.kind = "Gateway" PROVE Adds(o, GatewayHandler(type, o, s))
    <2> DEFINE N == NamespaceEdge(o)
               C == <<MergeEdge(NodeFor(o), "IMPLEMENTED_BY", NodeOf("GatewayClass", "", s.class))>>
               S == EdgesTo(o, "USES_TLS_FROM", "Secret", s.certificates)
    <2>1. Builds(o, N) /\ Builds(o, C) /\ Builds(o, S)
        BY <1>1, NamespaceEdgeBuilds, EdgeBuilds, EdgesToBuilds, SpecSequences
    <2> HIDE DEF N, C, S
    <2>2. Builds(o, N \o C \o S)
        BY <2>1, ConcatBuilds
    <2>3. GatewayHandler(type, o, s) = Refresh(type, o, OrReturn(MergeNode(NodeFor(o)), N \o C \o S))
        BY DEF GatewayHandler, N, C, S
    <2>4. QED  BY <1>1, <2>2, <2>3, AddBuilds, RefreshAdds
<1>2. ASSUME o.kind \in RouteKinds PROVE Adds(o, RouteHandler(type, o, s))
    <2> DEFINE N == NamespaceEdge(o)
               P == EdgesTo(o, "ATTACHES_TO", "Gateway", s.parents)
               B == EdgesTo(o, "FORWARDS_TO", "Service", s.backends)
    <2>1. Builds(o, N) /\ Builds(o, P) /\ Builds(o, B)
        BY <1>2, NamespaceEdgeBuilds, EdgesToBuilds, SpecSequences
    <2> HIDE DEF N, P, B
    <2>2. Builds(o, N \o P \o B)
        BY <2>1, ConcatBuilds
    <2>3. RouteHandler(type, o, s) = Refresh(type, o, OrReturn(MergeNode(NodeFor(o)), N \o P \o B))
        BY DEF RouteHandler, N, P, B
    <2>4. o.kind \notin {"Pod", "Service"}
        BY <1>2 DEF RouteKinds
    <2>5. QED  BY <2>2, <2>3, <2>4, AddBuilds, RefreshAdds
<1>3. o.kind = "ReferenceGrant" => Adds(o, ReferenceGrantHandler(type, o, s))
    BY EdgesToBuilds, SpecSequences, RefreshOrReturn DEF ReferenceGrantHandler
<1>4. o.kind = "BackendTLSPolicy" => Adds(o, BackendTLSPolicyHandler(type, o, s))
    BY EdgesToBuilds, SpecSequences, RefreshOrReturn DEF BackendTLSPolicyHandler
<1>5. QED
    BY <1>1, <1>2, <1>3, <1>4

LEMMA IstioAdds ==
    ASSUME NEW o, o.kind \in IstioKinds, NEW s, WellFormed(o, s), NEW type \in {"add", "update"}
    PROVE  Adds(o, IstioHandler(type, o, s))
<1>0. o.kind \notin {"Pod", "Service"}
    BY DEF IstioKinds
<1>1. CASE o.kind = "VirtualService"
    <2> DEFINE refs == [i \in DOMAIN s.gateways |-> ParseGatewayRef(s.gateways[i], o.ns)]
               N == NamespaceEdge(o)
               G == EdgesTo(o, "ATTACHES_TO", "IstioGateway", refs)
               H == EdgesTo(o, "ROUTES_TRAFFIC_FOR", "Service", Named(Parsed(s.hosts, o.ns)))
               T == EdgesTo(o, "ROUTES_TO_SUBSET", "DestinationRule", Parsed(s.subsets, o.ns))
    <2>1. IsSeq(s.gateways) /\ IsSeq(s.hosts) /\ IsSeq(s.subsets)
        BY <1>1, SpecSequences
    <2>2. Len(s.gateways) \in Nat /\ DOMAIN refs = 1..Len(s.gateways)
          /\ refs = [i \in 1..Len(s.gateways) |-> refs[i]]
        BY <2>1 DEF IsSeq
    <2> HIDE DEF refs
    <2>3. IsSeq(refs)
        BY <2>2, FunIsSeq
    <2>4. IsSeq(Named(Parsed(s.hosts, o.ns))) /\ IsSeq(Parsed(s.subsets, o.ns))
        BY <2>1, ParsedIsSeq, NamedIsSeq
    <2>5. Builds(o, N) /\ Builds(o, G) /\ Builds(o, H) /\ Builds(o, T)
        BY <2>3, <2>4, NamespaceEdgeBuilds, EdgesToBuilds
    <2> HIDE DEF N, G, H, T
    <2>6. Builds(o, N \o G \o H \o T)
        BY <2>5, ConcatBuilds
    <2>7. VirtualServiceHandler(type, o, s)
            = Refresh(type, o, OrReturn(MergeNode(NodeFor(o)), N \o G \o H \o T))
        BY DEF VirtualServiceHandler, N, G, H, T, refs
    <2>8. IstioHandler(type, o, s) = VirtualServiceHandler(type, o, s)
        BY <1>1 DEF IstioHandler
    <2>9. QED  BY <1>0, <2>6, <2>7, <2>8, AddBuilds, RefreshAdds
<1>2. CASE o.kind = "DestinationRule"
    <2> DEFINE host == <<ParseServiceHost(s.host, o.ns)>>
               N == NamespaceEdge(o)
               D == EdgesTo(o, "DEFINES_POLICY_FOR", "Service", Named(host))
               P == SubsetPodEdges(o, s)
               n == Len(s.subsets)
    <2>1. IsSeq(s.subsets)
        BY <1>2, SpecSequences
    <2>2. n \in Nat /\ DOMAIN s.subsets = 1..n
        BY <2>1 DEF IsSeq
    <2> DEFINE list(i) == ListPods(o, "SELECTS_SUBSET_PODS", ParseServiceHost(s.host, o.ns).ns,
                                   s.subsets[i])
    <2>3. DOMAIN P = 1..n /\ P = [i \in 1..n |-> P[i]] /\ \A i \in 1..n : P[i] = list(i)
        BY <2>2 DEF SubsetPodEdges
    <2>4. \A i \in 1..n : Writes(o, list(i)) /\ list(i).skip = 0
        BY ListWrites
    <2> HIDE DEF P, n, list
    <2>5. Builds(o, P)
        BY <2>2, <2>3, <2>4, EachBuilds
    <2>6. IsSeq(Named(host))
        BY OneIsSeq, NamedIsSeq
    <2>7. Builds(o, N) /\ Builds(o, D)
        BY <2>6, NamespaceEdgeBuilds, EdgesToBuilds
    <2> HIDE DEF N, D
    <2>8. Builds(o, N \o D \o P)
        BY <2>5, <2>7, ConcatBuilds
    <2>9. DestinationRuleHandler(type, o, s)
            = Refresh(type, o, OrReturn(MergeNode(NodeFor(o)), N \o D \o P))
        BY DEF DestinationRuleHandler, N, D, P, host
    <2>10. IstioHandler(type, o, s) = DestinationRuleHandler(type, o, s)
        BY <1>2 DEF IstioHandler
    <2>11. QED  BY <1>0, <2>8, <2>9, <2>10, AddBuilds, RefreshAdds
<1>3. CASE o.kind = "IstioGateway"
    <2>1. Builds(o, IF s.selector = {} THEN <<>>
                    ELSE <<ListPods(o, "SELECTS_PROXY", "", s.selector)>>)
        BY EmptyBuilds, ListWrites
    <2>2. Adds(o, IstioGatewayHandler(type, o, s))
        BY <1>0, <2>1, RefreshOrReturn DEF IstioGatewayHandler
    <2>3. QED  BY <1>3, <2>2 DEF IstioHandler
<1>4. CASE o.kind \in {"AuthorizationPolicy", "PeerAuthentication", "RequestAuthentication"}
    <2>1. Builds(o, IstioPolicyAppliesTo(o, s))
        BY ListWrites DEF IstioPolicyAppliesTo
    <2>2. /\ Adds(o, AuthorizationPolicyHandler(type, o, s))
          /\ Adds(o, PeerAuthenticationHandler(type, o, s))
          /\ Adds(o, RequestAuthenticationHandler(type, o, s))
        BY <1>0, <2>1, RefreshOrReturn
        DEF AuthorizationPolicyHandler, PeerAuthenticationHandler, RequestAuthenticationHandler
    <2>3. QED  BY <1>4, <2>2 DEF IstioHandler
<1>5. CASE o.kind \in {"ServiceEntry", "Sidecar"}
    <2>1. Adds(o, ServiceEntryHandler(type, o)) /\ Adds(o, SidecarHandler(type, o))
        BY <1>0, NamespaceEdgeBuilds, AddBuilds, RefreshAdds
        DEF ServiceEntryHandler, SidecarHandler
    <2>2. QED  BY <1>5, <2>1 DEF IstioHandler
<1>6. QED
    BY <1>1, <1>2, <1>3, <1>4, <1>5 DEF IstioKinds

LEMMA KuadrantAdds ==
    ASSUME NEW o, o.kind \in KuadrantKinds, NEW s, WellFormed(o, s),
           NEW type \in {"add", "update"}
    PROVE  Adds(o, KuadrantKindHandler(type, o, s))
<1> DEFINE N == NamespaceEdge(o)
           A == PolicyAppliesTo(o, s)
<1>0. o.kind \notin {"Pod", "Service"}
    BY DEF KuadrantKinds
<1>1. Builds(o, N) /\ Builds(o, A)
    BY NamespaceEdgeBuilds, OneIsSeq, EdgesToBuilds DEF PolicyAppliesTo
<1>2. Builds(o, N \o A)
    BY <1>1, ConcatBuilds
<1>3. \A X : Builds(o, X) =>
          Adds(o, Refresh(type, o, OrReturn(MergeNode(NodeFor(o)), N \o A \o X)))
    BY <1>0, <1>2, ConcatBuilds, AddBuilds, RefreshAdds
<1>4. CASE o.kind \in {"AuthPolicy", "RateLimitPolicy"}
    <2>1. Adds(o, AuthPolicyHandler(type, o, s)) /\ Adds(o, RateLimitPolicyHandler(type, o, s))
        BY <1>3, ListWrites DEF AuthPolicyHandler, RateLimitPolicyHandler
    <2>2. QED  BY <1>4, <2>1 DEF KuadrantKindHandler
<1>5. CASE o.kind = "DNSPolicy"
    <2>1. Builds(o, EdgesTo(o, "USES_SECRET", "Secret", s.providers))
        BY <1>5, SpecSequences, EdgesToBuilds
    <2>2. Adds(o, DNSPolicyHandler(type, o, s))
        BY <1>3, <2>1 DEF DNSPolicyHandler
    <2>3. QED  BY <1>5, <2>2 DEF KuadrantKindHandler
<1>6. CASE o.kind = "TLSPolicy"
    <2>1. Adds(o, TLSPolicyHandler(type, o, s))
        BY <1>0, <1>2, AddBuilds, RefreshAdds DEF TLSPolicyHandler
    <2>2. QED  BY <1>6, <2>1 DEF KuadrantKindHandler
<1>7. CASE o.kind = "Kuadrant"
    <2> DEFINE a == EdgeToServiceWith(o, "MANAGES", Authorino)
               l == EdgeToServiceWith(o, "MANAGES", Limitador)
    <2>1. Writes(o, a) /\ a.skip = 0 /\ Writes(o, l) /\ l.skip = 0
        BY ListWrites DEF a, l
    <2> HIDE DEF a, l
    <2> DEFINE q == <<a, l>>
    <2>2. Builds(o, q)
        <3>1. DOMAIN q = 1..2 /\ q = [i \in 1..2 |-> q[i]] /\ q[1] = a /\ q[2] = l
            OBVIOUS
        <3> HIDE DEF q
        <3>2. \A i \in 1..2 : Writes(o, q[i]) /\ q[i].skip = 0
            BY <2>1, <3>1
        <3>3. QED  BY <3>1, <3>2, EachBuilds, ZenonT(40)
    <2>3. Adds(o, KuadrantHandler(type, o))
        BY <1>0, <2>2, RefreshOrReturn DEF KuadrantHandler, a, l
    <2>4. QED  BY <1>7, <2>3 DEF KuadrantKindHandler
<1>8. QED
    BY <1>4, <1>5, <1>6, <1>7 DEF KuadrantKinds

(***************************************************************************)
(* All kinds.                                                              *)
(***************************************************************************)

\* The kinds that have a handler of their own.
ObjectKinds == HandledKinds \ {"Container"}

\* An add or an update of any kind writes every node of its object and no other
\* one, deletes none, and has the lists that find a Service's Pods and a Pod's
\* Services; each failure leads past statements of the handler only.
THEOREM HandlerAdds ==
    ASSUME NEW o, o.kind \in ObjectKinds, NEW s, WellFormed(o, s), NEW type \in {"add", "update"}
    PROVE  /\ Adds(o, Handler(type, o, s))
           /\ o.kind = "Pod" =>
                  Has(Handler(type, o, s), "ListServices", ServicesArg(o, s.labels))
           /\ o.kind = "Service" /\ s.selector # {} =>
                  /\ Has(Handler(type, o, s), "ListPods", PodsArg(o, s.selector))
                  /\ DropsFirst(Handler(type, o, s), "ListPods", PodsArg(o, s.selector))
<1>1. CASE o.kind \in IstioKinds
    <2>1. Handler(type, o, s) = IstioHandler(type, o, s)
        BY <1>1 DEF Handler, IstioKinds, KuadrantKinds
    <2>2. o.kind \notin {"Pod", "Service"}
        BY <1>1 DEF IstioKinds
    <2>3. QED  BY <1>1, <2>1, <2>2, IstioAdds
<1>2. CASE o.kind \in KuadrantKinds
    <2>1. Handler(type, o, s) = KuadrantKindHandler(type, o, s)
        BY <1>2 DEF Handler, IstioKinds, KuadrantKinds
    <2>2. o.kind \notin {"Pod", "Service"}
        BY <1>2 DEF KuadrantKinds
    <2>3. QED  BY <1>2, <2>1, <2>2, KuadrantAdds
<1>3. CASE o.kind \in GatewayKinds \union CoreKinds
    <2>1. Handler(type, o, s) = ResourceHandler(type, o, s)
        BY <1>3 DEF Handler, IstioKinds, KuadrantKinds, GatewayKinds, CoreKinds
    <2>2. CASE o.kind = "Pod"
        <3>1. Handler(type, o, s) = PodAdd(o, s)
            BY <2>1, <2>2 DEF ResourceHandler, PodHandler
        <3>2. QED  BY <2>2, <3>1, PodAdds
    <2>3. CASE o.kind = "Service"
        <3>1. Handler(type, o, s) = ServiceHandler(type, o, s)
            BY <2>1, <2>3 DEF ResourceHandler
        <3>2. QED  BY <2>3, <3>1, ServiceAdds
    <2>4. CASE o.kind \in {"Gateway", "ReferenceGrant", "BackendTLSPolicy"}
        <3>1. Adds(o, ResourceHandler(type, o, s))
            BY <2>4, GatewayAdds DEF ResourceHandler
        <3>2. QED  BY <2>1, <2>4, <3>1
    <2>5. CASE o.kind \in RouteKinds
        <3>1. ResourceHandler(type, o, s) = RouteHandler(type, o, s)
            BY <2>5
            DEF ResourceHandler, RouteKinds, HTTPRouteHandler, GRPCRouteHandler,
                TCPRouteHandler, UDPRouteHandler, TLSRouteHandler
        <3>2. o.kind \notin {"Pod", "Service"}
            BY <2>5 DEF RouteKinds
        <3>3. QED  BY <2>1, <2>5, <3>1, <3>2, GatewayAdds
    <2>6. CASE o.kind \in {"Node", "Namespace", "StorageClass", "GatewayClass", "ReplicaSet",
                           "PersistentVolume", "PersistentVolumeClaim", "Event"}
        <3>1. Adds(o, ResourceHandler(type, o, s))
            BY <2>6, OtherCoreAdds DEF ResourceHandler
        <3>2. QED  BY <2>1, <2>6, <3>1
    <2>7. CASE o.kind \in {"Deployment", "StatefulSet", "DaemonSet", "ConfigMap", "Secret"}
        <3>1. Adds(o, NamespacedHandler(type, o)) /\ Adds(o, SecretHandler(type, o))
            BY <2>7, NamespacedAdds, SecretAdds
        <3>2. Adds(o, ResourceHandler(type, o, s))
            BY <2>7, <3>1
            DEF ResourceHandler, DeploymentHandler, StatefulSetHandler, DaemonSetHandler,
                ConfigMapHandler
        <3>3. QED  BY <2>1, <2>7, <3>2
    <2>8. QED
        BY <1>3, <2>2, <2>3, <2>4, <2>5, <2>6, <2>7
        DEF GatewayKinds, CoreKinds, RouteKinds, ObjectKinds
<1>4. QED
    BY <1>1, <1>2, <1>3 DEF ObjectKinds, HandledKinds

\* No object's node.
Nobodys(n) == \A p : p.kind \in ObjectKinds => n \notin NodesOf(p)

\* A handler that only deletes, and only what is the object's or nobody's.
Erases(o, q) ==
    /\ IsSeq(q)
    /\ \A i \in 1..Len(q) :
           /\ IsStatement(q[i]) /\ q[i].op = "DeleteNode" /\ q[i].skip = 0
           /\ q[i].arg \in NodesOf(o) \/ Nobodys(q[i].arg)

LEMMA OneErases ==
    ASSUME NEW o, NEW n, n \in NodesOf(o) \/ Nobodys(n)
    PROVE  Erases(o, <<DetachDelete(n)>>) /\ Has(<<DetachDelete(n)>>, "DeleteNode", n)
<1> DEFINE st == DetachDelete(n)
<1>1. IsStatement(st) /\ st.op = "DeleteNode" /\ st.skip = 0 /\ st.arg = n
    BY StatementShape DEF DetachDelete
<1> HIDE DEF st
<1>2. IsSeq(<<st>>) /\ Len(<<st>>) = 1 /\ <<st>>[1] = st
    BY OneIsSeq
<1>3. Erases(o, <<st>>) /\ Has(<<st>>, "DeleteNode", n)
    BY <1>1, <1>2 DEF Erases, Has
<1>4. QED
    BY <1>3 DEF st

\* The nodes' ids have two parts or three, those of containers and events have
\* more; a bare name has one.
LEMMA BareNameIsNobodys ==
    ASSUME NEW o, o.kind \in {"Namespace", "StorageClass", "PersistentVolume", "GatewayClass"}
    PROVE  Nobodys(BareName(o))
<1> SUFFICES ASSUME NEW p, p.kind \in ObjectKinds, BareName(o) \in NodesOf(p) PROVE FALSE
    BY DEF Nobodys
<1>1. BareName(o)[1] = o.kind /\ BareName(o)[2] = <<o.name>> /\ Len(BareName(o)[2]) = 1
    BY DEF BareName
<1>2. ASSUME NEW c PROVE ContainerNode(p, c)[1] = "Container"
    BY DEF ContainerNode
<1>3. EventNode(p)[1] = "K8sEvent"
    BY DEF EventNode
<1>4. ASSUME NEW type, NEW ns, NEW name PROVE Len(NodeOf(type, ns, name)[2]) \in {2, 3}
    BY DEF NodeOf, GetNodeID
<1>5. BareName(o) = NodeFor(p) \/ \E c : BareName(o) = ContainerNode(p, c)
    BY DEF NodesOf
<1>6. QED
    BY <1>1, <1>2, <1>3, <1>4, <1>5 DEF NodeFor

LEMMA EventDeleteIsNobodys ==
    ASSUME NEW a, NEW b, NEW c
    PROVE  Nobodys(<<"K8sEvent", <<a, b, c>>>>)
<1> DEFINE n == <<"K8sEvent", <<a, b, c>>>>
<1> SUFFICES ASSUME NEW p, p.kind \in ObjectKinds, n \in NodesOf(p) PROVE FALSE
    BY DEF Nobodys
<1>1. n[1] = "K8sEvent" /\ Len(n[2]) = 3
    OBVIOUS
<1> HIDE DEF n
<1>2. ASSUME NEW d PROVE ContainerNode(p, d)[1] = "Container"
    BY DEF ContainerNode
<1>3. Len(EventNode(p)[2]) = 4
    BY DEF EventNode
<1>4. NodeOf(p.kind, p.ns, p.name)[1] = p.kind
    BY DEF NodeOf
<1>5. n = NodeFor(p) \/ \E d : n = ContainerNode(p, d)
    BY DEF NodesOf
<1>6. p.kind # "K8sEvent"
    BY DEF ObjectKinds, HandledKinds, CoreKinds, GatewayKinds, IstioKinds, KuadrantKinds
<1>7. QED
    BY <1>1, <1>2, <1>3, <1>4, <1>5, <1>6 DEF NodeFor

LEMMA PodErases ==
    ASSUME NEW o, o.kind = "Pod", IsSequence(o.containers)
    PROVE  Erases(o, PodDelete(o)) /\ \A n \in NodesOf(o) : Has(PodDelete(o), "DeleteNode", n)
<1> DEFINE nc == Len(o.containers)
           C == [i \in DOMAIN o.containers |-> DetachDelete(ContainerNodes(o)[i])]
           D == <<DetachDelete(NodeFor(o))>>
<1>1. nc \in Nat /\ DOMAIN o.containers = 1..nc
    BY SequenceIsSeq DEF IsSeq
<1>2. NodesOf(o) = {NodeFor(o)} \union {ContainerNode(o, o.containers[i]) : i \in 1..nc}
    BY <1>1 DEF NodesOf
<1>3. DOMAIN C = 1..nc /\ C = [i \in 1..nc |-> C[i]]
      /\ \A i \in 1..nc : C[i] = DetachDelete(ContainerNode(o, o.containers[i]))
    BY <1>1 DEF ContainerNodes
<1>4. Erases(o, D) /\ Has(D, "DeleteNode", NodeFor(o))
    BY OneErases, OwnNode
<1>5. PodDelete(o) = C \o D
    BY DEF PodDelete
<1> HIDE DEF C, D, nc
<1>6. \A i \in 1..nc : /\ IsStatement(C[i]) /\ C[i].op = "DeleteNode" /\ C[i].skip = 0
                       /\ C[i].arg = ContainerNode(o, o.containers[i])
    BY <1>3, StatementShape DEF DetachDelete
<1>7. IsSeq(C) /\ Len(C) = nc
    BY <1>1, <1>3, FunIsSeq
<1>8. IsSeq(D) /\ Len(D) \in Nat
    BY <1>4 DEF Erases, IsSeq
<1>9. /\ IsSeq(C \o D)
      /\ \A i \in 1..Len(C \o D) : \/ i \in 1..Len(C) /\ (C \o D)[i] = C[i]
                                   \/ i - Len(C) \in 1..Len(D) /\ (C \o D)[i] = D[i - Len(C)]
    BY <1>7, <1>8, ConcatIsSeq
<1>10. Erases(o, C \o D)
    <2> DEFINE q == C \o D
    <2> HIDE DEF q
    <2> SUFFICES ASSUME NEW i \in 1..Len(q)
                 PROVE  /\ IsStatement(q[i]) /\ q[i].op = "DeleteNode" /\ q[i].skip = 0
                        /\ q[i].arg \in NodesOf(o) \/ Nobodys(q[i].arg)
        BY <1>9 DEF Erases, q
    <2>1. CASE i \in 1..Len(C) /\ q[i] = C[i]
        BY <1>2, <1>6, <1>7, <2>1
    <2>2. CASE i - Len(C) \in 1..Len(D) /\ q[i] = D[i - Len(C)]
        BY <1>4, <2>2 DEF Erases
    <2>3. QED  BY <1>9, <2>1, <2>2 DEF q
<1>11. \A i \in 1..nc : Has(C, "DeleteNode", ContainerNode(o, o.containers[i]))
    BY <1>6, <1>7 DEF Has
<1>12. \A n \in NodesOf(o) : Has(C \o D, "DeleteNode", n)
    BY <1>2, <1>4, <1>7, <1>8, <1>11, ConcatHas
<1>13. QED
    BY <1>5, <1>10, <1>12

\* The kinds whose HandleDelete names the node by something else than its id.
Misnamed == {"Namespace", "PersistentVolume", "StorageClass", "Event", "GatewayClass"}

\* A delete of any kind only deletes nodes, its object's or nobody's; all of its
\* object's unless the kind is one of the five that name the node otherwise.
THEOREM HandlerErases ==
    ASSUME NEW o, o.kind \in ObjectKinds, NEW s, WellFormed(o, s)
    PROVE  /\ Erases(o, Handler("delete", o, s))
           /\ o.kind \notin Misnamed =>
                  \A n \in NodesOf(o) : Has(Handler("delete", o, s), "DeleteNode", n)
<1> DEFINE h == Handler("delete", o, s)
<1>1. CASE o.kind = "Pod"
    <2>1. h = PodDelete(o)
        BY <1>1 DEF Handler, ResourceHandler, PodHandler, IstioKinds, KuadrantKinds
    <2>2. IsSequence(o.containers)
        BY <1>1 DEF WellFormed
    <2>3. QED  BY <1>1, <2>1, <2>2, PodErases
<1>2. CASE o.kind \in Misnamed
    <2>1. CASE o.kind = "Event"
        <3>1. h = <<DetachDelete(<<"K8sEvent", <<o.ns, o.involved.name, o.name>>>>)>>
            BY <2>1 DEF Handler, ResourceHandler, EventHandler, IstioKinds, KuadrantKinds
        <3>2. QED  BY <1>2, <3>1, EventDeleteIsNobodys, OneErases
    <2>2. CASE o.kind # "Event"
        <3>1. h = <<DetachDelete(BareName(o))>>
            BY <1>2, <2>2
            DEF Misnamed, Handler, ResourceHandler, NamespaceHandler, StorageClassHandler,
                PVHandler, GatewayClassHandler, IstioKinds, KuadrantKinds
        <3>2. Nobodys(BareName(o))
            BY <1>2, <2>2, BareNameIsNobodys DEF Misnamed
        <3>3. QED  BY <1>2, <3>1, <3>2, OneErases
    <2>3. QED  BY <2>1, <2>2
<1>3. CASE o.kind \notin Misnamed /\ o.kind # "Pod"
    <2> DEFINE D == <<DetachDelete(NodeFor(o))>>
    <2>1. \A add : Refresh("delete", o, add) = D
        <3>1. ASSUME NEW add PROVE Refresh("delete", o, add) = <<DetachDelete(NodeFor(o))>>
            BY DEF Refresh
        <3>2. QED  BY <3>1
    <2> HIDE DEF D
    <2>2. ASSUME o.kind \in IstioKinds PROVE h = D
        <3>1. /\ IstioGatewayHandler("delete", o, s) = D
              /\ VirtualServiceHandler("delete", o, s) = D
              /\ DestinationRuleHandler("delete", o, s) = D
            <4>1. IstioGatewayHandler("delete", o, s) = D
                <5> DEFINE proxies == IF s.selector = {} THEN <<>>
                                      ELSE <<ListPods(o, "SELECTS_PROXY", "", s.selector)>>
                           add == OrReturn(MergeNode(NodeFor(o)), NamespaceEdge(o) \o proxies)
                <5> HIDE DEF proxies, add
                <5>1. Refresh("delete", o, add) = D
                    BY <2>1
                <5>2. IstioGatewayHandler("delete", o, s) = Refresh("delete", o, add)
                    BY DEF IstioGatewayHandler, proxies, add
                <5>3. QED  BY <5>1, <5>2
            <4>2. VirtualServiceHandler("delete", o, s) = D
                BY <2>1, Zenon DEF VirtualServiceHandler
            <4>3. DestinationRuleHandler("delete", o, s) = D
                BY <2>1, Zenon DEF DestinationRuleHandler
            <4>4. QED  BY <4>1, <4>2, <4>3
        <3>2. /\ ServiceEntryHandler("delete", o) = D /\ SidecarHandler("delete", o) = D
              /\ AuthorizationPolicyHandler("delete", o, s) = D
              /\ PeerAuthenticationHandler("delete", o, s) = D
              /\ RequestAuthenticationHandler("delete", o, s) = D
            BY <2>1
            DEF ServiceEntryHandler, SidecarHandler, AuthorizationPolicyHandler,
                PeerAuthenticationHandler, RequestAuthenticationHandler
        <3>3. IstioHandler("delete", o, s) = D
            BY <2>2, <3>1, <3>2 DEF IstioHandler, IstioKinds
        <3>4. h = IstioHandler("delete", o, s)
            BY <2>2 DEF Handler, IstioKinds, KuadrantKinds
        <3>5. QED  BY <3>3, <3>4
    <2>3. ASSUME o.kind \in KuadrantKinds PROVE h = D
        <3>1. /\ AuthPolicyHandler("delete", o, s) = D /\ DNSPolicyHandler("delete", o, s) = D
              /\ RateLimitPolicyHandler("delete", o, s) = D
              /\ TLSPolicyHandler("delete", o, s) = D /\ KuadrantHandler("delete", o) = D
            BY <2>1
            DEF AuthPolicyHandler, RateLimitPolicyHandler, DNSPolicyHandler, TLSPolicyHandler,
                KuadrantHandler
        <3>2. KuadrantKindHandler("delete", o, s) = D
            BY <2>3, <3>1 DEF KuadrantKindHandler, KuadrantKinds
        <3>3. h = KuadrantKindHandler("delete", o, s)
            BY <2>3 DEF Handler, IstioKinds, KuadrantKinds
        <3>4. QED  BY <3>2, <3>3
    <2>4. ASSUME o.kind \in GatewayKinds PROVE h = D
        <3>1. /\ GatewayHandler("delete", o, s) = D /\ RouteHandler("delete", o, s) = D
              /\ ReferenceGrantHandler("delete", o, s) = D
              /\ BackendTLSPolicyHandler("delete", o, s) = D
            BY <2>1
            DEF GatewayHandler, RouteHandler, ReferenceGrantHandler, BackendTLSPolicyHandler
        <3>2. ResourceHandler("delete", o, s) = D
            BY <1>3, <2>4, <3>1
            DEF ResourceHandler, GatewayKinds, Misnamed, HTTPRouteHandler, GRPCRouteHandler,
                TCPRouteHandler, UDPRouteHandler, TLSRouteHandler
        <3>3. h = ResourceHandler("delete", o, s)
            BY <2>4 DEF Handler, IstioKinds, KuadrantKinds, GatewayKinds
        <3>4. QED  BY <3>2, <3>3
    <2>5. ASSUME o.kind \in CoreKinds PROVE h = D
        <3>1. /\ NodeHandler("delete", o) = D /\ ServiceHandler("delete", o, s) = D
              /\ NamespacedHandler("delete", o) = D /\ ReplicaSetHandler("delete", o, s) = D
              /\ PVCHandler("delete", o, s) = D
            BY DEF NodeHandler, ServiceHandler, NamespacedHandler, ReplicaSetHandler, PVCHandler, D
        <3>2. SecretHandler("delete", o) = D
            <4>1. SecretHandler("delete", o) = <<>> \o D
                BY <3>1 DEF SecretHandler
            <4>2. <<>> \o D = D
                BY DEF D
            <4>3. QED  BY <4>1, <4>2
        <3>3. ResourceHandler("delete", o, s) = D
            BY <1>3, <2>5, <3>1, <3>2
            DEF ResourceHandler, CoreKinds, ObjectKinds, Misnamed, DeploymentHandler,
                StatefulSetHandler, DaemonSetHandler, ConfigMapHandler
        <3>4. h = ResourceHandler("delete", o, s)
            BY <2>5 DEF Handler, IstioKinds, KuadrantKinds, CoreKinds
        <3>5. QED  BY <3>3, <3>4
    <2>6. h = D
        BY <2>2, <2>3, <2>4, <2>5 DEF ObjectKinds, HandledKinds
    <2>7. Erases(o, D) /\ Has(D, "DeleteNode", NodeFor(o))
        BY OneErases, OwnNode DEF D
    <2>8. NodesOf(o) = {NodeFor(o)}
        BY <1>3 DEF NodesOf
    <2>9. QED  BY <2>6, <2>7, <2>8
<1>4. QED  BY <1>1, <1>2, <1>3
=============================================================================
