----------------------------- MODULE ExCpuLayout -----------------------------
(***************************************************************************)
(* What ex_cpu::init decides before its threads start: how many threads    *)
(* each group of cores gets, which priorities each thread takes, which     *)
(* threads share an inbox, and in which order threads steal from each      *)
(* other and wake each other.  Groups and threads count from 0, as in the  *)
(* code; a core is its index.  Filters by NUMA node are left out.          *)
(***************************************************************************)
EXTENDS Integers, SequencesExt

CONSTANTS Inputs,         \* machines with the settings given to the executor
          PlatformBits    \* threads that fit into a bitset

VARIABLES
  machine,   \* tree: the groups, nested; per group its cores, its kind and their smt level
  setup,     \* count, occupancy, pack, pin, strategy, priorities, partitions
  stage,     \* how far init got
  cores,     \* per group the cores that the filter leaves
  sizes,     \* group_size
  threads,   \* per thread its group and the priorities it takes, [begin, end)
  inboxes,   \* per thread the index of its inbox
  steal,     \* per priority a row for each of its threads: whom it steals from, in order
  wakers     \* per priority a row for each thread: whom it wakes, in order

vars == <<machine, setup, stage, cores, sizes, threads, inboxes, steal, wakers>>

Groups == DOMAIN machine.cores
Total(f) == MapThenSumSet(LAMBDA g : f[g], DOMAIN f)
StartOf(f, g) == MapThenSumSet(LAMBDA h : f[h], {h \in DOMAIN f : h < g})   \* group_start
-----------------------------------------------------------------------------
(* Filters.  An empty set of indexes lets all of them pass. *)
Allowed(only, x) == only = {} \/ x \in only
InPlace(f, g, c) == Allowed(f.groups, g) /\ Allowed(f.cores, c)
Passes(f, g, c) == InPlace(f, g, c) /\ machine.kind[g] \in f.kinds

\* make_partition_cpuset
Cpuset(f) == UNION {{c \in ToSet(machine.cores[g]) : Passes(f, g, c)} : g \in Groups}
\* resolve_filter_to_cores does not ask for the kind.
Resolved(f) == UNION {{c \in ToSet(machine.cores[g]) : InPlace(f, g, c)} : g \in Groups}
\* The partitions joined by operator|.
Combined ==
  LET all == ToSet(setup.partitions) IN
  IF Len(setup.partitions) = 1 THEN setup.partitions[1]
  ELSE [cores |-> UNION {Resolved(f) : f \in all}, groups |-> {}, kinds |-> UNION {f.kinds : f \in all}]
-----------------------------------------------------------------------------
(* adjust_thread_groups *)
FirstOf(S, n) == {x \in S : Cardinality({y \in S : y < x}) < n}
LastOf(S, n) == {x \in S : Cardinality({y \in S : y > x}) < n}
Used(s) == {g \in DOMAIN s : s[g] # 0}

\* The occupancy of a kind is a fraction of threads per core.
Occupied(s) ==
  [g \in DOMAIN s |->
     LET o == setup.occupancy[machine.kind[g]] IN
     IF s[g] = 0 \/ o[1] = o[2] THEN s[g] ELSE Max({1, (s[g] * o[1]) \div o[2]})]

\* count is set_thread_count's, or the container's quota where that was not called.
Requested(total) ==
  IF (setup.count = 0 /\ total > PlatformBits) \/ setup.count > PlatformBits
  THEN PlatformBits ELSE setup.count

\* One round adds a thread to each group that is not full, or to every group
\* when all are full, until there are enough.
RECURSIVE Grown(_, _, _)
Grown(s, full, want) ==
  LET roomy == {g \in Used(s) : s[g] < full[g]}
      chosen == FirstOf(IF roomy # {} THEN roomy ELSE Used(s), want - Total(s))
  IN IF Total(s) >= want THEN s
     ELSE Grown([g \in DOMAIN s |-> IF g \in chosen THEN s[g] + 1 ELSE s[g]], full, want)

PackedFromFirst(s, want) ==   \* Mutant: the first groups are emptied.
  [g \in DOMAIN s |-> LET left == want - (Total(s) - StartOf(s, g) - s[g]) IN
     IF left <= 0 THEN 0 ELSE Min({left, s[g]})]

\* PACK empties the last groups; the one where it ends keeps what is left.
Packed(s, want) ==
  [g \in DOMAIN s |-> LET left == want - StartOf(s, g) IN
     IF left <= 0 THEN 0 ELSE Min({left, s[g]})]

\* FAN takes from all groups above the smallest, first ones first, and when they
\* are equal from all of them, last ones first.
RECURSIVE Fanned(_, _, _)
Fanned(s, smallest, want) ==
  LET above == {g \in DOMAIN s : s[g] > smallest}
      n == Total(s) - want
      chosen == IF above # {} THEN FirstOf(above, n) ELSE LastOf(Used(s), n)
  IN IF n <= 0 THEN s
     ELSE Fanned([g \in DOMAIN s |-> IF g \in chosen THEN s[g] - 1 ELSE s[g]], smallest, want)

\* How many threads each group gets, given the cores that are left in it.
Adjusted(left) ==
  LET s == Occupied([g \in Groups |-> Len(left[g])])
      want == Requested(Total(s))
      grown == Grown(s, [g \in Groups |-> Len(left[g]) * machine.smt[g]], want)
  IN CASE want = 0 -> s
       [] want # 0 /\ setup.pack = "PACK" -> Packed(grown, want)
       [] want # 0 /\ setup.pack = "FAN" -> Fanned(grown, Min({grown[g] : g \in Used(grown)}), want)

AdjustThreadGroups ==
  /\ stage = "groups"
  /\ LET left == [g \in Groups |-> SelectSeq(machine.cores[g], LAMBDA c : Passes(Combined, g, c))]
     IN cores' = left /\ sizes' = Adjusted(left)
  /\ stage' = "threads"
  /\ UNCHANGED <<machine, setup, threads, inboxes, steal, wakers>>
-----------------------------------------------------------------------------
(* Threads and their priorities. *)
ThreadIds == 0 .. Total(sizes) - 1
GroupOf(t) == CHOOSE g \in Groups : StartOf(sizes, g) <= t /\ t < StartOf(sizes, g) + sizes[g]

\* The cores a thread is pinned to; a group's threads go round its cores.
ThreadCpuset(t) ==
  LET g == GroupOf(t)  n == Len(cores[g]) IN
  CASE setup.pin = "CORE" -> {cores[g][((t - StartOf(sizes, g)) % n) + 1]}
    [] setup.pin = "GROUP" -> ToSet(cores[g])
    [] setup.pin = "NONE" -> UNION {ToSet(machine.cores[h]) : h \in Groups}

\* From the lowest to the highest priority of the partitions that it touches.
PriorityRange(t) ==
  LET mine == {f \in ToSet(setup.partitions) : Cpuset(f) \cap ThreadCpuset(t) # {}} IN
  IF mine = {} THEN [begin |-> setup.priorities, end |-> 0]
  ELSE [begin |-> Min({f.begin : f \in mine}),
        end |-> Min({Max({f.end : f \in mine}), setup.priorities})]

AssignPriorities ==
  /\ stage = "threads"
  /\ threads' = [t \in ThreadIds |-> [group |-> GroupOf(t), range |-> PriorityRange(t)]]
  /\ stage' = "inboxes"
  /\ UNCHANGED <<machine, setup, cores, sizes, inboxes, steal, wakers>>

PriorityLevels == 0 .. setup.priorities - 1
Takes(t, p) == threads[t].range.begin <= p /\ p < threads[t].range.end
Tids(p) == SelectSeq([i \in 1 .. Total(sizes) |-> i - 1], LAMBDA t : Takes(t, p))   \* tidsByPrio

\* get_thread_inbox_indexes: one inbox per group and range, numbered as they come up.
FirstLike(t) == CHOOSE u \in 0 .. t : threads[u] = threads[t] /\ \A v \in 0 .. u - 1 : threads[v] # threads[t]
MakeInboxes ==
  /\ stage = "inboxes"
  /\ inboxes' = [t \in ThreadIds |-> Cardinality({FirstLike(u) : u \in 0 .. FirstLike(t)}) - 1]
  /\ stage' = "matrices"
  /\ UNCHANGED <<machine, setup, cores, sizes, threads, steal, wakers>>
-----------------------------------------------------------------------------
(* The order in which groups are visited from one of them. *)
Middle(lo, hi) == hi - (hi - lo) \div 2
\* The turns that lead from the whole range to `start`.
RECURSIVE PathTo(_, _, _)
PathTo(lo, hi, start) ==
  LET mid == Middle(lo, hi) IN
  IF hi - lo = 1 THEN <<>>
  ELSE IF start < mid THEN <<"low">> \o PathTo(lo, mid, start) ELSE <<"high">> \o PathTo(mid, hi, start)

\* enumerate_paths: at every depth first the side that the path takes there.
RECURSIVE EnumeratePaths(_, _, _)
EnumeratePaths(lo, hi, path) ==
  LET mid == Middle(lo, hi)
      rest == IF path = <<>> THEN <<>> ELSE Tail(path)
      low == EnumeratePaths(lo, mid, rest)
      high == EnumeratePaths(mid, hi, rest)
  IN IF hi - lo = 1 THEN <<lo>>
     ELSE IF path # <<>> /\ Head(path) = "high" THEN high \o low ELSE low \o high

OrderInTurn(n, start) == [i \in 1..n |-> (start + i - 1) % n]   \* Mutant: round robin.
FlatGroupOrder(n, start) == EnumeratePaths(0, n, PathTo(0, n, start))

\* The place of each group in the tree: an index for every level.
RECURSIVE Places(_)
Places(nodes) ==
  FlattenSeq([i \in 1..Len(nodes) |->
    IF nodes[i] = <<>> THEN <<<<i - 1>>>>
    ELSE LET below == Places(nodes[i]) IN [j \in 1..Len(below) |-> <<i - 1>> \o below[j]]])

\* The places in the order in which the group at `start` visits them.  Elsewhere in the
\* tree the walk starts at the same index of each level, wrapped to what is there.
RECURSIVE Visited(_, _, _)
Visited(nodes, start, level) ==
  LET order == FlatGroupOrder(Len(nodes), start[Min({level, Len(start)})] % Len(nodes)) IN
  FlattenSeq([i \in 1..Len(order) |->
    LET node == nodes[order[i] + 1] IN
    IF node = <<>> THEN <<<<order[i]>>>>
    ELSE LET below == Visited(node, start, level + 1) IN
         [j \in 1..Len(below) |-> <<order[i]>> \o below[j]]])

\* WorkStealingMatrixIterator: for each group all groups, itself first.
VisitOrder(g) ==
  LET places == Places(machine.tree)
      visited == Visited(machine.tree, places[g + 1], 1)
  IN [i \in 1..Len(visited) |-> (CHOOSE h \in Groups : places[h + 1] = visited[i])]
-----------------------------------------------------------------------------
(* The matrices of one priority.  size[g] is how many threads of group g take   *)
(* it; these threads count from 0 by themselves, as in tidsByPrio.              *)
SizesOf(p) == [g \in Groups |-> Cardinality({t \in ThreadIds : threads[t].group = g /\ Takes(t, p)})]

\* Mutant: threads begin with their own index in groups of any size.
VictimsAtSub(size, order, sub, from) ==
  LET Round(h) == [k \in 1..size[h] |-> StartOf(size, h) + ((sub + k - 1) % size[h])]
  IN FlattenSeq([i \in DOMAIN order |-> Round(order[i])])

\* A thread's row: LATTICE_MATRIX goes round its own group, then to one thread of each other
\* group, then to the rest of these groups; the hierarchical matrix takes the groups whole.
\* It begins with the same index in groups of its own size, else where the last one stopped.
Victims(size, order, sub, from) ==
  LET own == Head(order)
      Peer(h, off) ==
        StartOf(size, h) + (((IF size[h] = size[own] THEN sub ELSE from[h]) + off) % size[h])
      Round(h, first) == [k \in 1..(size[h] - first) |-> Peer(h, first + k - 1)]
      others == SelectSeq(Tail(order), LAMBDA h : size[h] # 0)
  IN IF setup.strategy = "LATTICE_MATRIX"
     THEN Round(own, 0) \o [i \in DOMAIN others |-> Peer(others[i], 0)]
                        \o FlattenSeq([i \in DOMAIN others |-> Round(others[i], 1)])
     ELSE Round(own, 0) \o FlattenSeq([i \in DOMAIN others |-> Round(others[i], 0)])

\* get_lattice_matrix, get_hierarchical_matrix; `from` is stolenFromIdx.
StealMatrix(size, orders) ==
  LET rows == FlattenSeq([i \in 1..Cardinality(Groups) |->
                            [j \in 1..size[i - 1] |-> [group |-> i - 1, sub |-> j - 1]]])
      Add(done, row) ==
        [from |-> [h \in Groups |->
                     IF size[h] = size[row.group] THEN done.from[h] ELSE done.from[h] + 1],
         matrix |-> Append(done.matrix, Victims(size, orders[row.group], row.sub, done.from))]
  IN FoldLeft(Add, [from |-> [h \in Groups |-> 0], matrix |-> <<>>], rows).matrix

\* Matrix::to_wakers: who finds t in the first column, in the second, and so on.
ToWakers(matrix, t) ==
  FlattenSeq([col \in DOMAIN matrix |->
    LET finders == SelectSeq([r \in DOMAIN matrix |-> r], LAMBDA r : matrix[r][col] = t)
    IN [k \in DOMAIN finders |-> matrix[finders[k]][1]]])

WakerRowOfFirst(p, matrix, t) ==   \* Mutant: the others all wake by the first row.
  LET tids == Tids(p)
      local == IF Takes(t, p) THEN Cardinality({u \in ThreadIds : u < t /\ Takes(u, p)}) ELSE 0
      row == ToWakers(matrix, local)
  IN [i \in DOMAIN row |-> tids[row[i] + 1]]

\* Threads that take the priority wake by their own row, the others by the rows of the
\* former in turn.
WakerRow(p, matrix, t) ==
  LET tids == Tids(p)
      excluded == Cardinality({u \in ThreadIds : u < t /\ ~Takes(u, p)})
      local == IF Takes(t, p) THEN Cardinality({u \in ThreadIds : u < t /\ Takes(u, p)})
               ELSE excluded % Len(tids)
      row == ToWakers(matrix, local)
  IN [i \in DOMAIN row |-> tids[row[i] + 1]]

\* Rows are read of a priority that no thread takes: the model stops there.
MakeMatrices ==
  /\ stage = "matrices"
  /\ \A p \in PriorityLevels : Tids(p) # <<>>
  /\ LET orders == [g \in Groups |-> VisitOrder(g)] IN
     steal' = [p \in PriorityLevels |-> StealMatrix(SizesOf(p), orders)]
  /\ wakers' = [p \in PriorityLevels |-> [t \in ThreadIds |-> WakerRow(p, steal'[p], t)]]
  /\ stage' = "done"
  /\ UNCHANGED <<machine, setup, cores, sizes, threads, inboxes>>

Init ==
  /\ \E input \in Inputs : machine = input.machine /\ setup = input.setup
  /\ stage = "groups" /\ cores = <<>> /\ sizes = <<>> /\ threads = <<>> /\ inboxes = <<>>
  /\ steal = <<>> /\ wakers = <<>>
Next == AdjustThreadGroups \/ AssignPriorities \/ MakeInboxes \/ MakeMatrices
Spec == Init /\ [][Next]_vars
-----------------------------------------------------------------------------
\* The executor has as many threads as asked for or, where no number was, as the occupancy
\* says, and none on a core outside its filter (adjust_thread_groups).  Packed, a group has
\* threads only when those before it have all of theirs.  Fanned out, every group keeps one
\* while there are enough, and who keeps more than another gave up as much.  A group gets
\* more threads than its cores can run at once only when all others have as many.
ThreadsAsAsked ==
  stage # "groups" =>
    LET before == Occupied([g \in Groups |-> Len(cores[g])])
        want == Requested(Total(before))
        lost == [g \in Groups |-> before[g] - sizes[g]]
        Full(g) == Len(cores[g]) * machine.smt[g]
    IN /\ Total(sizes) = IF want = 0 THEN Total(before) ELSE want
       /\ \A g \in Used(sizes) : cores[g] # <<>>
       /\ \A g, h \in Used(before) :
            /\ setup.pack = "PACK" /\ g < h /\ sizes[h] > 0 => lost[g] <= 0
            /\ setup.pack = "FAN" =>
                 /\ want >= Cardinality(Used(before)) => sizes[g] > 0
                 /\ sizes[g] > sizes[h] + 1 /\ lost[h] > 0 => lost[g] + 1 >= lost[h]
            /\ sizes[g] > Full(g) => sizes[h] >= Full(h)

\* Every thread has an inbox: ex_cpu.ipp makes as many as the last thread's index says,
\* because the index "is returned in ascending order" (1012).
EveryInboxExists ==
  stage = "matrices" => \A t \in ThreadIds : inboxes[t] <= inboxes[Total(sizes) - 1]
-----------------------------------------------------------------------------
IsOrderOf(row, S) == Len(row) = Cardinality(S) /\ ToSet(row) = S
PositionIn(row, x) == CHOOSE i \in DOMAIN row : row[i] = x
Local(p) == 0 .. Len(Tids(p)) - 1
LocalGroup(p) == [v \in Local(p) |-> threads[Tids(p)[v + 1]].group]

\* The turns that lead to a group from the root, where siblings are halved until one is
\* left, as the latency domains of processors with many equal caches are nested.
Turns(g) ==
  LET places == ToSet(Places(machine.tree))
      place == Places(machine.tree)[g + 1]
      Siblings(i) == {q[i] : q \in {p \in places : Len(p) >= i /\ SubSeq(p, 1, i - 1) = SubSeq(place, 1, i - 1)}}
  IN FlattenSeq([i \in DOMAIN place |-> PathTo(0, Cardinality(Siblings(i)), place[i])])
\* How many turns the ways to two groups share.
Nearness(g, h) ==
  LET a == Turns(g)  b == Turns(h) IN
  Cardinality({i \in DOMAIN a \cap DOMAIN b : SubSeq(a, 1, i) = SubSeq(b, 1, i)})

\* A thread visits every thread of the priority once: itself, its group, then the others.
\* In the lattice it first meets one of each other group, in the hierarchy it never goes
\* from a group to a closer one; in both it meets close groups first.
RowsAreRounds(p) ==
  \A r \in DOMAIN steal[p] :
    LET row == steal[p][r]  n == Len(row)
        groups == [i \in 1..n |-> LocalGroup(p)[row[i]]]
        own == SizesOf(p)[groups[1]]
        near == [h \in ToSet(groups) |-> Nearness(groups[1], h)]
        met == IF setup.strategy = "LATTICE_MATRIX"
               THEN SubSeq(groups, own + 1, own + Cardinality(ToSet(groups)) - 1)
               ELSE groups
    IN /\ IsOrderOf(row, Local(p)) /\ row[1] = r - 1
       /\ \A i \in 1..own : groups[i] = groups[1]
       /\ \A i, j \in DOMAIN met : i < j => near[met[i]] >= near[met[j]]
       /\ setup.strategy = "LATTICE_MATRIX" => IsInjective(met)

\* No thread is searched first by more others than its neighbours are: of the threads of
\* one group, all are found first by as many from groups of another size, within one.
LoadIsSpread(p) ==
  \A g \in Groups :
    LET size == SizesOf(p)
        mine == {v \in Local(p) : LocalGroup(p)[v] = g}
        strangers == {r \in DOMAIN steal[p] : size[LocalGroup(p)[r - 1]] # size[g]}
        First(r) == CHOOSE v \in mine : \A w \in mine : PositionIn(steal[p][r], v) <= PositionIn(steal[p][r], w)
        found == [v \in mine |-> Cardinality({r \in strangers : First(r) = v})]
    IN \A v, w \in mine : found[v] <= found[w] + 1

\* Where 2^k equal groups lie side by side no two threads have the same victim in a column,
\* which is what enumerate_paths keeps the path for: a "more balanced" network.
ColumnsDiffer(p) ==
  LET size == SizesOf(p) IN
  /\ Cardinality(Groups) \in {2, 4, 8} /\ \A node \in ToSet(machine.tree) : node = <<>>
  /\ \A g, h \in Groups : size[g] = size[h]
  => \A col \in DOMAIN steal[p] : IsInjective([r \in DOMAIN steal[p] |-> steal[p][r][col]])

\* Whoever posts wakes only threads that take the priority, each of them once, and those
\* first that look here first; a thread that does not take it wakes in the order of one
\* that does, and these are taken in turn.
WakersSteal(p) ==
  LET tids == Tids(p)
      outside == {t \in ThreadIds : ~Takes(t, p)}
      copied == [u \in ToSet(tids) |-> Cardinality({t \in outside : wakers[p][t][1] = u})]
  IN /\ \A t \in ThreadIds : IsOrderOf(wakers[p][t], ToSet(tids))
     /\ \A t \in ToSet(tids) :
          LET When(u) == PositionIn(steal[p][PositionIn(tids, u)], PositionIn(tids, t) - 1)
              row == wakers[p][t]
          IN \A i, j \in DOMAIN row : i < j => When(row[i]) <= When(row[j])
     /\ \A t \in outside : wakers[p][t] = wakers[p][wakers[p][t][1]]
     /\ \A u, v \in ToSet(tids) : copied[u] <= copied[v] + 1

\* The matrices by which threads steal and wake: every thread is found and woken by all of
\* its priority, near ones first, and nobody more than his share.
VictimOrders ==
  stage = "done" =>
    \A p \in PriorityLevels :
      RowsAreRounds(p) /\ LoadIsSpread(p) /\ ColumnsDiffer(p) /\ WakersSteal(p)
=============================================================================
