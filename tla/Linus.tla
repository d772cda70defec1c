-------------------------------- MODULE Linus --------------------------------
(***************************************************************************)
(* The Linus application of eau2 (src/src/application/linus_app.cpp): the  *)
(* nodes compute together the users within DEGREES degrees of collaboration*)
(* of one user.  Every node runs step(0), step(1), ... over the commits it *)
(* stores itself, and in merge node 0 collects what the others found new,  *)
(* in the order of their numbers, and publishes the union under the key    *)
(* "<name>-<stage>-0" that the others wait for.                            *)
(*                                                                         *)
(* A published value is the set of the numbers in its rows, seen by every  *)
(* node at once; a node reads it at any later time, which stands for the   *)
(* time its broadcast takes (DistributedStore models that part).  A wait   *)
(* for a value that is there ends (KeyValueStore says when it does).       *)
(***************************************************************************)
EXTENDS Integers, Sequences, FiniteSets

CONSTANTS
    NumNodes,       \* KeyValueStore::num_nodes
    NumProjects,    \* rows of the projects
    NumUsers,       \* rows of the users
    LINUS,          \* 4967 in the code
    DEGREES,        \* 4 in the code
    SegmentRows,    \* DistributedValue::MAX_NUM_ROWS
    Commits         \* the tables of commits considered: sequences of <<pid, uid>>

Nodes  == 0 .. NumNodes - 1
Stages == 0 .. DEGREES

ASSUME NumNodesAssumption == NumNodes \in Nat \ {0}
ASSUME SizesAssumption    == NumProjects \in Nat /\ NumUsers \in Nat
ASSUME LinusAssumption    == LINUS \in Nat
ASSUME DegreesAssumption  == DEGREES \in Nat \ {0}
ASSUME SegmentAssumption  == SegmentRows \in Nat \ {0}
ASSUME CommitsAssumption  == Commits \subseteq Seq(Nat \X Nat)

Projects == 0 .. NumProjects - 1
Users    == 0 .. NumUsers - 1
Names    == {"projects-", "users-"}
None     == {-1}                    \* a key under which nothing is published

VARIABLES
    commits,        \* the value "comts"
    published,      \* [<<name, stage, node>> -> set of numbers or None]
    stage,          \* [node -> the argument of step]
    pc,             \* [node -> where main is]
    uSet, pSet,     \* [node -> Linus::uSet, Linus::pSet]
    newProjects,    \* [node -> ProjectsTagger::newProjects of this step]
    newUsers,       \* [node -> UsersTagger::newUsers of this step]
    merged_from     \* the next node whose delta node 0 merges

sets == <<uSet, pSet, newProjects, newUsers>>
vars == <<commits, published, stage, pc, sets, merged_from>>

Keys == Names \X Stages \X Nodes

-----------------------------------------------------------------------------
\* class Set: a bit set of a fixed size.  set() ignores an index out of bound,
\* test() answers true for it.
SetAll(S, idxs, size) == S \cup {i \in idxs : i < size}
Test(S, idx, size)    == idx >= size \/ idx \in S

\* Faulty: commits are taken from the segments of the next node.
LocalCommitsOfNext(n) ==
    {commits[i] : i \in {j \in DOMAIN commits :
                            ((j - 1) \div SegmentRows + 1) % NumNodes = n /\ j > 1}}

\* What local_map visits on node n: the segments of "comts" stored there.
LocalCommits(n) ==
    {commits[i] : i \in {j \in DOMAIN commits :
                            ((j - 1) \div SegmentRows) % NumNodes = n}}

\* ProjectsTagger::accept over the local commits, given the users delta.
TaggedProjects(n, delta) ==
    {c[1] : c \in {d \in LocalCommits(n) : /\ Test(delta, d[2], NumUsers)
                                           /\ ~ Test(pSet[n], d[1], NumProjects)}}

\* UsersTagger::accept over the local commits, given the new projects delta.
TaggedUsers(n, delta) ==
    {c[2] : c \in {d \in LocalCommits(n) : /\ Test(delta, d[1], NumProjects)
                                           /\ ~ Test(uSet[n], d[2], NumUsers)}}

-----------------------------------------------------------------------------
Init ==
    /\ commits \in Commits
    /\ published = [k \in Keys |-> None]
    /\ stage = [n \in Nodes |-> 0]
    /\ pc = [n \in Nodes |-> "input"]
    /\ uSet = [n \in Nodes |-> {}]
    /\ pSet = [n \in Nodes |-> {}]
    /\ newProjects = [n \in Nodes |-> {}]
    /\ newUsers = [n \in Nodes |-> {}]
    /\ merged_from = 1

Publish(key, set) == published' = [published EXCEPT ![key] = set]
Goto(n, place)    == pc' = [pc EXCEPT ![n] = place]

\* readInput: node 0 stores the three tables and then the value of Linus; the
\* others wait for the tables (the value of Linus they wait for in step(0)).
ReadInput(n) ==
    /\ pc[n] = "input"
    /\ n # 0 => pc[0] # "input"
    /\ IF n = 0 THEN Publish(<<"users-", 0, 0>>, {LINUS}) ELSE UNCHANGED published
    /\ Goto(n, "step")
    /\ UNCHANGED <<commits, stage, sets, merged_from>>

\* The first half of step: wait for the users added in the last round and tag
\* the projects they committed to.
TagProjects(n) ==
    /\ pc[n] = "step"
    /\ published[<<"users-", stage[n], 0>>] # None
    /\ LET delta  == SetAll({}, published[<<"users-", stage[n], 0>>], NumUsers)
           tagged == TaggedProjects(n, delta)
       IN  /\ newProjects' = [newProjects EXCEPT ![n] = SetAll({}, tagged, NumProjects)]
           /\ pSet' = [pSet EXCEPT ![n] = SetAll(@, tagged, NumProjects)]
    /\ Goto(n, "projects-")
    /\ UNCHANGED <<commits, published, stage, uSet, newUsers, merged_from>>

\* merge(name): pc is name while node 0 collects and before another node has
\* sent its delta, and "await-" \o name while that node waits for the union.
Waiting(name) == IF name = "projects-" THEN "await-projects-" ELSE "await-users-"

\* Faulty: the new users are traded under the stage that found them.
KeyStageSame(n, name) == stage[n]

\* The set merged and the stage in its keys.
Delta(n, name)    == IF name = "projects-" THEN newProjects[n] ELSE newUsers[n]
KeyStage(n, name) == IF name = "projects-" THEN stage[n] ELSE stage[n] + 1

\* What the SetUpdater makes of the delta of node n.
Update(n, name, delta) ==
    IF name = "projects-"
    THEN /\ newProjects' = [newProjects EXCEPT ![n] = SetAll(@, delta, NumProjects)]
         /\ UNCHANGED <<uSet, pSet, newUsers>>
    ELSE /\ newUsers' = [newUsers EXCEPT ![n] = SetAll(@, delta, NumUsers)]
         /\ UNCHANGED <<uSet, pSet, newProjects>>

\* Faulty: the set of all collaborators misses those that other nodes found.
AfterMergeOwnUsers(n, name, set) ==
    IF name = "projects-"
    THEN LET tagged == TaggedUsers(n, set)
         IN  /\ newProjects' = [newProjects EXCEPT ![n] = set]
             /\ pSet' = [pSet EXCEPT ![n] = @ \cup set]
             /\ newUsers' = [newUsers EXCEPT ![n] = SetAll({}, tagged, NumUsers)]
             /\ uSet' = [uSet EXCEPT ![n] = SetAll(@, tagged, NumUsers)]
             /\ Goto(n, "users-")
             /\ UNCHANGED stage
    ELSE /\ newUsers' = [newUsers EXCEPT ![n] = set]
         /\ stage' = [stage EXCEPT ![n] = @ + 1]
         /\ Goto(n, IF stage[n] + 1 < DEGREES THEN "step" ELSE "done")
         /\ UNCHANGED <<uSet, pSet, newProjects>>

\* step after a merge that left the set set: the union with pSet and the users
\* of the new projects tagged, or the union with uSet and the next stage.
AfterMerge(n, name, set) ==
    IF name = "projects-"
    THEN LET tagged == TaggedUsers(n, set)
         IN  /\ newProjects' = [newProjects EXCEPT ![n] = set]
             /\ pSet' = [pSet EXCEPT ![n] = @ \cup set]
             /\ newUsers' = [newUsers EXCEPT ![n] = SetAll({}, tagged, NumUsers)]
             /\ uSet' = [uSet EXCEPT ![n] = SetAll(@, tagged, NumUsers)]
             /\ Goto(n, "users-")
             /\ UNCHANGED stage
    ELSE /\ newUsers' = [newUsers EXCEPT ![n] = set]
         /\ uSet' = [uSet EXCEPT ![n] = @ \cup set]
         /\ stage' = [stage EXCEPT ![n] = @ + 1]
         /\ Goto(n, IF stage[n] + 1 < DEGREES THEN "step" ELSE "done")
         /\ UNCHANGED <<pSet, newProjects>>

\* Node 0 waits for the delta of the next node and adds it to its own.
Collect(name) ==
    /\ pc[0] = name
    /\ merged_from < NumNodes
    /\ LET key == <<name, KeyStage(0, name), merged_from>>
       IN  published[key] # None /\ Update(0, name, published[key])
    /\ merged_from' = merged_from + 1
    /\ UNCHANGED <<commits, published, stage, pc>>

\* Faulty: the loop over the nodes does not start afresh.
PublishMergedNoReset(name) ==
    /\ pc[0] = name
    /\ merged_from = NumNodes
    /\ Publish(<<name, KeyStage(0, name), 0>>, Delta(0, name))
    /\ merged_from' = merged_from + 1
    /\ AfterMerge(0, name, Delta(0, name))
    /\ UNCHANGED commits

\* Node 0 has merged all and publishes the union.
PublishMerged(name) ==
    /\ pc[0] = name
    /\ merged_from = NumNodes
    /\ Publish(<<name, KeyStage(0, name), 0>>, Delta(0, name))
    /\ merged_from' = 1
    /\ AfterMerge(0, name, Delta(0, name))
    /\ UNCHANGED commits

\* Faulty: an empty delta is not sent.
SendDeltaNonEmpty(n, name) ==
    /\ n # 0 /\ pc[n] = name
    /\ IF Delta(n, name) = {} THEN UNCHANGED published
       ELSE Publish(<<name, KeyStage(n, name), n>>, Delta(n, name))
    /\ Goto(n, Waiting(name))
    /\ UNCHANGED <<commits, stage, sets, merged_from>>

\* Another node publishes its delta ...
SendDelta(n, name) ==
    /\ n # 0 /\ pc[n] = name
    /\ Publish(<<name, KeyStage(n, name), n>>, Delta(n, name))
    /\ Goto(n, Waiting(name))
    /\ UNCHANGED <<commits, stage, sets, merged_from>>

\* ... and waits for the union, which it adds to its own.
ReceiveMerged(n, name) ==
    /\ n # 0 /\ pc[n] = Waiting(name)
    /\ LET merged == published[<<name, KeyStage(n, name), 0>>]
           size   == IF name = "projects-" THEN NumProjects ELSE NumUsers
       IN  merged # None /\ AfterMerge(n, name, SetAll(Delta(n, name), merged, size))
    /\ UNCHANGED <<commits, published, merged_from>>

Merge(n, name) ==
    \/ n = 0 /\ (Collect(name) \/ PublishMerged(name))
    \/ SendDelta(n, name)
    \/ ReceiveMerged(n, name)

Main(n) == ReadInput(n) \/ TagProjects(n) \/ \E name \in Names : Merge(n, name)

Next == \E n \in Nodes : Main(n)

Spec == Init /\ [][Next]_vars

\* The operating system runs every node's application thread.
FairSpec == Spec /\ \A n \in Nodes : WF_vars(Main(n))

-----------------------------------------------------------------------------
Places == {"input", "step", "done"} \cup Names \cup {Waiting(name) : name \in Names}

TypeOK ==
    /\ commits \in Commits
    /\ published \in [Keys -> (SUBSET Nat) \cup {None}]
    /\ stage \in [Nodes -> Stages]
    /\ pc \in [Nodes -> Places]
    /\ uSet \in [Nodes -> SUBSET Users]
    /\ pSet \in [Nodes -> SUBSET Projects]
    /\ newProjects \in [Nodes -> SUBSET Projects]
    /\ newUsers \in [Nodes -> SUBSET Users]
    /\ merged_from \in 1 .. NumNodes

-----------------------------------------------------------------------------
\* The reference: the collaborators within k degrees and their projects, found
\* with the whole table in one place and no deltas.
Rows == {commits[i] : i \in DOMAIN commits}

KnownRows == {c \in Rows : c[1] < NumProjects /\ c[2] < NumUsers}

ProjectsOf(users) == {c[1] : c \in {d \in KnownRows : d[2] \in users}}
UsersOf(projs)    == {c[2] : c \in {d \in KnownRows : d[1] \in projs}}

Within[k \in 0 .. DEGREES] ==
    IF k = 0 THEN {LINUS} ELSE Within[k - 1] \cup UsersOf(ProjectsOf(Within[k - 1]))

Between(n) == pc[n] \in {"step", "done"}   \* n has run steps 0 .. stage[n] - 1

Reached(n) ==
    stage[n] > 0 =>
        /\ pSet[n] = ProjectsOf(Within[stage[n] - 1])
        /\ uSet[n] = UsersOf(pSet[n])

\* After each step every node has exactly the projects and the collaborators
\* of that degree, although it looked only at its own commits, only at the
\* users added in the last round, and traded only what was new ("slightly
\* revised algorithm that only ever trades the deltas", linus_app.h:153) -- for
\* a table of commits whose projects and users are all in the other tables.
DegreesExact == KnownRows = Rows => \A n \in Nodes : Between(n) => Reached(n)

\* A commit of an unknown author or to an unknown project changes nothing, as
\* linus_app.h:47-54 says: such numbers are ignored.
UnknownIgnored == \A n \in Nodes : Between(n) => Reached(n)

\* Nodes that have finished the same step hold the same sets, whatever they
\* tagged on their own while they waited for the union.
NodesAgree ==
    \A m, n \in Nodes : (Between(m) /\ Between(n) /\ stage[m] = stage[n]) =>
        uSet[m] = uSet[n] /\ pSet[m] = pSet[n]

\* No key is published twice, at any stage, by any node: a second put would
\* delete the value that other nodes may be reading (key_value_store.cpp:69).
PublishedOnce ==
    [][\A key \in Keys : published[key] # None => published'[key] = published[key]]_vars

\* Every node comes through all its steps: the waits of node 0 for the deltas
\* and of the others for the unions never form a circle.
AllFinish == <>(\A n \in Nodes : pc[n] = "done")
=============================================================================
