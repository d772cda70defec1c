------------------------------ MODULE LinusProofs ------------------------------
(***************************************************************************)
(* The nodes that compute Linus together find what one node finds that has *)
(* the whole table of commits, for any number of nodes, degrees, users and *)
(* projects and any table; and for a table that names only known users and *)
(* projects that is every collaborator within the degrees computed, though *)
(* only what is new is ever looked at or traded.                           *)
(*                                                                         *)
(* Two recursive definitions are reasoned about, one per round of the      *)
(* algorithm, by InductionSet and Iterates of NumberTheorems.              *)
(***************************************************************************)
EXTENDS Linus, NumberTheorems, SequenceTheorems

-----------------------------------------------------------------------------
\* The algorithm on one node that has all of table t.

\* The rows of table t, those of the nodes below m, and those of node n.
HomeOfRow(i)   == ((i - 1) \div SegmentRows) % NumNodes
RowsOf(t)      == {t[i] : i \in DOMAIN t}
RowsUpTo(t, m) == {t[i] : i \in {j \in DOMAIN t : HomeOfRow(j) < m}}
RowsAt(t, n)   == {t[i] : i \in {j \in DOMAIN t : HomeOfRow(j) = n}}

\* What the taggers find in rows R after a state: the projects p and the users
\* u found in the rounds before, and the users d found in the last of them.
FoundProjects(R, st) ==
    {c[1] : c \in {e \in R : /\ Test(SetAll({}, st.d, NumUsers), e[2], NumUsers)
                             /\ ~ Test(st.p, e[1], NumProjects)}}
FoundUsers(R, projects, st) ==
    {c[2] : c \in {e \in R : /\ Test(projects, e[1], NumProjects)
                             /\ ~ Test(st.u, e[2], NumUsers)}}

NewProjects(t, st) == FoundProjects(RowsOf(t), st)
NewUsers(t, st)    == FoundUsers(RowsOf(t), NewProjects(t, st), st)

Round(t, st) ==
    [p |-> st.p \cup NewProjects(t, st), u |-> st.u \cup NewUsers(t, st),
     d |-> NewUsers(t, st)]

FirstRound == [p |-> {}, u |-> {}, d |-> {LINUS}]
Rounds(t) ==
    LET R[s \in Stages] == IF s = 0 THEN FirstRound ELSE Round(t, R[s - 1])
    IN  R

-----------------------------------------------------------------------------
\* Where a node is in a step, its sets are those of the algorithm: between
\* steps those of the round; in a merge what was found with its own rows, or
\* on node 0 with the rows of the nodes merged so far; after the first merge
\* the projects are those of the next round.
Seen(n) == IF n = 0 THEN RowsUpTo(commits, merged_from) ELSE RowsAt(commits, n)

TagsOf(n) ==
    LET st   == Rounds(commits)[stage[n]]
        mine == RowsAt(commits, n)
        np   == NewProjects(commits, st)
    IN  /\ pc[n] = "input" => stage[n] = 0
        /\ pc[n] # "done" => stage[n] < DEGREES
        /\ pc[n] \in {"input", "step", "done"} => pSet[n] = st.p /\ uSet[n] = st.u
        /\ pc[n] \in {"projects-", "await-projects-"} =>
              /\ newProjects[n] = FoundProjects(Seen(n), st)
              /\ pSet[n] = st.p \cup FoundProjects(mine, st)
              /\ uSet[n] = st.u
        /\ pc[n] \in {"users-", "await-users-"} =>
              /\ pSet[n] = st.p \cup np
              /\ newUsers[n] = FoundUsers(Seen(n), np, st)
              /\ uSet[n] = st.u \cup FoundUsers(mine, np, st)

\* What may be published under a key: the union of what all nodes found, or
\* what one found.
Published(t, key) ==
    LET st   == Rounds(t)[key[2]]
        last == Rounds(t)[key[2] - 1]
    IN  IF key[1] = "projects-"
        THEN IF key[3] = 0 THEN NewProjects(t, st) ELSE FoundProjects(RowsAt(t, key[3]), st)
        ELSE IF key[3] = 0 THEN st.d
             ELSE FoundUsers(RowsAt(t, key[3]), NewProjects(t, last), last)

TagInv ==
    /\ \A n \in Nodes : TagsOf(n)
    /\ \A key \in Keys : published[key] # None => published[key] = Published(commits, key)
    /\ pc[0] \notin Names => merged_from = 1

\* A key is published by the node it names, and only when that node is beyond
\* the place where it publishes it.
BeyondAt(name, s, n, at, place) ==
    IF n = 0
    THEN IF name = "projects-" THEN at > s \/ (at = s /\ place = "users-")
         ELSE IF s = 0 THEN place # "input" ELSE at >= s
    ELSE IF name = "projects-"
         THEN at > s \/ (at = s /\ place \in {"await-projects-", "users-", "await-users-"})
         ELSE s > 0 /\ (at >= s \/ (at = s - 1 /\ place = "await-users-"))

Beyond(name, s, n) == BeyondAt(name, s, n, stage[n], pc[n])

OnceInv ==
    \A key \in Keys : published[key] # None => Beyond(key[1], key[2], key[3])

-----------------------------------------------------------------------------
\* Rows of a table, and the nodes they are dealt to.

LEMMA RowTypes ==
    ASSUME NEW t \in Commits
    PROVE  /\ DOMAIN t \subseteq Nat \ {0}
           /\ RowsOf(t) \subseteq Nat \X Nat
           /\ \A m : RowsUpTo(t, m) \subseteq RowsOf(t) /\ RowsAt(t, m) \subseteq RowsOf(t)
<1>1. t \in Seq(Nat \X Nat)
    BY CommitsAssumption
<1>2. DOMAIN t = 1 .. Len(t) /\ Len(t) \in Nat /\ \A i \in 1 .. Len(t) : t[i] \in Nat \X Nat
    BY <1>1, LenProperties, ElementOfSeq
<1>3. RowsOf(t) \subseteq Nat \X Nat
    BY <1>2 DEF RowsOf
<1> QED
    BY <1>2, <1>3 DEF RowsOf, RowsUpTo, RowsAt

LEMMA RowsDealt ==
    ASSUME NEW t \in Commits
    PROVE  /\ RowsUpTo(t, 1) = RowsAt(t, 0)
           /\ RowsUpTo(t, NumNodes) = RowsOf(t)
           /\ \A m \in Nat : RowsUpTo(t, m + 1) = RowsUpTo(t, m) \cup RowsAt(t, m)
<1>1. ASSUME NEW i \in DOMAIN t PROVE HomeOfRow(i) \in 0 .. NumNodes - 1
    <2>1. i - 1 \in Nat
        BY RowTypes
    <2>2. (i - 1) \div SegmentRows \in Nat
        BY <2>1, DivMod, SegmentAssumption
    <2> QED
        BY <2>2, DivMod, NumNodesAssumption DEF HomeOfRow
<1>2. NumNodes \in Nat
    BY NumNodesAssumption
<1>3. ASSUME NEW i \in DOMAIN t
      PROVE  /\ HomeOfRow(i) < 1 <=> HomeOfRow(i) = 0
             /\ HomeOfRow(i) < NumNodes
             /\ \A m \in Nat : HomeOfRow(i) < m + 1 <=> HomeOfRow(i) < m \/ HomeOfRow(i) = m
    <2>1. HomeOfRow(i) \in Nat /\ HomeOfRow(i) < NumNodes
        BY <1>1, <1>2
    <2> QED
        BY <2>1
<1>4. RowsUpTo(t, 1) = RowsAt(t, 0)
    BY <1>3 DEF RowsUpTo, RowsAt
<1>5. RowsUpTo(t, NumNodes) = RowsOf(t)
    BY <1>3 DEF RowsUpTo, RowsOf
<1>6. ASSUME NEW m \in Nat
      PROVE  RowsUpTo(t, m + 1) = RowsUpTo(t, m) \cup RowsAt(t, m)
    BY <1>3 DEF RowsUpTo, RowsAt
<1> QED
    BY <1>4, <1>5, <1>6

\* What the taggers find is the union of what they find in parts of the rows.
LEMMA FoundUnion ==
    ASSUME NEW R, NEW S, NEW st, NEW ps
    PROVE  /\ FoundProjects(R \cup S, st) = FoundProjects(R, st) \cup FoundProjects(S, st)
           /\ FoundUsers(R \cup S, ps, st) = FoundUsers(R, ps, st) \cup FoundUsers(S, ps, st)
BY DEF FoundProjects, FoundUsers

LEMMA FoundTypes ==
    ASSUME NEW R \in SUBSET (Nat \X Nat), NEW st, NEW ps
    PROVE  FoundProjects(R, st) \subseteq Projects /\ FoundUsers(R, ps, st) \subseteq Users
BY SizesAssumption DEF FoundProjects, FoundUsers, Test, Projects, Users

-----------------------------------------------------------------------------
\* The two recursive definitions are the functions they look like.

States == [p : SUBSET Projects, u : SUBSET Users, d : SUBSET Nat]

LEMMA RoundType ==
    ASSUME NEW t \in Commits, NEW st \in States
    PROVE  Round(t, st) \in States
<1>1. NewProjects(t, st) \subseteq Projects /\ NewUsers(t, st) \subseteq Users
    BY RowTypes, FoundTypes DEF NewProjects, NewUsers
<1>2. NewUsers(t, st) \subseteq Nat
    BY <1>1 DEF Users
<1>3. st.p \subseteq Projects /\ st.u \subseteq Users
    BY DEF States
<1> QED
    BY <1>1, <1>2, <1>3 DEF Round, States

LEMMA RoundsFacts ==
    ASSUME NEW t \in Commits
    PROVE  /\ Rounds(t) \in [Stages -> States]
           /\ Rounds(t)[0] = FirstRound
           /\ \A s \in 0 .. DEGREES - 1 : Rounds(t)[s + 1] = Round(t, Rounds(t)[s])
<1> DEFINE F == [st \in States |-> Round(t, st)]
<1>1. F \in [States -> States]
    BY RoundType
<1>2. FirstRound \in States
    BY LinusAssumption DEF FirstRound, States
<1>3. DEGREES \in Nat
    BY DegreesAssumption
<1> HIDE DEF F
<1>4. PICK f : Iteration(f, States, FirstRound, F, DEGREES)
    BY <1>1, <1>2, <1>3, Iterates
<1> USE DEF F, Iteration
<1>5. f = [s \in Stages |-> IF s = 0 THEN FirstRound ELSE Round(t, f[s - 1])]
    <2> SUFFICES ASSUME NEW s \in Stages
                 PROVE  f[s] = IF s = 0 THEN FirstRound ELSE Round(t, f[s - 1])
        BY <1>4 DEF Stages
    <2>1. CASE s = 0
        BY <1>4, <2>1
    <2>2. CASE s # 0
        <3>1. s \in 1 .. DEGREES /\ s - 1 \in 0 .. DEGREES
            BY <1>3, <2>2 DEF Stages
        <3>2. f[s - 1] \in States
            BY <1>4, <3>1
        <3> QED
            BY <1>4, <2>2, <3>1, <3>2
    <2> QED
        BY <2>1, <2>2
<1>6. Rounds(t) = [s \in Stages |-> IF s = 0 THEN FirstRound ELSE Round(t, Rounds(t)[s - 1])]
    BY <1>5, Zenon DEF Rounds
<1> HIDE DEF F
<1> DEFINE r == Rounds(t)
<1> HIDE DEF r
<1>7. r = [s \in Stages |-> IF s = 0 THEN FirstRound ELSE Round(t, r[s - 1])]
    BY <1>6 DEF r
<1>8. r[0] = FirstRound
    BY <1>3, <1>7 DEF Stages
<1>9. ASSUME NEW s \in 0 .. DEGREES - 1 PROVE r[s + 1] = Round(t, r[s])
    <2>1. s + 1 \in Stages /\ s + 1 # 0 /\ (s + 1) - 1 = s
        BY <1>3 DEF Stages
    <2> QED
        BY <1>7, <2>1
<1>10. \A n \in Nat : n \in Stages => r[n] \in States
    <2> DEFINE S == {n \in Nat : n \in Stages => r[n] \in States}
    <2>1. 0 \in S
        BY <1>2, <1>8
    <2>2. ASSUME NEW n \in Nat, n \in S PROVE n + 1 \in S
        <3>1. CASE n + 1 \in Stages
            <4>1. n \in 0 .. DEGREES - 1 /\ n \in Stages
                BY <1>3, <3>1 DEF Stages
            <4>2. r[n] \in States
                BY <2>2, <4>1
            <4> QED
                BY <1>9, <4>1, <4>2, RoundType
        <3>2. CASE n + 1 \notin Stages
            BY <3>2
        <3> QED
            BY <3>1, <3>2
    <2> HIDE DEF S
    <2>3. \A n \in Nat : n \in S
        BY <2>1, <2>2, InductionSet
    <2> QED
        BY <2>3 DEF S
<1>11. r \in [Stages -> States]
    <2>1. \A s \in Stages : r[s] \in States
        BY <1>3, <1>10 DEF Stages
    <2> QED
        BY <1>7, <2>1
<1> QED
    BY <1>8, <1>9, <1>11 DEF r

LEMMA WithinFacts ==
    /\ Within[0] = {LINUS}
    /\ \A s \in 0 .. DEGREES - 1 :
          Within[s + 1] = Within[s] \cup UsersOf(ProjectsOf(Within[s]))
<1> DEFINE T == SUBSET (Nat \cup {x[2] : x \in KnownRows})
           F == [X \in T |-> X \cup UsersOf(ProjectsOf(X))]
<1>1. F \in [T -> T]
    <2>1. \A X : UsersOf(X) \subseteq {x[2] : x \in KnownRows}
        BY DEF UsersOf
    <2> QED
        BY <2>1
<1>2. {LINUS} \in T
    BY LinusAssumption
<1>3. DEGREES \in Nat
    BY DegreesAssumption
<1> HIDE DEF F, T
<1>4. PICK f : Iteration(f, T, {LINUS}, F, DEGREES)
    BY <1>1, <1>2, <1>3, Iterates
<1> USE DEF F, T, Iteration
<1>5. f = [k \in 0 .. DEGREES |->
             IF k = 0 THEN {LINUS} ELSE f[k - 1] \cup UsersOf(ProjectsOf(f[k - 1]))]
    <2> SUFFICES ASSUME NEW k \in 0 .. DEGREES
                 PROVE  f[k] = IF k = 0 THEN {LINUS}
                               ELSE f[k - 1] \cup UsersOf(ProjectsOf(f[k - 1]))
        BY <1>4
    <2>1. CASE k = 0
        BY <1>4, <2>1
    <2>2. CASE k # 0
        <3>1. k \in 1 .. DEGREES /\ k - 1 \in 0 .. DEGREES
            BY <1>3, <2>2
        <3>2. f[k - 1] \in T
            BY <1>4, <3>1
        <3> HIDE DEF T
        <3> QED
            BY <1>4, <2>2, <3>1, <3>2
    <2> QED
        BY <2>1, <2>2
<1>6. Within = [k \in 0 .. DEGREES |->
                  IF k = 0 THEN {LINUS} ELSE Within[k - 1] \cup UsersOf(ProjectsOf(Within[k - 1]))]
    BY <1>5, Zenon DEF Within
<1> DEFINE W == Within
<1> HIDE DEF W, F, T
<1>7. W = [k \in 0 .. DEGREES |->
             IF k = 0 THEN {LINUS} ELSE W[k - 1] \cup UsersOf(ProjectsOf(W[k - 1]))]
    BY <1>6 DEF W
<1>8. W[0] = {LINUS}
    BY <1>3, <1>7
<1>9. ASSUME NEW s \in 0 .. DEGREES - 1
      PROVE  W[s + 1] = W[s] \cup UsersOf(ProjectsOf(W[s]))
    <2>1. s + 1 \in 0 .. DEGREES /\ s + 1 # 0 /\ (s + 1) - 1 = s
        BY <1>3
    <2> QED
        BY <1>7, <2>1
<1> QED
    BY <1>8, <1>9 DEF W

-----------------------------------------------------------------------------
\* One node that has the whole table finds the collaborators of every degree.

\* In a table of known users and projects a delta finds what it is about.
LEMMA NewFacts ==
    ASSUME commits \in Commits, KnownRows = Rows, NEW st
    PROVE  /\ NewProjects(commits, st) = ProjectsOf(st.d) \ st.p
           /\ NewUsers(commits, st) = UsersOf(NewProjects(commits, st)) \ st.u
<1>1. RowsOf(commits) = KnownRows
    BY DEF RowsOf, Rows
<1>2. ASSUME NEW c \in KnownRows
      PROVE  ~ (c[1] >= NumProjects) /\ ~ (c[2] >= NumUsers) /\ c[2] < NumUsers
    <2>1. c \in Nat \X Nat
        BY <1>1, RowTypes
    <2> QED
        BY <2>1, SizesAssumption DEF KnownRows
<1>3. NewProjects(commits, st) = ProjectsOf(st.d) \ st.p
    <2>1. \A c \in KnownRows :
             /\ Test(SetAll({}, st.d, NumUsers), c[2], NumUsers) <=> c[2] \in st.d
             /\ Test(st.p, c[1], NumProjects) <=> c[1] \in st.p
        BY <1>2 DEF Test, SetAll
    <2> QED
        BY <1>1, <2>1 DEF NewProjects, FoundProjects, ProjectsOf
<1>4. ASSUME NEW ps PROVE FoundUsers(RowsOf(commits), ps, st) = UsersOf(ps) \ st.u
    <2>1. \A c \in KnownRows :
             /\ Test(ps, c[1], NumProjects) <=> c[1] \in ps
             /\ Test(st.u, c[2], NumUsers) <=> c[2] \in st.u
        BY <1>2 DEF Test
    <2> QED
        BY <1>1, <2>1 DEF FoundUsers, UsersOf
<1> QED
    BY <1>3, <1>4 DEF NewUsers

\* After s rounds: all projects of the users within s degrees have been found
\* but for those of the users found last.
RoundExact(s) ==
    LET st == Rounds(commits)[s]
    IN  /\ st.u = UsersOf(st.p) /\ st.u \subseteq Within[s]
        /\ ProjectsOf(Within[s]) = st.p \cup ProjectsOf(st.d)
        /\ s > 0 => st.p = ProjectsOf(Within[s - 1])

LEMMA SequentialExact ==
    ASSUME commits \in Commits, KnownRows = Rows
    PROVE  \A s \in Stages : RoundExact(s)
<1> DEFINE S == {s \in Nat : s \in Stages => RoundExact(s)}
<1>1. 0 \in S
    <2>1. Rounds(commits)[0] = FirstRound /\ Within[0] = {LINUS}
        BY RoundsFacts, WithinFacts
    <2>2. UsersOf({}) = {}
        BY DEF UsersOf
    <2> QED
        BY <2>1, <2>2 DEF RoundExact, FirstRound
<1>2. ASSUME NEW s \in Nat, s \in S PROVE s + 1 \in S
    <2> SUFFICES ASSUME s + 1 \in Stages PROVE RoundExact(s + 1)
        OBVIOUS
    <2>1. s \in 0 .. DEGREES - 1 /\ s \in Stages /\ s + 1 > 0 /\ (s + 1) - 1 = s
        BY DegreesAssumption DEF Stages
    <2>2. RoundExact(s)
        BY <1>2, <2>1
    <2> DEFINE st == Rounds(commits)[s]
               np == NewProjects(commits, st)
               nu == NewUsers(commits, st)
               W  == Within[s]
    <2>3. /\ st.u = UsersOf(st.p) /\ st.u \subseteq W
          /\ ProjectsOf(W) = st.p \cup ProjectsOf(st.d)
        BY <2>2 DEF RoundExact
    <2>4. /\ Rounds(commits)[s + 1].p = st.p \cup np
          /\ Rounds(commits)[s + 1].u = st.u \cup nu
          /\ Rounds(commits)[s + 1].d = nu
        <3>1. Rounds(commits)[s + 1] = Round(commits, st)
            BY <2>1, RoundsFacts
        <3> QED
            BY <3>1 DEF Round
    <2>5. Within[s + 1] = W \cup UsersOf(ProjectsOf(W))
        BY <2>1, WithinFacts
    <2>6. np = ProjectsOf(st.d) \ st.p /\ nu = UsersOf(np) \ st.u
        BY NewFacts
    <2> HIDE DEF np, nu, W
    <2>7. st.p \cup np = ProjectsOf(W)
        BY <2>3, <2>6
    <2>8. st.u \cup nu = UsersOf(ProjectsOf(W))
        <3>1. st.u \cup nu = UsersOf(st.p) \cup UsersOf(np)
            BY <2>3, <2>6
        <3>2. UsersOf(st.p) \cup UsersOf(np) = UsersOf(st.p \cup np)
            BY DEF UsersOf
        <3> QED
            BY <2>7, <3>1, <3>2
    <2>9. ProjectsOf(Within[s + 1]) = ProjectsOf(W) \cup ProjectsOf(nu)
        <3>1. ProjectsOf(Within[s + 1]) =
                  ProjectsOf(W) \cup (ProjectsOf(st.u) \cup ProjectsOf(nu))
            <4>1. Within[s + 1] = W \cup (st.u \cup nu)
                BY <2>5, <2>8
            <4> QED
                BY <4>1 DEF ProjectsOf
        <3>2. ProjectsOf(st.u) \subseteq ProjectsOf(W)
            BY <2>3 DEF ProjectsOf
        <3> QED
            BY <3>1, <3>2
    <2> QED
        BY <2>1, <2>4, <2>5, <2>7, <2>8, <2>9 DEF RoundExact, W
<1> HIDE DEF S
<1>3. \A s \in Nat : s \in S
    BY <1>1, <1>2, InductionSet
<1> QED
    BY <1>3, DegreesAssumption DEF S, Stages

-----------------------------------------------------------------------------
\* Types.

LEMMA SetAllFacts ==
    ASSUME NEW X, NEW S
    PROVE  /\ X \subseteq Projects => SetAll(S, X, NumProjects) = S \cup X
           /\ X \subseteq Users => SetAll(S, X, NumUsers) = S \cup X
           /\ X \subseteq Nat => /\ SetAll(S, X, NumProjects) \subseteq S \cup Projects
                                 /\ SetAll(S, X, NumUsers) \subseteq S \cup Users
BY SizesAssumption DEF SetAll, Projects, Users

LEMMA TaggedTypes ==
    ASSUME commits \in Commits, NEW n, NEW delta
    PROVE  TaggedProjects(n, delta) \subseteq Projects /\ TaggedUsers(n, delta) \subseteq Users
<1>1. LocalCommits(n) \subseteq Nat \X Nat
    BY RowTypes DEF LocalCommits, RowsAt, HomeOfRow
<1> QED
    BY <1>1, SizesAssumption DEF TaggedProjects, TaggedUsers, Test, Projects, Users

\* A node that is not done has a stage to come.
Staged == \A n \in Nodes : pc[n] # "done" => stage[n] < DEGREES

LEMMA StageFacts ==
    ASSUME TypeOK, Staged, NEW n \in Nodes, pc[n] # "done", NEW name \in Names
    PROVE  stage[n] + 1 \in Stages /\ KeyStage(n, name) \in Stages
BY DegreesAssumption DEF TypeOK, Staged, KeyStage, Stages

LEMMA NodeFacts == 0 \in Nodes /\ 1 \in 1 .. NumNodes /\ LINUS \in Nat
BY NumNodesAssumption, LinusAssumption DEF Nodes

\* What a merge leaves is well typed when the set merged is.
LEMMA AfterMergeTypes ==
    ASSUME TypeOK, Staged, NEW n \in Nodes, pc[n] # "done", NEW name \in Names, NEW set,
           set \subseteq IF name = "projects-" THEN Projects ELSE Users,
           AfterMerge(n, name, set)
    PROVE  /\ stage' \in [Nodes -> Stages]
           /\ pc' \in [Nodes -> Places]
           /\ uSet' \in [Nodes -> SUBSET Users]
           /\ pSet' \in [Nodes -> SUBSET Projects]
           /\ newProjects' \in [Nodes -> SUBSET Projects]
           /\ newUsers' \in [Nodes -> SUBSET Users]
<1>1. CASE name = "projects-"
    <2> DEFINE tagged == TaggedUsers(n, set)
    <2>1. tagged \subseteq Users
        BY TaggedTypes DEF TypeOK
    <2> HIDE DEF tagged
    <2>2. /\ SetAll({}, tagged, NumUsers) = tagged
          /\ SetAll(uSet[n], tagged, NumUsers) = uSet[n] \cup tagged
        <3>0. \A i \in tagged : i < NumUsers
            BY <2>1, SizesAssumption DEF Users
        <3>1. {i \in tagged : i < NumUsers} = tagged
            BY <3>0
        <3> QED
            BY <3>1 DEF SetAll
    <2>3. /\ newProjects' = [newProjects EXCEPT ![n] = set]
          /\ pSet' = [pSet EXCEPT ![n] = @ \cup set]
          /\ newUsers' = [newUsers EXCEPT ![n] = tagged]
          /\ uSet' = [uSet EXCEPT ![n] = @ \cup tagged]
          /\ pc' = [pc EXCEPT ![n] = "users-"]
          /\ stage' = stage
        BY <1>1, <2>2 DEF AfterMerge, Goto, tagged
    <2>4. "users-" \in Places
        BY DEF Places, Names
    <2> QED
        BY <1>1, <2>1, <2>3, <2>4 DEF TypeOK
<1>2. CASE name = "users-"
    <2>1. /\ newUsers' = [newUsers EXCEPT ![n] = set]
          /\ uSet' = [uSet EXCEPT ![n] = @ \cup set]
          /\ stage' = [stage EXCEPT ![n] = @ + 1]
          /\ pc' = [pc EXCEPT ![n] = IF stage[n] + 1 < DEGREES THEN "step" ELSE "done"]
          /\ pSet' = pSet /\ newProjects' = newProjects
        BY <1>2 DEF AfterMerge, Goto
    <2>2. stage[n] + 1 \in Stages
        BY StageFacts
    <2>3. "step" \in Places /\ "done" \in Places
        BY DEF Places
    <2> QED
        BY <1>2, <2>1, <2>2, <2>3 DEF TypeOK
<1> QED
    BY <1>1, <1>2 DEF Names

LEMMA DeltaTypes ==
    ASSUME TypeOK, NEW n \in Nodes, NEW name \in Names
    PROVE  /\ Delta(n, name) \subseteq IF name = "projects-" THEN Projects ELSE Users
           /\ Delta(n, name) \in SUBSET Nat
<1>1. Projects \subseteq Nat /\ Users \subseteq Nat
    BY SizesAssumption DEF Projects, Users
<1> QED
    BY <1>1 DEF TypeOK, Delta, Names

LEMMA TypeStep ==
    ASSUME TypeOK, Staged, [Next]_vars
    PROVE  TypeOK'
<1> USE NodeFacts
<1>1. ASSUME NEW n \in Nodes, ReadInput(n) PROVE TypeOK'
    <2>1. <<"users-", 0, 0>> \in Keys /\ "step" \in Places /\ {LINUS} \in SUBSET Nat
        BY DegreesAssumption DEF Keys, Names, Stages, Places
    <2> QED
        BY <1>1, <2>1 DEF TypeOK, ReadInput, Publish, Goto, sets
<1>2. ASSUME NEW n \in Nodes, TagProjects(n) PROVE TypeOK'
    <2> DEFINE delta  == SetAll({}, published[<<"users-", stage[n], 0>>], NumUsers)
               tagged == TaggedProjects(n, delta)
    <2>1. tagged \subseteq Projects
        BY TaggedTypes DEF TypeOK
    <2> HIDE DEF tagged
    <2>2. SetAll({}, tagged, NumProjects) = tagged
          /\ SetAll(pSet[n], tagged, NumProjects) = pSet[n] \cup tagged
        <3>0. \A i \in tagged : i < NumProjects
            BY <2>1, SizesAssumption DEF Projects
        <3>1. {i \in tagged : i < NumProjects} = tagged
            BY <3>0
        <3> QED
            BY <3>1 DEF SetAll
    <2>3. /\ newProjects' = [newProjects EXCEPT ![n] = tagged]
          /\ pSet' = [pSet EXCEPT ![n] = @ \cup tagged]
          /\ pc' = [pc EXCEPT ![n] = "projects-"]
          /\ UNCHANGED <<commits, published, stage, uSet, newUsers, merged_from>>
        BY <1>2, <2>2 DEF TagProjects, Goto, tagged
    <2>4. "projects-" \in Places
        BY DEF Places, Names
    <2> QED
        BY <2>1, <2>3, <2>4 DEF TypeOK
<1>3. ASSUME NEW name \in Names, Collect(name) PROVE TypeOK'
    <2> DEFINE key   == <<name, KeyStage(0, name), merged_from>>
               delta == published[key]
    <2>1. pc[0] # "done" /\ merged_from \in Nodes
        BY <1>3, NumNodesAssumption DEF Collect, Names, TypeOK, Nodes
    <2>2. key \in Keys /\ delta \subseteq Nat
        <3>1. key \in Keys
            BY <2>1, StageFacts DEF Keys
        <3> HIDE DEF key
        <3>2. delta # None
            BY <1>3 DEF Collect, key
        <3> QED
            BY <3>1, <3>2 DEF TypeOK
    <2>3. Update(0, name, delta)
        BY <1>3 DEF Collect
    <2> HIDE DEF delta
    <2>4. /\ SetAll(newProjects[0], delta, NumProjects) \subseteq Projects
          /\ SetAll(newUsers[0], delta, NumUsers) \subseteq Users
        <3>1. \A S : /\ SetAll(S, delta, NumProjects) \subseteq S \cup Projects
                     /\ SetAll(S, delta, NumUsers) \subseteq S \cup Users
            BY <2>2, SetAllFacts
        <3> QED
            BY <3>1 DEF TypeOK
    <2>5. /\ uSet' \in [Nodes -> SUBSET Users]
          /\ pSet' \in [Nodes -> SUBSET Projects]
          /\ newProjects' \in [Nodes -> SUBSET Projects]
          /\ newUsers' \in [Nodes -> SUBSET Users]
        BY <2>3, <2>4 DEF TypeOK, Update
    <2>6. merged_from' \in 1 .. NumNodes
        BY <1>3, NumNodesAssumption DEF Collect, TypeOK
    <2> QED
        BY <1>3, <2>5, <2>6 DEF Collect, TypeOK
<1>4. ASSUME NEW name \in Names, PublishMerged(name) PROVE TypeOK'
    <2> DEFINE delta == Delta(0, name)
               key   == <<name, KeyStage(0, name), 0>>
    <2>1. pc[0] # "done"
        BY <1>4 DEF PublishMerged, Names
    <2>2. key \in Keys
        BY <2>1, StageFacts DEF Keys
    <2>3. delta \subseteq (IF name = "projects-" THEN Projects ELSE Users) /\ delta \in SUBSET Nat
        BY DeltaTypes
    <2>4. AfterMerge(0, name, delta) /\ published' = [published EXCEPT ![key] = delta]
          /\ merged_from' = 1 /\ commits' = commits
        BY <1>4 DEF PublishMerged, Publish
    <2>5. \A s : s \subseteq (IF name = "projects-" THEN Projects ELSE Users) /\ AfterMerge(0, name, s)
              => /\ stage' \in [Nodes -> Stages]
                 /\ pc' \in [Nodes -> Places]
                 /\ uSet' \in [Nodes -> SUBSET Users]
                 /\ pSet' \in [Nodes -> SUBSET Projects]
                 /\ newProjects' \in [Nodes -> SUBSET Projects]
                 /\ newUsers' \in [Nodes -> SUBSET Users]
        BY <2>1, AfterMergeTypes
    <2> HIDE DEF delta, key
    <2>6. published' \in [Keys -> (SUBSET Nat) \cup {None}]
        BY <2>2, <2>3, <2>4 DEF TypeOK
    <2> QED
        BY <2>3, <2>4, <2>5, <2>6 DEF TypeOK
<1>5. ASSUME NEW n \in Nodes, NEW name \in Names, SendDelta(n, name) PROVE TypeOK'
    <2> DEFINE delta == Delta(n, name)
               key   == <<name, KeyStage(n, name), n>>
    <2>1. pc[n] # "done"
        BY <1>5 DEF SendDelta, Names
    <2>2. key \in Keys
        BY <2>1, StageFacts DEF Keys
    <2>3. delta \in SUBSET Nat
        BY DeltaTypes
    <2>4. published' = [published EXCEPT ![key] = delta]
          /\ pc' = [pc EXCEPT ![n] = Waiting(name)]
          /\ UNCHANGED <<commits, stage, sets, merged_from>>
        BY <1>5 DEF SendDelta, Publish, Goto
    <2>5. Waiting(name) \in Places
        BY DEF Places
    <2> HIDE DEF delta, key
    <2> QED
        BY <2>2, <2>3, <2>4, <2>5 DEF TypeOK, sets
<1>6. ASSUME NEW n \in Nodes, NEW name \in Names, ReceiveMerged(n, name) PROVE TypeOK'
    <2> DEFINE size   == IF name = "projects-" THEN NumProjects ELSE NumUsers
               key    == <<name, KeyStage(n, name), 0>>
               merged == published[key]
               set    == SetAll(Delta(n, name), merged, size)
    <2>1. pc[n] # "done"
        BY <1>6 DEF ReceiveMerged, Waiting, Names
    <2>2. key \in Keys
        BY <2>1, StageFacts DEF Keys
    <2>3. merged \subseteq Nat
        <3>1. merged # None
            BY <1>6 DEF ReceiveMerged
        <3> HIDE DEF key
        <3> QED
            BY <3>1, <2>2 DEF TypeOK
    <2>4. AfterMerge(n, name, set) /\ UNCHANGED <<commits, published, merged_from>>
        BY <1>6 DEF ReceiveMerged
    <2>5. set \subseteq IF name = "projects-" THEN Projects ELSE Users
        <3>1. Delta(n, name) \subseteq IF name = "projects-" THEN Projects ELSE Users
            BY DeltaTypes
        <3> HIDE DEF merged
        <3>2. \A S : /\ SetAll(S, merged, NumProjects) \subseteq S \cup Projects
                     /\ SetAll(S, merged, NumUsers) \subseteq S \cup Users
            BY <2>3, SetAllFacts
        <3> QED
            BY <3>1, <3>2
    <2>6. \A s : s \subseteq (IF name = "projects-" THEN Projects ELSE Users) /\ AfterMerge(n, name, s)
              => /\ stage' \in [Nodes -> Stages]
                 /\ pc' \in [Nodes -> Places]
                 /\ uSet' \in [Nodes -> SUBSET Users]
                 /\ pSet' \in [Nodes -> SUBSET Projects]
                 /\ newProjects' \in [Nodes -> SUBSET Projects]
                 /\ newUsers' \in [Nodes -> SUBSET Users]
        BY <2>1, AfterMergeTypes
    <2> HIDE DEF set
    <2> QED
        BY <2>4, <2>5, <2>6 DEF TypeOK
<1>7. CASE UNCHANGED vars
    BY <1>7 DEF TypeOK, vars, sets
<1> QED
    BY <1>1, <1>2, <1>3, <1>4, <1>5, <1>6, <1>7 DEF Next, Main, Merge

-----------------------------------------------------------------------------
\* In any table, what the nodes hold is what one node would find.

LEMMA StagedByTags == TagInv => Staged
BY DEF TagInv, TagsOf, Staged

\* What a node tags with its own rows.
LEMMA Tagging ==
    ASSUME commits \in Commits, NEW n \in Nodes, NEW st, NEW ps
    PROVE  /\ pSet[n] = st.p => TaggedProjects(n, SetAll({}, st.d, NumUsers))
                                   = FoundProjects(RowsAt(commits, n), st)
           /\ uSet[n] = st.u => TaggedUsers(n, ps) = FoundUsers(RowsAt(commits, n), ps, st)
           /\ FoundProjects(RowsAt(commits, n), st) \subseteq Projects
           /\ FoundUsers(RowsAt(commits, n), ps, st) \subseteq Users
<1>1. LocalCommits(n) = RowsAt(commits, n)
    BY DEF LocalCommits, RowsAt, HomeOfRow
<1>2. RowsAt(commits, n) \subseteq Nat \X Nat
    BY RowTypes
<1>3. /\ FoundProjects(RowsAt(commits, n), st) \subseteq Projects
      /\ FoundUsers(RowsAt(commits, n), ps, st) \subseteq Users
    BY <1>2, FoundTypes
<1>4. pSet[n] = st.p => TaggedProjects(n, SetAll({}, st.d, NumUsers))
                           = FoundProjects(RowsAt(commits, n), st)
    BY <1>1 DEF TaggedProjects, FoundProjects
<1>5. uSet[n] = st.u => TaggedUsers(n, ps) = FoundUsers(RowsAt(commits, n), ps, st)
    BY <1>1 DEF TaggedUsers, FoundUsers
<1> QED
    BY <1>3, <1>4, <1>5

\* Own findings are among the findings.
LEMMA OwnAmongAll ==
    ASSUME NEW t \in Commits, NEW m, NEW st
    PROVE  /\ FoundProjects(RowsAt(t, m), st) \subseteq NewProjects(t, st)
           /\ FoundUsers(RowsAt(t, m), NewProjects(t, st), st) \subseteq NewUsers(t, st)
<1>1. RowsAt(t, m) \subseteq RowsOf(t)
    BY RowTypes
<1>2. FoundProjects(RowsAt(t, m), st) \subseteq FoundProjects(RowsOf(t), st)
    BY <1>1 DEF FoundProjects
<1>3. \A ps : FoundUsers(RowsAt(t, m), ps, st) \subseteq FoundUsers(RowsOf(t), ps, st)
    BY <1>1 DEF FoundUsers
<1> QED
    BY <1>2, <1>3 DEF NewProjects, NewUsers

\* All that is found is known.
LEMMA AllTypes ==
    ASSUME NEW t \in Commits, NEW st
    PROVE  NewProjects(t, st) \subseteq Projects /\ NewUsers(t, st) \subseteq Users
BY RowTypes, FoundTypes DEF NewProjects, NewUsers

LEMMA TagsKept ==
    ASSUME NEW n \in Nodes, TagsOf(n), UNCHANGED <<commits, pc[n], stage[n], pSet[n], uSet[n]>>,
           UNCHANGED <<newProjects[n], newUsers[n]>>, n # 0 \/ merged_from' = merged_from
    PROVE  TagsOf(n)'
<1>1. Seen(n)' = Seen(n)
    BY DEF Seen
<1> QED
    BY <1>1 DEF TagsOf

LEMMA PublishedKept ==
    ASSUME TypeOK, TagInv, commits' = commits, NEW key \in Keys, NEW set,
           set = Published(commits, key), published' = [published EXCEPT ![key] = set]
    PROVE  (\A k \in Keys : published[k] # None => published[k] = Published(commits, k))'
<1>1. ASSUME NEW k \in Keys, published'[k] # None
      PROVE  published'[k] = Published(commits, k)
    <2>1. CASE k = key
        BY <2>1 DEF TypeOK
    <2>2. CASE k # key
        BY <1>1, <2>2 DEF TypeOK, TagInv
    <2> QED
        BY <2>1, <2>2
<1> QED
    BY <1>1

\* A node that has merged the projects has those of the next round, and tags
\* its users with them.
LEMMA ProjectsMerged ==
    ASSUME TypeOK, NEW n \in Nodes, TagsOf(n), pc[n] \in {"projects-", "await-projects-"},
           NEW set, set = NewProjects(commits, Rounds(commits)[stage[n]]),
           AfterMerge(n, "projects-", set), commits' = commits, n = 0 => merged_from' = 1
    PROVE  TagsOf(n)'
<1> DEFINE st   == Rounds(commits)[stage[n]]
           mine == RowsAt(commits, n)
           fu   == FoundUsers(mine, set, st)
<1>1. commits \in Commits
    BY DEF TypeOK
<1>2. /\ stage[n] < DEGREES /\ uSet[n] = st.u
      /\ pSet[n] = st.p \cup FoundProjects(mine, st)
    BY DEF TagsOf
<1>3. TaggedUsers(n, set) = fu /\ fu \subseteq Users
    BY <1>1, <1>2, Tagging
<1>4. \A S : SetAll(S, fu, NumUsers) = S \cup fu
    BY <1>3, SetAllFacts
<1>5. /\ pSet'[n] = pSet[n] \cup set
      /\ newUsers'[n] = SetAll({}, TaggedUsers(n, set), NumUsers)
      /\ uSet'[n] = SetAll(uSet[n], TaggedUsers(n, set), NumUsers)
      /\ pc'[n] = "users-" /\ stage'[n] = stage[n]
    BY DEF AfterMerge, Goto, TypeOK
<1>6. FoundProjects(mine, st) \subseteq set
    BY <1>1, OwnAmongAll
<1>7. pSet'[n] = st.p \cup set
    BY <1>2, <1>5, <1>6
<1>8. newUsers'[n] = fu /\ uSet'[n] = st.u \cup fu
    <2>1. uSet[n] = st.u
        BY <1>2
    <2>2. newUsers'[n] = SetAll({}, fu, NumUsers) /\ uSet'[n] = SetAll(uSet[n], fu, NumUsers)
        BY <1>3, <1>5
    <2> HIDE DEF fu, st
    <2> QED
        BY <1>4, <2>1, <2>2
<1>9. Seen(n)' = mine
    BY <1>1, RowsDealt DEF Seen
<1>10. Rounds(commits)'[stage'[n]] = st
    BY <1>5
<1> HIDE DEF st, mine, fu
<1>11. (stage'[n] < DEGREES) /\ set = NewProjects(commits, st)
    BY <1>2, <1>5 DEF st
<1>12. mine' = mine
    BY DEF mine
<1> QED
    BY <1>5, <1>7, <1>8, <1>9, <1>10, <1>11, <1>12 DEF TagsOf, st, mine, fu

LEMMA Staging == \A s \in Stages : s < DEGREES => s \in 0 .. DEGREES - 1
<1> SUFFICES ASSUME NEW s \in Stages, s < DEGREES PROVE s \in 0 .. DEGREES - 1
    OBVIOUS
<1>1. DEGREES \in Int /\ s \in Nat
    BY DegreesAssumption DEF Stages
<1> QED
    BY <1>1

\* A node that has merged the users is at the next round.
LEMMA UsersMerged ==
    ASSUME TypeOK, NEW n \in Nodes, TagsOf(n), pc[n] \in {"users-", "await-users-"},
           NEW set, set = NewUsers(commits, Rounds(commits)[stage[n]]),
           AfterMerge(n, "users-", set), commits' = commits
    PROVE  TagsOf(n)'
<1> DEFINE st == Rounds(commits)[stage[n]]
<1>1. commits \in Commits
    BY DEF TypeOK
<1>2. /\ stage[n] < DEGREES
      /\ uSet[n] = st.u \cup FoundUsers(RowsAt(commits, n), NewProjects(commits, st), st)
      /\ pSet[n] = st.p \cup NewProjects(commits, st)
    BY DEF TagsOf
<1>3. /\ uSet'[n] = uSet[n] \cup set /\ pSet'[n] = pSet[n]
      /\ stage'[n] = stage[n] + 1
      /\ pc'[n] = IF stage[n] + 1 < DEGREES THEN "step" ELSE "done"
    BY DEF AfterMerge, Goto, TypeOK
<1>4. uSet'[n] = st.u \cup set
    BY <1>1, <1>2, <1>3, OwnAmongAll
<1>5. stage[n] \in 0 .. DEGREES - 1
    <2>1. \A s \in Stages : s < DEGREES => s \in 0 .. DEGREES - 1
        BY Staging
    <2>2. stage[n] \in Stages
        BY DEF TypeOK
    <2> QED
        BY <1>2, <2>1, <2>2
<1>6. Rounds(commits)'[stage'[n]] = Round(commits, st)
    BY <1>1, <1>3, <1>5, RoundsFacts
<1>7. pSet'[n] = Round(commits, st).p /\ uSet'[n] = Round(commits, st).u
    BY <1>2, <1>3, <1>4 DEF Round
<1>8. pc'[n] \in {"step", "done"} /\ (pc'[n] # "done" => stage'[n] < DEGREES)
    BY <1>3
<1> HIDE DEF st
<1> QED
    BY <1>6, <1>7, <1>8 DEF TagsOf

LEMMA TagStep ==
    ASSUME TypeOK, TagInv, [Next]_vars
    PROVE  TagInv'
<1> USE NodeFacts
<1>1. commits \in Commits /\ commits' = commits
    BY DEF TypeOK, Next, Main, Merge, vars, ReadInput, TagProjects, Collect, PublishMerged,
           SendDelta, ReceiveMerged
<1>2. Staged
    BY StagedByTags
<1>3. ASSUME NEW n \in Nodes, ReadInput(n) PROVE TagInv'
    <2>1. /\ pc' = [pc EXCEPT ![n] = "step"]
          /\ UNCHANGED <<commits, stage, sets, merged_from>>
        BY <1>3 DEF ReadInput, Goto
    <2>2. \A m \in Nodes : TagsOf(m)'
        <3>1. ASSUME NEW m \in Nodes, m # n PROVE TagsOf(m)'
            BY <2>1, <3>1, TagsKept DEF TagInv, TypeOK, sets
        <3>2. TagsOf(n)'
            <4>1. pc[n] = "input" /\ TagsOf(n)
                BY <1>3 DEF ReadInput, TagInv
            <4>2. pc'[n] = "step"
                BY <2>1 DEF TypeOK
            <4> QED
                BY <2>1, <4>1, <4>2 DEF TagsOf, sets
        <3> QED
            BY <3>1, <3>2
    <2>3. (\A k \in Keys : published[k] # None => published[k] = Published(commits, k))'
        <3>1. CASE n = 0
            <4> DEFINE key == <<"users-", 0, 0>>
            <4>1. key \in Keys /\ key[1] = "users-" /\ key[2] = 0 /\ key[3] = 0
                BY DegreesAssumption DEF Keys, Names, Stages
            <4>2. published' = [published EXCEPT ![key] = {LINUS}]
                BY <1>3, <3>1 DEF ReadInput, Publish
            <4>3. {LINUS} = Published(commits, key)
                BY <1>1, <4>1, RoundsFacts DEF Published, FirstRound
            <4> HIDE DEF key
            <4> QED
                BY <1>1, <4>1, <4>2, <4>3, PublishedKept
        <3>2. CASE n # 0
            BY <1>1, <1>3, <3>2 DEF ReadInput, TagInv
        <3> QED
            BY <3>1, <3>2
    <2>4. (pc[0] \notin Names => merged_from = 1)'
        BY <1>3, <2>1 DEF ReadInput, TagInv, TypeOK, Names
    <2> QED
        BY <2>2, <2>3, <2>4 DEF TagInv
<1>4. ASSUME NEW n \in Nodes, TagProjects(n) PROVE TagInv'
    <2> DEFINE st     == Rounds(commits)[stage[n]]
               mine   == RowsAt(commits, n)
               key    == <<"users-", stage[n], 0>>
               tagged == FoundProjects(mine, st)
    <2>1. pc[n] = "step" /\ stage[n] < DEGREES /\ pSet[n] = st.p /\ uSet[n] = st.u
        BY <1>4 DEF TagProjects, TagInv, TagsOf
    <2>2. published[key] = st.d
        <3>1. key \in Keys /\ published[key] # None
            BY <1>4 DEF TagProjects, Keys, Names, TypeOK
        <3>2. published[key] = Published(commits, key)
            BY <3>1 DEF TagInv
        <3> QED
            BY <3>2 DEF Published
    <2>3. TaggedProjects(n, SetAll({}, st.d, NumUsers)) = tagged /\ tagged \subseteq Projects
        BY <1>1, <2>1, Tagging
    <2> HIDE DEF tagged
    <2>4. \A S : SetAll(S, tagged, NumProjects) = S \cup tagged
        BY <2>3, SetAllFacts
    <2>5. /\ newProjects' = [newProjects EXCEPT ![n] = {} \cup tagged]
          /\ pSet' = [pSet EXCEPT ![n] = @ \cup tagged]
          /\ pc' = [pc EXCEPT ![n] = "projects-"]
          /\ UNCHANGED <<commits, published, stage, uSet, newUsers, merged_from>>
        BY <1>4, <2>2, <2>3, <2>4 DEF TagProjects, Goto
    <2>6. n = 0 => merged_from = 1
        BY <2>1 DEF TagInv, Names
    <2>7. TagsOf(n)'
        <3>1. /\ newProjects'[n] = tagged /\ pSet'[n] = st.p \cup tagged /\ uSet'[n] = st.u
              /\ pc'[n] = "projects-" /\ stage'[n] = stage[n]
            BY <2>1, <2>5 DEF TypeOK
        <3>2. Seen(n)' = mine
            BY <1>1, <2>5, <2>6, RowsDealt DEF Seen
        <3>3. Rounds(commits)'[stage'[n]] = st /\ mine' = mine
            BY <2>5
        <3> HIDE DEF st, mine
        <3> QED
            BY <2>1, <3>1, <3>2, <3>3 DEF TagsOf, st, mine, tagged
    <2>8. ASSUME NEW m \in Nodes, m # n PROVE TagsOf(m)'
        BY <2>5, <2>8, TagsKept DEF TagInv, TypeOK
    <2>9. (\A k \in Keys : published[k] # None => published[k] = Published(commits, k))'
        BY <2>5 DEF TagInv
    <2>10. (pc[0] \notin Names => merged_from = 1)'
        BY <2>5 DEF TagInv, TypeOK, Names
    <2> QED
        BY <2>7, <2>8, <2>9, <2>10 DEF TagInv
<1>5. ASSUME NEW name \in Names, Collect(name) PROVE TagInv'
    <2> DEFINE st   == Rounds(commits)[stage[0]]
               np   == NewProjects(commits, st)
               key  == <<name, KeyStage(0, name), merged_from>>
               more == published[key]
               here == RowsUpTo(commits, merged_from)
               next == RowsAt(commits, merged_from)
    <2>1. /\ pc[0] = name /\ merged_from \in Nodes /\ merged_from # 0 /\ merged_from \in Nat
          /\ merged_from' = merged_from + 1
          /\ UNCHANGED <<commits, published, stage, pc>>
          /\ more # None /\ Update(0, name, more)
        BY <1>5, NumNodesAssumption DEF Collect, TypeOK, Nodes
    <2>2. TagsOf(0) /\ pc[0] # "done"
        BY <2>1 DEF TagInv, Names
    <2>3. more = Published(commits, key)
        <3>1. key \in Keys
            BY <1>2, <2>1, <2>2, StageFacts DEF Keys
        <3> HIDE DEF key
        <3> QED
            BY <2>1, <3>1 DEF TagInv
    <2>4. Seen(0) = here /\ Seen(0)' = here \cup next
        BY <1>1, <2>1, RowsDealt DEF Seen
    <2>5. TagsOf(0)'
        <3>1. CASE name = "projects-"
            <4>1. more = FoundProjects(next, st)
                BY <2>1, <2>3, <3>1 DEF Published, KeyStage
            <4>2. more \subseteq Projects
                BY <1>1, <2>1, <4>1, Tagging
            <4> HIDE DEF more
            <4>3. \A S : SetAll(S, more, NumProjects) = S \cup more
                BY <4>2, SetAllFacts
            <4>4. newProjects[0] = FoundProjects(here, st)
                BY <2>1, <2>2, <2>4, <3>1 DEF TagsOf
            <4>5. /\ newProjects'[0] = newProjects[0] \cup more
                  /\ UNCHANGED <<uSet, pSet, newUsers>>
                BY <2>1, <3>1, <4>3 DEF Update, TypeOK
            <4>6. FoundProjects(here \cup next, st)
                      = FoundProjects(here, st) \cup FoundProjects(next, st)
                <5> HIDE DEF here, next, st
                <5> QED
                    BY DEF FoundProjects
            <4>7. newProjects'[0] = FoundProjects(here \cup next, st)
                BY <4>1, <4>4, <4>5, <4>6
            <4>8. Rounds(commits)'[stage'[0]] = st
                BY <2>1
            <4>9. /\ pSet[0] = st.p \cup FoundProjects(RowsAt(commits, 0), st)
                  /\ uSet[0] = st.u /\ stage[0] < DEGREES /\ pc[0] = "projects-"
                BY <2>1, <2>2, <3>1 DEF TagsOf
            <4> HIDE DEF here, next, st
            <4> QED
                BY <2>1, <2>4, <4>5, <4>7, <4>8, <4>9 DEF TagsOf
        <3>2. CASE name = "users-"
            <4>1. more = FoundUsers(next, np, st)
                <5>1. key[1] = "users-" /\ key[2] - 1 = stage[0] /\ key[3] = merged_from
                    BY <3>2 DEF KeyStage, TypeOK, Stages
                <5> HIDE DEF key
                <5> QED
                    BY <2>1, <2>3, <5>1 DEF Published
            <4>2. more \subseteq Users
                BY <1>1, <2>1, <4>1, Tagging
            <4> HIDE DEF more
            <4>3. \A S : SetAll(S, more, NumUsers) = S \cup more
                BY <4>2, SetAllFacts
            <4>4. newUsers[0] = FoundUsers(here, np, st)
                BY <2>1, <2>2, <2>4, <3>2 DEF TagsOf
            <4>5. /\ newUsers'[0] = newUsers[0] \cup more
                  /\ UNCHANGED <<uSet, pSet, newProjects>>
                BY <2>1, <3>2, <4>3 DEF Update, TypeOK
            <4>6. FoundUsers(here \cup next, np, st)
                      = FoundUsers(here, np, st) \cup FoundUsers(next, np, st)
                BY FoundUnion
            <4>7. newUsers'[0] = FoundUsers(here \cup next, np, st)
                BY <4>1, <4>4, <4>5, <4>6
            <4>8. Rounds(commits)'[stage'[0]] = st
                BY <2>1
            <4>9. /\ uSet[0] = st.u \cup FoundUsers(RowsAt(commits, 0), np, st)
                  /\ pSet[0] = st.p \cup np /\ stage[0] < DEGREES /\ pc[0] = "users-"
                BY <2>1, <2>2, <3>2 DEF TagsOf
            <4> HIDE DEF here, next, st
            <4> QED
                BY <2>1, <2>4, <4>5, <4>7, <4>8, <4>9 DEF TagsOf
        <3> QED
            BY <3>1, <3>2 DEF Names
    <2>6. ASSUME NEW m \in Nodes, m # 0 PROVE TagsOf(m)'
        <3>1. newProjects'[m] = newProjects[m] /\ newUsers'[m] = newUsers[m]
              /\ pSet'[m] = pSet[m] /\ uSet'[m] = uSet[m]
            BY <2>1, <2>6 DEF Update, TypeOK
        <3> QED
            BY <2>1, <2>6, <3>1, TagsKept DEF TagInv
    <2>7. (\A k \in Keys : published[k] # None => published[k] = Published(commits, k))'
        BY <2>1 DEF TagInv
    <2>8. (pc[0] \notin Names => merged_from = 1)'
        BY <2>1
    <2> QED
        BY <2>5, <2>6, <2>7, <2>8 DEF TagInv
<1>6. ASSUME NEW name \in Names, PublishMerged(name) PROVE TagInv'
    <2> DEFINE st    == Rounds(commits)[stage[0]]
               key   == <<name, KeyStage(0, name), 0>>
               delta == Delta(0, name)
    <2>1. /\ pc[0] = name /\ merged_from = NumNodes /\ merged_from' = 1
          /\ published' = [published EXCEPT ![key] = delta]
          /\ AfterMerge(0, name, delta)
        BY <1>6 DEF PublishMerged, Publish
    <2>2. TagsOf(0) /\ pc[0] # "done" /\ stage[0] \in 0 .. DEGREES - 1
        <3>1. TagsOf(0) /\ pc[0] # "done" /\ stage[0] \in Stages
            BY <2>1 DEF TagInv, Names, TypeOK
        <3> QED
            BY <3>1, Staging DEF TagsOf
    <2>3. key \in Keys
        BY <1>2, <2>2, StageFacts DEF Keys
    <2>4. Seen(0) = RowsOf(commits)
        BY <1>1, <2>1, RowsDealt DEF Seen
    <2>5. delta = IF name = "projects-" THEN NewProjects(commits, st) ELSE NewUsers(commits, st)
        <3>1. CASE name = "projects-"
            BY <2>1, <2>2, <2>4, <3>1 DEF TagsOf, Delta, NewProjects
        <3>2. CASE name = "users-"
            BY <2>1, <2>2, <2>4, <3>2 DEF TagsOf, Delta, NewUsers
        <3> QED
            BY <3>1, <3>2 DEF Names
    <2>6. delta = Published(commits, key)
        <3>1. CASE name = "projects-"
            BY <2>5, <3>1 DEF Published, KeyStage
        <3>2. CASE name = "users-"
            <4>1. key[1] = "users-" /\ key[2] = stage[0] + 1 /\ key[3] = 0
                BY <3>2 DEF KeyStage
            <4>2. Rounds(commits)[stage[0] + 1].d = NewUsers(commits, st)
                <5>1. Rounds(commits)[stage[0] + 1] = Round(commits, st)
                    BY <1>1, <2>2, RoundsFacts
                <5> QED
                    BY <5>1 DEF Round
            <4> HIDE DEF key, delta, st
            <4> QED
                BY <2>5, <3>2, <4>1, <4>2 DEF Published
        <3> QED
            BY <3>1, <3>2 DEF Names
    <2>7. TagsOf(0)'
        <3>1. CASE name = "projects-"
            <4>1. \A s : s = NewProjects(commits, st) /\ AfterMerge(0, "projects-", s) => TagsOf(0)'
                BY <1>1, <2>1, <2>2, <3>1, ProjectsMerged
            <4> HIDE DEF delta
            <4> QED
                BY <2>1, <2>5, <3>1, <4>1
        <3>2. CASE name = "users-"
            <4>1. \A s : s = NewUsers(commits, st) /\ AfterMerge(0, "users-", s) => TagsOf(0)'
                BY <1>1, <2>1, <2>2, <3>2, UsersMerged
            <4> HIDE DEF delta
            <4> QED
                BY <2>1, <2>5, <3>2, <4>1
        <3> QED
            BY <3>1, <3>2 DEF Names
    <2>8. ASSUME NEW m \in Nodes, m # 0 PROVE TagsOf(m)'
        <3>1. UNCHANGED <<pc[m], stage[m], pSet[m], uSet[m], newProjects[m], newUsers[m]>>
            BY <2>1, <2>8 DEF AfterMerge, Goto, TypeOK
        <3> QED
            BY <1>1, <2>8, <3>1, TagsKept DEF TagInv
    <2>9. (\A k \in Keys : published[k] # None => published[k] = Published(commits, k))'
        <3> HIDE DEF key, delta
        <3> QED
            BY <1>1, <2>1, <2>3, <2>6, PublishedKept
    <2> QED
        BY <2>1, <2>7, <2>8, <2>9 DEF TagInv
<1>7. ASSUME NEW n \in Nodes, NEW name \in Names, SendDelta(n, name) PROVE TagInv'
    <2> DEFINE st    == Rounds(commits)[stage[n]]
               key   == <<name, KeyStage(n, name), n>>
               delta == Delta(n, name)
    <2>1. /\ n # 0 /\ pc[n] = name
          /\ published' = [published EXCEPT ![key] = delta]
          /\ pc' = [pc EXCEPT ![n] = Waiting(name)]
          /\ UNCHANGED <<commits, stage, sets, merged_from>>
        BY <1>7 DEF SendDelta, Publish, Goto
    <2>2. TagsOf(n) /\ pc[n] # "done" /\ Seen(n) = RowsAt(commits, n)
        BY <2>1 DEF TagInv, Names, Seen
    <2>3. key \in Keys
        BY <1>2, <2>2, StageFacts DEF Keys
    <2>4. delta = Published(commits, key)
        <3>1. CASE name = "projects-"
            BY <2>1, <2>2, <3>1 DEF TagsOf, Delta, Published, KeyStage
        <3>2. CASE name = "users-"
            <4>1. key[1] = "users-" /\ key[2] - 1 = stage[n] /\ key[3] = n
                BY <3>2 DEF KeyStage, TypeOK, Stages
            <4>2. delta = FoundUsers(RowsAt(commits, n), NewProjects(commits, st), st)
                BY <2>1, <2>2, <3>2 DEF TagsOf, Delta
            <4> HIDE DEF key, delta
            <4> QED
                BY <2>1, <4>1, <4>2 DEF Published
        <3> QED
            BY <3>1, <3>2 DEF Names
    <2>5. TagsOf(n)'
        <3>1. pc'[n] = Waiting(name)
            BY <2>1 DEF TypeOK
        <3>2. Seen(n)' = Seen(n)
            BY <2>1 DEF Seen
        <3>3. CASE name = "projects-"
            <4>1. pc'[n] = "await-projects-" /\ pc[n] = "projects-"
                BY <2>1, <3>1, <3>3 DEF Waiting
            <4> QED
                BY <2>1, <2>2, <3>2, <4>1 DEF TagsOf, sets
        <3>4. CASE name = "users-"
            <4>1. pc'[n] = "await-users-" /\ pc[n] = "users-"
                BY <2>1, <3>1, <3>4 DEF Waiting
            <4> QED
                BY <2>1, <2>2, <3>2, <4>1 DEF TagsOf, sets
        <3> QED
            BY <3>3, <3>4 DEF Names
    <2>6. ASSUME NEW m \in Nodes, m # n PROVE TagsOf(m)'
        <3>1. UNCHANGED <<pc[m], stage[m], pSet[m], uSet[m], newProjects[m], newUsers[m]>>
            BY <2>1, <2>6 DEF TypeOK, sets
        <3> QED
            BY <2>1, <2>6, <3>1, TagsKept DEF TagInv
    <2>7. (\A k \in Keys : published[k] # None => published[k] = Published(commits, k))'
        <3> HIDE DEF key, delta
        <3> QED
            BY <1>1, <2>1, <2>3, <2>4, PublishedKept
    <2>8. (pc[0] \notin Names => merged_from = 1)'
        BY <2>1 DEF TagInv, TypeOK
    <2> QED
        BY <2>5, <2>6, <2>7, <2>8 DEF TagInv
<1>8. ASSUME NEW n \in Nodes, NEW name \in Names, ReceiveMerged(n, name) PROVE TagInv'
    <2> DEFINE st     == Rounds(commits)[stage[n]]
               size   == IF name = "projects-" THEN NumProjects ELSE NumUsers
               key    == <<name, KeyStage(n, name), 0>>
               merged == published[key]
               set    == SetAll(Delta(n, name), merged, size)
               all    == IF name = "projects-" THEN NewProjects(commits, st)
                         ELSE NewUsers(commits, st)
    <2>1. /\ n # 0 /\ pc[n] = Waiting(name) /\ merged # None
          /\ AfterMerge(n, name, set)
          /\ UNCHANGED <<commits, published, merged_from>>
        BY <1>8 DEF ReceiveMerged
    <2>2. TagsOf(n) /\ pc[n] # "done" /\ stage[n] \in 0 .. DEGREES - 1
          /\ Seen(n) = RowsAt(commits, n)
        <3>1. TagsOf(n) /\ pc[n] # "done" /\ stage[n] \in Stages /\ Seen(n) = RowsAt(commits, n)
            BY <2>1 DEF TagInv, Names, TypeOK, Waiting, Seen
        <3> QED
            BY <3>1, Staging DEF TagsOf
    <2>3. merged = all
        <3>1. key \in Keys
            BY <1>2, <2>2, StageFacts DEF Keys
        <3>2. merged = Published(commits, key)
            <4> HIDE DEF key
            <4> QED
                BY <2>1, <3>1 DEF TagInv
        <3>3. CASE name = "projects-"
            BY <3>2, <3>3 DEF Published, KeyStage
        <3>4. CASE name = "users-"
            <4>1. key[1] = "users-" /\ key[2] = stage[n] + 1 /\ key[3] = 0
                BY <3>4 DEF KeyStage
            <4>2. Rounds(commits)[stage[n] + 1].d = NewUsers(commits, st)
                <5>1. Rounds(commits)[stage[n] + 1] = Round(commits, st)
                    BY <1>1, <2>2, RoundsFacts
                <5> QED
                    BY <5>1 DEF Round
            <4>3. all = NewUsers(commits, st)
                BY <3>4
            <4> HIDE DEF key, merged, st, all
            <4> QED
                BY <3>2, <4>1, <4>2, <4>3 DEF Published
        <3> QED
            BY <3>3, <3>4 DEF Names
    <2>4. set = all
        <3>1. Delta(n, name) \subseteq all
            <4>1. CASE name = "projects-"
                <5>1. Delta(n, name) = FoundProjects(RowsAt(commits, n), st)
                    BY <2>1, <2>2, <4>1 DEF TagsOf, Delta, Waiting
                <5> QED
                    BY <1>1, <4>1, <5>1, OwnAmongAll
            <4>2. CASE name = "users-"
                <5>1. Delta(n, name) = FoundUsers(RowsAt(commits, n), NewProjects(commits, st), st)
                    BY <2>1, <2>2, <4>2 DEF TagsOf, Delta, Waiting
                <5> QED
                    BY <1>1, <4>2, <5>1, OwnAmongAll
            <4> QED
                BY <4>1, <4>2 DEF Names
        <3>2. all \subseteq IF name = "projects-" THEN Projects ELSE Users
            BY <1>1, AllTypes
        <3> HIDE DEF all, merged
        <3>3. \A S : SetAll(S, all, size) = S \cup all
            BY <3>2, SetAllFacts
        <3> QED
            BY <2>3, <3>1, <3>3
    <2>5. TagsOf(n)'
        <3>1. CASE name = "projects-"
            <4>1. pc[n] = "await-projects-"
                BY <2>1, <3>1 DEF Waiting
            <4>2. \A s : s = NewProjects(commits, st) /\ AfterMerge(n, "projects-", s) => TagsOf(n)'
                BY <1>1, <2>1, <2>2, <4>1, ProjectsMerged
            <4>3. all = NewProjects(commits, st)
                BY <3>1
            <4> HIDE DEF set, all
            <4> QED
                BY <2>1, <2>4, <3>1, <4>2, <4>3
        <3>2. CASE name = "users-"
            <4>1. pc[n] = "await-users-"
                BY <2>1, <3>2 DEF Waiting
            <4>2. \A s : s = NewUsers(commits, st) /\ AfterMerge(n, "users-", s) => TagsOf(n)'
                BY <1>1, <2>1, <2>2, <4>1, UsersMerged
            <4>3. all = NewUsers(commits, st)
                BY <3>2
            <4> HIDE DEF set, all
            <4> QED
                BY <2>1, <2>4, <3>2, <4>2, <4>3
        <3> QED
            BY <3>1, <3>2 DEF Names
    <2>6. ASSUME NEW m \in Nodes, m # n PROVE TagsOf(m)'
        <3>1. UNCHANGED <<pc[m], stage[m], pSet[m], uSet[m], newProjects[m], newUsers[m]>>
            BY <2>1, <2>6 DEF AfterMerge, Goto, TypeOK
        <3> QED
            BY <2>1, <2>6, <3>1, TagsKept DEF TagInv
    <2>7. (\A k \in Keys : published[k] # None => published[k] = Published(commits, k))'
        BY <2>1 DEF TagInv
    <2>8. (pc[0] \notin Names => merged_from = 1)'
        <3>1. pc'[0] = pc[0]
            BY <2>1 DEF AfterMerge, Goto, TypeOK
        <3> QED
            BY <2>1, <3>1 DEF TagInv
    <2> QED
        BY <2>5, <2>6, <2>7, <2>8 DEF TagInv
<1>9. CASE UNCHANGED vars
    <2>1. ASSUME NEW m \in Nodes PROVE TagsOf(m)'
        BY <1>9, <2>1, TagsKept DEF TagInv, vars, sets
    <2> QED
        BY <1>9, <2>1 DEF TagInv, vars
<1> QED
    BY <1>3, <1>4, <1>5, <1>6, <1>7, <1>8, <1>9 DEF Next, Main, Merge

-----------------------------------------------------------------------------
\* No key is published twice.

\* Where the main of node n can go next.
MovesTo(n, s, place, t, next) ==
    \/ t = s /\ next = place
    \/ t = s /\ place = "input" /\ next = "step"
    \/ t = s /\ place = "step" /\ next = "projects-"
    \/ t = s /\ n = 0 /\ place = "projects-" /\ next = "users-"
    \/ t = s /\ n # 0 /\ place = "projects-" /\ next = "await-projects-"
    \/ t = s /\ n # 0 /\ place = "await-projects-" /\ next = "users-"
    \/ t = s /\ n # 0 /\ place = "users-" /\ next = "await-users-"
    \/ t = s + 1 /\ place \in {"users-", "await-users-"} /\ next \in {"step", "done"}

Moves(n) == MovesTo(n, stage[n], pc[n], stage'[n], pc'[n])

LEMMA MovesOn ==
    ASSUME TypeOK, [Next]_vars, NEW m \in Nodes
    PROVE  Moves(m)
<1> USE NodeFacts
<1>1. ASSUME NEW n \in Nodes, NEW name \in Names, NEW set, AfterMerge(n, name, set),
             pc[n] = name \/ pc[n] = Waiting(name), n = 0 <=> pc[n] = name
      PROVE  Moves(m)
    <2>1. CASE m # n
        BY <1>1, <2>1 DEF AfterMerge, Goto, TypeOK, Moves, MovesTo
    <2>2. CASE m = n /\ name = "projects-"
        BY <1>1, <2>2 DEF AfterMerge, Goto, TypeOK, Moves, MovesTo, Waiting
    <2>3. CASE m = n /\ name = "users-"
        <3>1. pc'[n] \in {"step", "done"} /\ stage'[n] = stage[n] + 1
            BY <1>1, <2>3 DEF AfterMerge, Goto, TypeOK
        <3>2. pc[n] \in {"users-", "await-users-"}
            BY <1>1, <2>3 DEF Waiting
        <3> QED
            BY <2>3, <3>1, <3>2 DEF Moves, MovesTo
    <2> QED
        BY <2>1, <2>2, <2>3 DEF Names
<1>2. ASSUME NEW n \in Nodes, ReadInput(n) \/ TagProjects(n) PROVE Moves(m)
    BY <1>2 DEF ReadInput, TagProjects, Goto, TypeOK, Moves, MovesTo
<1>3. ASSUME NEW name \in Names, Collect(name) PROVE Moves(m)
    BY <1>3 DEF Collect, Moves, MovesTo
<1>4. ASSUME NEW name \in Names, PublishMerged(name) PROVE Moves(m)
    <2>1. pc[0] = name /\ AfterMerge(0, name, Delta(0, name))
        BY <1>4 DEF PublishMerged
    <2> QED
        BY <1>1, <2>1
<1>5. ASSUME NEW n \in Nodes, NEW name \in Names, SendDelta(n, name) PROVE Moves(m)
    BY <1>5 DEF SendDelta, Goto, TypeOK, Moves, MovesTo, Names, Waiting
<1>6. ASSUME NEW n \in Nodes, NEW name \in Names, ReceiveMerged(n, name) PROVE Moves(m)
    <2> DEFINE size == IF name = "projects-" THEN NumProjects ELSE NumUsers
               set  == SetAll(Delta(n, name), published[<<name, KeyStage(n, name), 0>>], size)
    <2>1. n # 0 /\ pc[n] = Waiting(name) /\ AfterMerge(n, name, set)
        BY <1>6 DEF ReceiveMerged
    <2>2. pc[n] # name
        BY <2>1 DEF Waiting, Names
    <2> HIDE DEF set
    <2> QED
        BY <1>1, <2>1, <2>2
<1>7. CASE UNCHANGED vars
    BY <1>7 DEF vars, Moves, MovesTo
<1> QED
    BY <1>2, <1>3, <1>4, <1>5, <1>6, <1>7 DEF Next, Main, Merge

LEMMA PlaceKept ==
    ASSUME NEW n \in Nat, NEW name \in Names, NEW k \in Nat, NEW s \in Nat, NEW t \in Nat,
           NEW place, NEW next, MovesTo(n, s, place, t, next), BeyondAt(name, k, n, s, place)
    PROVE  BeyondAt(name, k, n, t, next)
<1>1. CASE n = 0 /\ name = "projects-"
    BY <1>1 DEF MovesTo, BeyondAt
<1>2. CASE n = 0 /\ name = "users-"
    BY <1>2 DEF MovesTo, BeyondAt
<1>3. CASE n # 0 /\ name = "projects-"
    BY <1>3 DEF MovesTo, BeyondAt
<1>4. CASE n # 0 /\ name = "users-"
    BY <1>4 DEF MovesTo, BeyondAt
<1> QED
    BY <1>1, <1>2, <1>3, <1>4 DEF Names

LEMMA BeyondKept ==
    ASSUME TypeOK, NEW n \in Nodes, NEW name \in Names, NEW s \in Stages,
           Moves(n), Beyond(name, s, n)
    PROVE  Beyond(name, s, n)'
<1>1. stage[n] \in Nat /\ s \in Nat /\ n \in Nat
    BY DEF TypeOK, Stages, Nodes
<1>2. stage'[n] \in Nat
    BY <1>1 DEF Moves, MovesTo
<1> QED
    BY <1>1, <1>2, PlaceKept DEF Moves, Beyond

\* A step publishes nothing, or what its node had not come to yet and is then
\* beyond.
Publishes ==
    \/ published' = published
    \/ \E key \in Keys : \E set :
          /\ published' = [published EXCEPT ![key] = set]
          /\ ~ Beyond(key[1], key[2], key[3])
          /\ Beyond(key[1], key[2], key[3])'

LEMMA PublishStep ==
    ASSUME TypeOK, Staged, [Next]_vars
    PROVE  Publishes
<1> USE NodeFacts
<1>1. ASSUME NEW n \in Nodes, ReadInput(n) PROVE Publishes
    <2>1. CASE n = 0
        <3> DEFINE key == <<"users-", 0, 0>>
        <3>1. key \in Keys /\ key[1] = "users-" /\ key[2] = 0 /\ key[3] = 0
            BY DegreesAssumption DEF Keys, Names, Stages
        <3>2. published' = [published EXCEPT ![key] = {LINUS}]
              /\ pc[0] = "input" /\ pc'[0] = "step"
            BY <1>1, <2>1 DEF ReadInput, Publish, Goto, TypeOK
        <3>3. ~ Beyond("users-", 0, 0) /\ Beyond("users-", 0, 0)'
            BY <3>2 DEF Beyond, BeyondAt
        <3> HIDE DEF key
        <3> QED
            BY <3>1, <3>2, <3>3 DEF Publishes
    <2>2. CASE n # 0
        BY <1>1, <2>2 DEF ReadInput, Publishes
    <2> QED
        BY <2>1, <2>2
<1>2. ASSUME NEW n \in Nodes, NEW name \in Names, pc[n] = name,
             (n = 0 /\ PublishMerged(name)) \/ SendDelta(n, name)
      PROVE  Publishes
    <2>1. PICK s \in Stages : s = KeyStage(n, name)
        BY <1>2, StageFacts DEF Names
    <2> DEFINE key == <<name, s, n>>
    <2>2. key \in Keys /\ key[1] = name /\ key[2] = s /\ key[3] = n
        BY <2>1 DEF Keys
    <2>3. published' = [published EXCEPT ![key] = Delta(n, name)]
        BY <1>2, <2>1 DEF PublishMerged, SendDelta, Publish
    <2>4. stage[n] \in Nat /\ n \in Nat
        BY DEF TypeOK, Stages, Nodes
    <2>5. ~ Beyond(name, s, n)
        BY <1>2, <2>1, <2>4 DEF Beyond, BeyondAt, KeyStage, Names
    <2>6. Beyond(name, s, n)'
        <3>1. CASE n = 0
            <4>1. AfterMerge(0, name, Delta(0, name))
                BY <1>2, <3>1 DEF PublishMerged, SendDelta
            <4>2. CASE name = "projects-"
                <5>1. pc'[0] = "users-" /\ stage'[0] = stage[0] /\ s = stage[0]
                    BY <3>1, <4>1, <4>2, <2>1 DEF AfterMerge, Goto, TypeOK, KeyStage
                <5> QED
                    BY <3>1, <4>2, <5>1 DEF Beyond, BeyondAt
            <4>3. CASE name = "users-"
                <5>1. stage'[0] = stage[0] + 1 /\ s = stage[0] + 1
                    BY <3>1, <4>1, <4>3, <2>1 DEF AfterMerge, TypeOK, KeyStage
                <5> QED
                    BY <2>4, <3>1, <4>3, <5>1 DEF Beyond, BeyondAt
            <4> QED
                BY <4>2, <4>3 DEF Names
        <3>2. CASE n # 0
            <4>1. pc'[n] = Waiting(name) /\ stage'[n] = stage[n]
                BY <1>2, <3>2 DEF SendDelta, Goto, TypeOK
            <4>2. CASE name = "projects-"
                BY <2>1, <3>2, <4>1, <4>2 DEF Beyond, BeyondAt, Waiting, KeyStage
            <4>3. CASE name = "users-"
                BY <2>1, <2>4, <3>2, <4>1, <4>3 DEF Beyond, BeyondAt, Waiting, KeyStage
            <4> QED
                BY <4>2, <4>3 DEF Names
        <3> QED
            BY <3>1, <3>2
    <2> HIDE DEF key
    <2> QED
        BY <2>2, <2>3, <2>5, <2>6 DEF Publishes
<1>3. ASSUME NEW n \in Nodes, TagProjects(n) PROVE Publishes
    BY <1>3 DEF TagProjects, Publishes
<1>4. ASSUME NEW n \in Nodes, NEW name \in Names, Collect(name) \/ ReceiveMerged(n, name)
      PROVE  Publishes
    BY <1>4 DEF Collect, ReceiveMerged, Publishes
<1>5. CASE UNCHANGED vars
    BY <1>5 DEF vars, Publishes
<1>6. \A n \in Nodes : \A name \in Names :
          (n = 0 /\ PublishMerged(name)) \/ SendDelta(n, name) => pc[n] = name
    BY DEF PublishMerged, SendDelta
<1> QED
    BY <1>1, <1>2, <1>3, <1>4, <1>5, <1>6 DEF Next, Main, Merge

LEMMA OnceStep ==
    ASSUME TypeOK, Staged, OnceInv, [Next]_vars
    PROVE  /\ OnceInv'
           /\ \A key \in Keys : published[key] # None => published'[key] = published[key]
<1>1. \A key \in Keys : Beyond(key[1], key[2], key[3]) => Beyond(key[1], key[2], key[3])'
    BY MovesOn, BeyondKept DEF Keys
<1>2. CASE published' = published
    BY <1>1, <1>2 DEF OnceInv
<1>3. ASSUME NEW new \in Keys, NEW set, published' = [published EXCEPT ![new] = set],
             ~ Beyond(new[1], new[2], new[3]), Beyond(new[1], new[2], new[3])'
      PROVE  /\ OnceInv'
             /\ \A key \in Keys : published[key] # None => published'[key] = published[key]
    <2>1. \A key \in Keys : key # new => published'[key] = published[key]
        BY <1>3 DEF TypeOK
    <2>2. published[new] = None
        BY <1>3 DEF OnceInv
    <2> QED
        BY <1>1, <1>3, <2>1, <2>2 DEF OnceInv
<1> QED
    BY <1>2, <1>3, PublishStep DEF Publishes

-----------------------------------------------------------------------------
\* The theorems.

LinusInv == TypeOK /\ TagInv /\ OnceInv

LEMMA InitLinus == Init => LinusInv
<1> SUFFICES ASSUME Init PROVE LinusInv
    OBVIOUS
<1>1. TypeOK
    <2>1. "input" \in Places /\ 0 \in Stages /\ 1 \in 1 .. NumNodes
        BY NodeFacts, DegreesAssumption DEF Places, Stages
    <2> QED
        BY <2>1 DEF Init, TypeOK
<1>2. TagInv
    <2>1. \A n \in Nodes : TagsOf(n)
        BY <1>1, RoundsFacts, DegreesAssumption DEF Init, TypeOK, TagsOf, FirstRound
    <2> QED
        BY <2>1, NodeFacts DEF Init, TagInv
<1>3. OnceInv
    BY DEF Init, OnceInv
<1> QED
    BY <1>1, <1>2, <1>3 DEF LinusInv

LEMMA LinusStep == LinusInv /\ [Next]_vars => LinusInv'
BY StagedByTags, TypeStep, TagStep, OnceStep DEF LinusInv

LEMMA LinusInvariant == Spec => []LinusInv
BY InitLinus, LinusStep, PTL DEF Spec

\* Every set holds only known users or projects, every published value is a
\* set of numbers and no node goes beyond the last stage.
THEOREM TypeCorrect == Spec => []TypeOK
<1>1. LinusInv => TypeOK
    BY DEF LinusInv
<1> QED
    BY <1>1, LinusInvariant, PTL

\* For any table of commits, nodes that have finished the same step hold the
\* same projects and users, those one node would find: what each tagged on its
\* own is among what all find, and the union is published complete.
THEOREM SameAsOneNode == Spec => []NodesAgree
<1>1. LinusInv => NodesAgree
    <2> SUFFICES ASSUME LinusInv, NEW m \in Nodes, NEW n \in Nodes, Between(m), Between(n),
                        stage[m] = stage[n]
                 PROVE  uSet[m] = uSet[n] /\ pSet[m] = pSet[n]
        BY DEF NodesAgree
    <2>1. TagsOf(m) /\ TagsOf(n)
        BY DEF LinusInv, TagInv
    <2> QED
        BY <2>1 DEF TagsOf, Between
<1> QED
    BY <1>1, LinusInvariant, PTL

\* In a table of known users and projects every node finds after each step
\* exactly the users of that degree and their projects.
THEOREM DegreesFound == Spec => []DegreesExact
<1>1. LinusInv => DegreesExact
    <2> SUFFICES ASSUME LinusInv, KnownRows = Rows, NEW n \in Nodes, Between(n), stage[n] > 0
                 PROVE  /\ pSet[n] = ProjectsOf(Within[stage[n] - 1])
                        /\ uSet[n] = UsersOf(pSet[n])
        BY DEF DegreesExact, Reached
    <2> DEFINE st == Rounds(commits)[stage[n]]
    <2>1. TagsOf(n) /\ stage[n] \in Stages /\ commits \in Commits
        BY DEF LinusInv, TagInv, TypeOK
    <2>2. pSet[n] = st.p /\ uSet[n] = st.u
        BY <2>1 DEF TagsOf, Between
    <2>3. RoundExact(stage[n])
        BY <2>1, SequentialExact
    <2> QED
        BY <2>2, <2>3 DEF RoundExact
<1> QED
    BY <1>1, LinusInvariant, PTL

\* No value that another node may be reading is replaced.
THEOREM NothingRepublished == Spec => PublishedOnce
<1>1. LinusInv /\ [Next]_vars =>
          [\A key \in Keys : published[key] # None => published'[key] = published[key]]_vars
    BY StagedByTags, OnceStep DEF LinusInv
<1> QED
    BY <1>1, LinusInvariant, PTL DEF Spec, PublishedOnce
=============================================================================
