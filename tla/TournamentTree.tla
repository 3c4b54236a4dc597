--------------------------- MODULE TournamentTree ---------------------------
(***************************************************************************)
(* The tournament tree lock (tree.c), a user library over the mutexes of   *)
(* KMutex: a thread climbs from its leaf to the root, locking the mutex of *)
(* every node it passes, and unlocks them from the root down.              *)
(*                                                                         *)
(* Every system call is the KMutex actions it consists of; the library's   *)
(* own loads and stores between two calls are actions of this module.  The *)
(* recursion of create_tree and delete_node is a stack of nodes to visit.  *)
(***************************************************************************)
EXTENDS KMutex, Sequences

CONSTANTS
  Depths      \* the depths the programs ask for

ASSUME TreeAssumption ==
  /\ Depths \subseteq Nat \ {0}
  /\ IsFiniteSet(Depths)

\* The root is node 1, and the children of node n are 2n and 2n+1.
Left(n) == 2 * n
Right(n) == 2 * n + 1
Parent(n) == n \div 2
Node == UNION {1 .. 2 ^ (d + 1) - 1 : d \in Depths}
Leaf(d) == 2 ^ d .. 2 ^ (d + 1) - 1

VARIABLES
  tree,       \* "none", "building", "ready" or "deleting"
  treeDepth, level_index, nextIndex, curLevel,   \* the globals of tree.c
  level, index, mutex_id,                        \* the fields of the nodes
  lockPath,   \* lockPath[leaf][level]
  stack,      \* the nodes create_tree or delete_node has still to visit
  tpc,        \* where a thread is in the library
  leaf, cur,  \* the locals leaf and curNode of acquire and release
  lev,        \* the loop variable of release
  res,        \* what the last mutex call returned
  came        \* history: the threads that have called acquire

globals == <<treeDepth, level_index, nextIndex, curLevel>>
nodes == <<level, index, mutex_id>>
locals == <<leaf, cur, lev, res, came>>
treeVars == <<tree, globals, nodes, lockPath, stack, tpc, locals>>
allVars == <<vars, treeVars>>

TPC == {"out", "create", "climb", "lock", "store", "in", "release", "unlock", "clear",
        "delete", "deleting", "failed"}

TreeInit ==
  /\ Init
  /\ tree = "none"
  /\ treeDepth = 0 /\ nextIndex = 0 /\ curLevel = -2
  /\ level_index = <<>>
  /\ level = [n \in Node |-> 0] /\ index = [n \in Node |-> 0] /\ mutex_id = [n \in Node |-> 0]
  /\ lockPath = [n \in Node |-> <<>>]
  /\ stack = <<>>
  /\ tpc = [t \in Thread |-> "out"]
  /\ leaf = [t \in Thread |-> 1] /\ cur = [t \in Thread |-> 1]
  /\ lev = [t \in Thread |-> 0] /\ res = [t \in Thread |-> 0]
  /\ came = {}

At(t, label) == tpc' = [tpc EXCEPT ![t] = label]

\* The thread leaves the library, and its locals are dead.
Return(t) ==
  /\ At(t, "out")
  /\ leaf' = [leaf EXCEPT ![t] = 1]
  /\ cur' = [cur EXCEPT ![t] = 1]
  /\ lev' = [lev EXCEPT ![t] = 0]

-----------------------------------------------------------------------------
(* trnmnt_tree_alloc and create_tree *)

TreeAlloc(t, depth) ==
  /\ tpc[t] = "out" /\ pc[t] = "idle"
  /\ tree = "none"
  /\ tree' = "building"
  /\ treeDepth' = depth
  /\ level_index' = [d \in 0 .. depth |-> 0]
  /\ stack' = <<[node |-> 1, depth |-> depth + 1]>>
  /\ At(t, "create")
  /\ UNCHANGED <<vars, nextIndex, curLevel, nodes, lockPath, locals>>

\* kthread_mutex_alloc for node n: -1 when the table is full.
NodeMutex(t, n) ==
  \/ \E i \in Slot :
       /\ FirstFree(i)
       /\ Alloc(t)
       /\ mutex_id' = [mutex_id EXCEPT ![n] = i]
  \/ /\ FirstFree(MAX_MUTEXES)
     /\ mutex_id' = [mutex_id EXCEPT ![n] = -1]
     /\ UNCHANGED vars

\* The visit of a node with index k.
Visit(t, n, depth, k) ==
  /\ curLevel' = depth - 2
  /\ level' = [level EXCEPT ![n] = depth - 2]
  /\ index' = [index EXCEPT ![n] = k]
  /\ nextIndex' = k + 1
  /\ level_index' = [level_index EXCEPT ![depth - 1] = k + 1]
  /\ \/ /\ depth = 1
        /\ lockPath' = [lockPath EXCEPT ![n] = [l \in 0 .. treeDepth - 1 |-> 0]]
        /\ stack' = Tail(stack)
        /\ UNCHANGED <<vars, mutex_id>>
     \/ /\ depth > 1
        /\ NodeMutex(t, n)
        /\ stack' = <<[node |-> Left(n), depth |-> depth - 1],
                      [node |-> Right(n), depth |-> depth - 1]>> \o Tail(stack)
        /\ UNCHANGED lockPath
  /\ IF stack' = <<>> THEN tree' = "ready" /\ At(t, "out") ELSE UNCHANGED <<tree, tpc>>
  /\ UNCHANGED <<treeDepth, locals>>

CreateNode(t) ==
  /\ tpc[t] = "create"
  /\ LET n == Head(stack).node
         depth == Head(stack).depth
     IN  Visit(t, n, depth, IF curLevel # depth - 2 THEN level_index[depth - 1] ELSE nextIndex)

-----------------------------------------------------------------------------
(* trnmnt_tree_acquire *)

\* find_leaf: the leftmost leaf with this index.
FindLeaf(ID, n) ==
  /\ index[n] = ID
  /\ \A k \in Leaf(treeDepth) : k < n => index[k] # ID

\* Every thread calls acquire once, with an ID that no other thread uses now.
TreeAcquire(t, ID) ==
  /\ tpc[t] = "out" /\ t \notin came
  /\ tree = "ready"
  /\ \E n \in Leaf(treeDepth) :
       /\ FindLeaf(ID, n)
       /\ \A u \in Thread : tpc[u] # "out" => leaf[u] # n
       /\ leaf' = [leaf EXCEPT ![t] = n]
       /\ cur' = [cur EXCEPT ![t] = n]
  /\ came' = came \union {t}
  /\ At(t, "climb")
  /\ UNCHANGED <<vars, tree, globals, nodes, lockPath, stack, lev, res>>

AcquireLock(t) ==
  /\ tpc[t] = "climb"
  /\ LockFind(t, mutex_id[Parent(cur[t])])
  /\ At(t, "lock")
  /\ UNCHANGED <<tree, globals, nodes, lockPath, stack, locals>>

\* Fault: acquire stops one node below the root.
AcquireStoreFault(t) ==
  /\ tpc[t] = "store"
  /\ LET p == Parent(cur[t])
     IN  /\ lockPath' = [lockPath EXCEPT ![leaf[t]][level[p]] = mutex_id[p]]
         /\ cur' = [cur EXCEPT ![t] = p]
         /\ At(t, IF Parent(p) <= 1 THEN "in" ELSE "climb")
  /\ UNCHANGED <<vars, tree, globals, nodes, stack, leaf, lev, res, came>>

\* The store to lockPath comes before the result of lock is looked at.
AcquireStore(t) ==
  /\ tpc[t] = "store"
  /\ LET p == Parent(cur[t])
     IN  /\ lockPath' = [lockPath EXCEPT ![leaf[t]][level[p]] = mutex_id[p]]
         /\ \/ /\ res[t] = -1
               /\ At(t, "failed")
               /\ UNCHANGED cur
            \/ /\ res[t] = 0
               /\ cur' = [cur EXCEPT ![t] = p]
               /\ At(t, IF p = 1 THEN "in" ELSE "climb")
  /\ UNCHANGED <<vars, tree, globals, nodes, stack, leaf, lev, res, came>>

-----------------------------------------------------------------------------
(* trnmnt_tree_release *)

TreeRelease(t) ==
  /\ tpc[t] = "in"
  /\ lev' = [lev EXCEPT ![t] = treeDepth - 1]
  /\ At(t, "release")
  /\ UNCHANGED <<vars, tree, globals, nodes, lockPath, stack, leaf, cur, res, came>>

ReleaseUnlock(t) ==
  /\ tpc[t] = "release"
  /\ UnlockFind(t, lockPath[leaf[t]][lev[t]])
  /\ At(t, "unlock")
  /\ UNCHANGED <<tree, globals, nodes, lockPath, stack, locals>>

ReleaseClear(t) ==
  /\ tpc[t] = "clear"
  /\ \/ /\ res[t] = -1
        /\ At(t, "failed")
        /\ UNCHANGED <<lockPath, leaf, cur, lev>>
     \/ /\ res[t] = 0
        /\ lockPath' = [lockPath EXCEPT ![leaf[t]][lev[t]] = 0]
        /\ \/ lev[t] > 0 /\ lev' = [lev EXCEPT ![t] = @ - 1] /\ At(t, "release")
              /\ UNCHANGED <<leaf, cur>>
           \/ lev[t] = 0 /\ Return(t)
  /\ UNCHANGED <<vars, tree, globals, nodes, stack, res, came>>

-----------------------------------------------------------------------------
(* trnmnt_tree_dealloc and delete_node *)

\* The programs deallocate the tree when no thread is in it.
TreeDealloc(t) ==
  /\ tpc[t] = "out" /\ pc[t] = "idle"
  /\ tree = "ready"
  /\ \A u \in Thread : tpc[u] = "out"
  /\ tree' = "deleting"
  /\ stack' = <<1>>
  /\ At(t, "delete")
  /\ UNCHANGED <<vars, globals, nodes, lockPath, locals>>

\* The visit of a node is over; children are the nodes visited next.
Visited(t, children) ==
  /\ stack' = children \o Tail(stack)
  /\ IF stack' = <<>>
     THEN tree' = "none" /\ At(t, "out")
     ELSE tree' = tree /\ At(t, "delete")
  /\ UNCHANGED <<globals, nodes, lockPath, locals>>

\* create_tree does not set mutex_id in a leaf: there it is what the heap held.
MutexIds(n) == IF n < 2 ^ treeDepth THEN {mutex_id[n]} ELSE Slot \union {-1}

DeleteNode(t) ==
  /\ tpc[t] = "delete"
  /\ \E n \in MutexIds(Head(stack)) : DeallocCheck(t, n)
  /\ At(t, "deleting")
  /\ UNCHANGED <<tree, globals, nodes, lockPath, stack, locals>>

\* kthread_mutex_dealloc returned -1: the node and its subtree stay, which
\* trnmnt_tree_dealloc learns of only when the node is the root.
DeleteRefused(t) ==
  /\ tpc[t] = "delete"
  /\ tableLock = NoTid
  /\ \E n \in MutexIds(Head(stack)) :
       \A i \in Slot : FoundAt(n, i) => locked[i] = 1 \/ used[i] = 0
  /\ \/ /\ Head(stack) = 1
        /\ tree' = "ready"
        /\ stack' = <<>>
        /\ At(t, "out")
        /\ UNCHANGED <<globals, nodes, lockPath, locals>>
     \/ /\ Head(stack) # 1
        /\ Visited(t, <<>>)
  /\ UNCHANGED vars

-----------------------------------------------------------------------------

\* A step of the thread inside a mutex call, and what the library gets of it
\* when it is the last one.
MutexStep(t) ==
  /\ Step(t)
  /\ \/ /\ pc'[t] # "idle"
        /\ UNCHANGED treeVars
     \/ /\ pc'[t] = "idle" /\ tpc[t] = "lock"
        /\ res' = [res EXCEPT ![t] = IF mode'[t][at[t]] = "out" THEN -1 ELSE 0]
        /\ At(t, "store")
        /\ UNCHANGED <<tree, globals, nodes, lockPath, stack, leaf, cur, lev, came>>
     \/ /\ pc'[t] = "idle" /\ tpc[t] = "unlock"
        /\ res' = [res EXCEPT ![t] = IF pc[t] = "ul_wake" THEN 0 ELSE -1]
        /\ At(t, "clear")
        /\ UNCHANGED <<tree, globals, nodes, lockPath, stack, leaf, cur, lev, came>>
     \/ /\ pc'[t] = "idle" /\ tpc[t] = "deleting"
        /\ LET n == Head(stack)
           IN  Visited(t, IF n < 2 ^ treeDepth THEN <<Left(n), Right(n)>> ELSE <<>>)

TreeStep(t) ==
  \/ MutexStep(t) \/ CreateNode(t)
  \/ AcquireLock(t) \/ AcquireStore(t)
  \/ TreeRelease(t) \/ ReleaseUnlock(t) \/ ReleaseClear(t)
  \/ DeleteNode(t) \/ DeleteRefused(t)

TreeNext ==
  \E t \in Thread :
    \/ TreeStep(t)
    \/ \E d \in Depths : TreeAlloc(t, d)
    \/ \E ID \in 0 .. 2 ^ treeDepth - 1 : TreeAcquire(t, ID)
    \/ TreeDealloc(t)

TreeSpec == TreeInit /\ [][TreeNext]_allVars

-----------------------------------------------------------------------------
(* Properties *)

TreeTypeOK ==
  /\ TypeOK
  /\ tree \in {"none", "building", "ready", "deleting"}
  /\ treeDepth \in Nat /\ nextIndex \in Nat /\ curLevel \in Int
  /\ level \in [Node -> Int] /\ index \in [Node -> Nat] /\ mutex_id \in [Node -> Int]
  /\ \A n \in Node : \A l \in DOMAIN lockPath[n] : lockPath[n][l] \in Int
  /\ tpc \in [Thread -> TPC]
  /\ leaf \in [Thread -> Node] /\ cur \in [Thread -> Node]
  /\ lev \in [Thread -> Nat] /\ res \in [Thread -> {0, -1}]
  /\ came \subseteq Thread

\* The mutexes on the way from node n to the root.
PathOf(n) == {mutex_id[k] : k \in {k \in 1 .. n - 1 : \E h \in 1 .. treeDepth : k = n \div 2 ^ h}}

\* Between trnmnt_tree_acquire and trnmnt_tree_release a thread holds the
\* mutex of every node between its leaf and the root, so that no other thread
\* is there.
PathHeld ==
  \A t \in Thread : tpc[t] = "in" =>
    \A m \in PathOf(leaf[t]) : m \in Slot /\ locked[m] = 1 /\ tid[m] = t

\* Neither acquire nor release ever returns -1 to a thread that uses the tree
\* with an ID of its own: release finds in lockPath exactly what acquire
\* locked, and unlocks it in an order in which every unlock succeeds.
CallsSucceed == \A t \in Thread : tpc[t] # "failed"

\* A thread that is outside the library has no mutex: release has given back
\* all that acquire took.
NothingKept == \A t \in Thread, m \in Slot : tpc[t] = "out" => mode[t][m] = "out"

\* create_tree numbers the leaves from left to right, whatever trees were
\* built before with the same globals, and gives every inner node a mutex of
\* its own.
TreeWellFormed ==
  tree = "ready" =>
    /\ \A n \in Leaf(treeDepth) : index[n] = n - 2 ^ treeDepth /\ level[n] = -1
    /\ \A n, k \in 1 .. 2 ^ treeDepth - 1 : mutex_id[n] = mutex_id[k] => n = k

\* The library works as long as nobody deallocates the tree under its users:
\* the tree is what create_tree should build, a thread inside holds its whole
\* path, acquire and release succeed, and release leaves nothing locked.
TreeCorrect ==
  TreeTypeOK /\ TreeWellFormed /\ PathHeld /\ CallsSucceed /\ NothingKept

=============================================================================
