-------------------------- MODULE BufferFileProofs --------------------------
(***************************************************************************)
(* Proofs about BufferFile, for any number of processes, any sizes of the  *)
(* file and any range of an int.                                           *)
(***************************************************************************)
EXTENDS BufferFile, TLAPS

\* Who creates the file: one process at most, which gives it its size once.
Creating ==
    /\ \A p \in Processes :
         /\ pc[p] = "open" => ~new_file[p]
         /\ pc[p] # "open" => size # NoFile
         /\ pc[p] = "truncate" => new_file[p] /\ size = 0
         /\ pc[p] \in Initializing => new_file[p]
    /\ \A p, q \in Processes : new_file[p] /\ new_file[q] => p = q

\* What the file holds before its first block is set up, and after.
Unwritten ==
    /\ size \in {NoFile, 0} => free_list = 0 /\ used_list = 0 /\ data_size = 0
    /\ data_size \in {0, Room(AsInt(size))}
    /\ \A p \in Processes :
         new_file[p] /\ pc[p] \notin {"run", "abort", "init_prev", "init_next"} =>
           used_list = 0 /\ data_size = 0

\* The size that a process goes by is what an int makes of the file's, also when the
\* file was without a size as the process looked.
Viewed ==
    \A p \in Processes :
      /\ pc[p] = "map" => m_db_size[p] \in {0, AsInt(size)}
      /\ p \in Running => m_db_size[p] = AsInt(size) /\ m_db_size[p] > 0

\* The processes that started on a file already set up.
Opened ==
    \A p \in finished :
      /\ SetUp
      /\ pc[p] \in {"stat", "map", "run"}
      /\ ~new_file[p]
      /\ pc[p] = "map" => m_db_size[p] = AsInt(size)

IInv == TypeOK /\ Creating /\ Unwritten /\ Viewed /\ Opened

USE DEF HeaderSize, BlockSize, Smallest, NoFile

----------------------------------------------------------------------------

\* What an int makes of a size is in its range, and no more than the size; the size
\* zero stays zero (file_backed_buffer.cpp:23).
LEMMA SizesAsInt ==
    ASSUME NEW n \in Nat
    PROVE  /\ AsInt(n) \in -(INT_MAX + 1) .. INT_MAX
           /\ AsInt(n) <= n
           /\ AsInt(0) = 0
<1> DEFINE M == INT_MAX + 1
           W == 2 * M
<1>1. M \in Nat /\ W \in Nat /\ M > 0 /\ W > 0 /\ W = M + M
  BY SizeAssumption
<1> HIDE DEF M, W
<1>2. \A x \in Nat : x % W \in 0 .. (W - 1) /\ x % W <= x
  BY <1>1
<1>3. M % W = M
  BY <1>1
<1>4. AsInt(n) = ((n + M) % W) - M /\ AsInt(0) = (M % W) - M
  BY <1>1, SizeAssumption DEF AsInt, M, W
<1>5. (n + M) % W \in 0 .. (W - 1) /\ (n + M) % W <= n + M
  BY <1>1, <1>2
<1> QED
  BY <1>1, <1>3, <1>4, <1>5, SizeAssumption DEF M

\* The same of the size of a file, and the room that line 70 finds in it is a size_t.
LEMMA FileSizes ==
    ASSUME TypeOK
    PROVE  /\ size # NoFile => /\ size \in Nat
                               /\ AsInt(size) \in -(INT_MAX + 1) .. INT_MAX
                               /\ AsInt(size) <= size
           /\ AsInt(0) = 0
           /\ \A m \in 0 .. INT_MAX : Room(m) \in 0 .. SIZE_MAX
<1>1. size # NoFile => size \in Nat
  BY SizeAssumption DEF TypeOK
<1>2. \A m \in 0 .. INT_MAX : Room(m) \in 0 .. SIZE_MAX
  BY SizeAssumption DEF Room, AsSize
<1> QED
  BY <1>1, <1>2, SizesAsInt

\* Before any process has opened the file the invariant holds.
LEMMA Starts == Init => IInv
<1> SUFFICES ASSUME Init PROVE IInv
  OBVIOUS
<1>1. TypeOK
  BY SizeAssumption DEF Init, TypeOK
<1>2. Creating /\ Unwritten /\ Viewed /\ Opened
  BY SizeAssumption DEF Init, Creating, Unwritten, Viewed, Opened, Running, Initializing
<1> QED
  BY <1>1, <1>2 DEF IInv

\* No step of a constructor, a put() or a kill breaks the types.
LEMMA StepKeepsType == IInv /\ [Next]_vars => TypeOK'
<1> SUFFICES ASSUME IInv, [Next]_vars PROVE TypeOK'
  OBVIOUS
<1> USE SizeAssumption DEF IInv, TypeOK, Goto, fileVars, headVars
<1>0. CASE UNCHANGED vars
  BY <1>0 DEF vars
<1>1. ASSUME NEW p \in Processes, OpenNew(p) PROVE TypeOK'
  BY <1>1 DEF OpenNew
<1>2. ASSUME NEW p \in Processes, OpenExisting(p) PROVE TypeOK'
  BY <1>2 DEF OpenExisting
<1>3. ASSUME NEW p \in Processes, Truncate(p) PROVE TypeOK'
  BY <1>3 DEF Truncate
<1>4. ASSUME NEW p \in Processes, Stat(p) PROVE TypeOK'
  <2>1. AsInt(size) \in -(INT_MAX + 1) .. INT_MAX
    BY <1>4, FileSizes DEF Stat, Creating
  <2> QED
    BY <1>4, <2>1 DEF Stat
<1>5. ASSUME NEW p \in Processes, Map(p) PROVE TypeOK'
  BY <1>5 DEF Map
<1>6. ASSUME NEW p \in Processes, InitFree(p) PROVE TypeOK'
  BY <1>6 DEF InitFree
<1>7. ASSUME NEW p \in Processes, InitUsed(p) PROVE TypeOK'
  BY <1>7 DEF InitUsed
<1>8. ASSUME NEW p \in Processes, InitSize(p) PROVE TypeOK'
  <2>1. m_db_size[p] \in 0 .. INT_MAX
    BY <1>8 DEF InitSize, Viewed, Running, Initializing
  <2>2. data_size' \in 0 .. SIZE_MAX
    BY <1>8, <2>1, FileSizes DEF InitSize
  <2> QED
    BY <1>8, <2>2 DEF InitSize
<1>9. ASSUME NEW p \in Processes, InitPrev(p) PROVE TypeOK'
  BY <1>9 DEF InitPrev
<1>10. ASSUME NEW p \in Processes, InitNext(p) PROVE TypeOK'
  BY <1>10 DEF InitNext
<1>11. ASSUME NEW p \in Processes, Use(p) PROVE TypeOK'
  BY <1>11 DEF Use
<1>12. ASSUME NEW p \in Processes, Relink(p) PROVE TypeOK'
  BY <1>12 DEF Relink
<1>13. ASSUME NEW p \in Processes, Kill(p) PROVE TypeOK'
  BY <1>13 DEF Kill
<1> QED
  BY <1>0, <1>1, <1>2, <1>3, <1>4, <1>5, <1>6, <1>7, <1>8, <1>9, <1>10, <1>11, <1>12, <1>13
     DEF Next

\* Nor what is known of a file under creation, of views and of opened files.
LEMMA StepKeepsRest == IInv /\ [Next]_vars => (Creating /\ Unwritten /\ Viewed /\ Opened)'
<1> SUFFICES ASSUME IInv, [Next]_vars PROVE (Creating /\ Unwritten /\ Viewed /\ Opened)'
  OBVIOUS
<1> DEFINE Rest == (Creating /\ Unwritten /\ Viewed /\ Opened)'
<1> USE SizeAssumption DEF TypeOK, Goto, fileVars, headVars, Running, Initializing
<1>0. TypeOK /\ Creating /\ Unwritten /\ Viewed /\ Opened
  BY DEF IInv
<1>1. CASE UNCHANGED vars
  BY <1>0, <1>1 DEF vars, Creating, Unwritten, Viewed, Opened, SetUp
<1>2. ASSUME NEW p \in Processes, OpenNew(p) PROVE Rest
  <2>1. Creating'
    BY <1>0, <1>2, FileSizes DEF OpenNew, Creating
  <2>2. Unwritten'
    BY <1>0, <1>2, FileSizes DEF OpenNew, Creating, Unwritten, Viewed
  <2>3. Viewed'
    BY <1>0, <1>2, FileSizes DEF OpenNew, Creating, Viewed, Opened
  <2>4. Opened'
    BY <1>0, <1>2, FileSizes DEF OpenNew, Creating, Unwritten, Viewed, Opened, SetUp
  <2> QED
    BY <2>1, <2>2, <2>3, <2>4
<1>3. ASSUME NEW p \in Processes, OpenExisting(p) PROVE Rest
  <2>1. Creating'
    BY <1>0, <1>3, FileSizes DEF OpenExisting, Creating
  <2>2. Unwritten'
    BY <1>0, <1>3, FileSizes DEF OpenExisting, Creating, Unwritten, Viewed
  <2>3. Viewed'
    BY <1>0, <1>3, FileSizes DEF OpenExisting, Creating, Viewed, Opened
  <2>4. Opened'
    BY <1>0, <1>3, FileSizes DEF OpenExisting, Creating, Unwritten, Viewed, Opened, SetUp
  <2> QED
    BY <2>1, <2>2, <2>3, <2>4
<1>4. ASSUME NEW p \in Processes, Truncate(p) PROVE Rest
  <2>1. Creating'
    BY <1>0, <1>4, FileSizes DEF Truncate, Creating
  <2>2. Unwritten'
    BY <1>0, <1>4, FileSizes DEF Truncate, Creating, Unwritten, Viewed
  <2>3. Viewed'
    BY <1>0, <1>4, FileSizes DEF Truncate, Creating, Viewed, Opened
  <2>4. Opened'
    BY <1>0, <1>4, FileSizes DEF Truncate, Creating, Unwritten, Viewed, Opened, SetUp
  <2> QED
    BY <2>1, <2>2, <2>3, <2>4
<1>5. ASSUME NEW p \in Processes, Stat(p) PROVE Rest
  <2>1. Creating'
    BY <1>0, <1>5, FileSizes DEF Stat, Creating
  <2>2. Unwritten'
    BY <1>0, <1>5, FileSizes DEF Stat, Creating, Unwritten, Viewed
  <2>3. Viewed'
    BY <1>0, <1>5, FileSizes DEF Stat, Creating, Viewed, Opened
  <2>4. Opened'
    BY <1>0, <1>5, FileSizes DEF Stat, Creating, Unwritten, Viewed, Opened, SetUp
  <2> QED
    BY <2>1, <2>2, <2>3, <2>4
<1>6. ASSUME NEW p \in Processes, Map(p) PROVE Rest
  <2>1. Creating'
    BY <1>0, <1>6, FileSizes DEF Map, Creating
  <2>2. Unwritten'
    BY <1>0, <1>6, FileSizes DEF Map, Creating, Unwritten, Viewed
  <2>3. Viewed'
    BY <1>0, <1>6, FileSizes DEF Map, Creating, Viewed, Opened
  <2>4. Opened'
    BY <1>0, <1>6, FileSizes DEF Map, Creating, Unwritten, Viewed, Opened, SetUp
  <2> QED
    BY <2>1, <2>2, <2>3, <2>4
<1>7. ASSUME NEW p \in Processes, InitFree(p) PROVE Rest
  <2>1. Creating'
    BY <1>0, <1>7, FileSizes DEF InitFree, Creating
  <2>2. Unwritten'
    BY <1>0, <1>7, FileSizes DEF InitFree, Creating, Unwritten, Viewed
  <2>3. Viewed'
    BY <1>0, <1>7, FileSizes DEF InitFree, Creating, Viewed, Opened
  <2>4. Opened'
    BY <1>0, <1>7, FileSizes DEF InitFree, Creating, Unwritten, Viewed, Opened, SetUp
  <2> QED
    BY <2>1, <2>2, <2>3, <2>4
<1>8. ASSUME NEW p \in Processes, InitUsed(p) PROVE Rest
  <2>1. Creating'
    BY <1>0, <1>8, FileSizes DEF InitUsed, Creating
  <2>2. Unwritten'
    BY <1>0, <1>8, FileSizes DEF InitUsed, Creating, Unwritten, Viewed
  <2>3. Viewed'
    BY <1>0, <1>8, FileSizes DEF InitUsed, Creating, Viewed, Opened
  <2>4. Opened'
    BY <1>0, <1>8, FileSizes DEF InitUsed, Creating, Unwritten, Viewed, Opened, SetUp
  <2> QED
    BY <2>1, <2>2, <2>3, <2>4
<1>9. ASSUME NEW p \in Processes, InitSize(p) PROVE Rest
  <2>1. Creating'
    BY <1>0, <1>9, FileSizes DEF InitSize, Creating
  <2>2. Unwritten'
    BY <1>0, <1>9, FileSizes DEF InitSize, Creating, Unwritten, Viewed
  <2>3. Viewed'
    BY <1>0, <1>9, FileSizes DEF InitSize, Creating, Viewed, Opened
  <2>4. Opened'
    BY <1>0, <1>9, FileSizes DEF InitSize, Creating, Unwritten, Viewed, Opened, SetUp
  <2> QED
    BY <2>1, <2>2, <2>3, <2>4
<1>10. ASSUME NEW p \in Processes, InitPrev(p) PROVE Rest
  <2>1. Creating'
    BY <1>0, <1>10, FileSizes DEF InitPrev, Creating
  <2>2. Unwritten'
    BY <1>0, <1>10, FileSizes DEF InitPrev, Creating, Unwritten, Viewed
  <2>3. Viewed'
    BY <1>0, <1>10, FileSizes DEF InitPrev, Creating, Viewed, Opened
  <2>4. Opened'
    BY <1>0, <1>10, FileSizes DEF InitPrev, Creating, Unwritten, Viewed, Opened, SetUp
  <2> QED
    BY <2>1, <2>2, <2>3, <2>4
<1>11. ASSUME NEW p \in Processes, InitNext(p) PROVE Rest
  <2>1. Creating'
    BY <1>0, <1>11, FileSizes DEF InitNext, Creating
  <2>2. Unwritten'
    BY <1>0, <1>11, FileSizes DEF InitNext, Creating, Unwritten, Viewed
  <2>3. Viewed'
    BY <1>0, <1>11, FileSizes DEF InitNext, Creating, Viewed, Opened
  <2>4. Opened'
    BY <1>0, <1>11, FileSizes DEF InitNext, Creating, Unwritten, Viewed, Opened, SetUp
  <2> QED
    BY <2>1, <2>2, <2>3, <2>4
<1>12. ASSUME NEW p \in Processes, Use(p) PROVE Rest
  <2>1. Creating'
    BY <1>0, <1>12, FileSizes DEF Use, Creating
  <2>2. Unwritten'
    BY <1>0, <1>12, FileSizes DEF Use, Creating, Unwritten, Viewed
  <2>3. Viewed'
    BY <1>0, <1>12, FileSizes DEF Use, Creating, Viewed, Opened
  <2>4. Opened'
    BY <1>0, <1>12, FileSizes DEF Use, Creating, Unwritten, Viewed, Opened, SetUp
  <2> QED
    BY <2>1, <2>2, <2>3, <2>4
<1>13. ASSUME NEW p \in Processes, Relink(p) PROVE Rest
  <2>1. Creating'
    BY <1>0, <1>13, FileSizes DEF Relink, Creating
  <2>2. Unwritten'
    BY <1>0, <1>13, FileSizes DEF Relink, Creating, Unwritten, Viewed
  <2>3. Viewed'
    BY <1>0, <1>13, FileSizes DEF Relink, Creating, Viewed, Opened
  <2>4. Opened'
    BY <1>0, <1>13, FileSizes DEF Relink, Creating, Unwritten, Viewed, Opened, SetUp
  <2> QED
    BY <2>1, <2>2, <2>3, <2>4
<1>14. ASSUME NEW p \in Processes, Kill(p) PROVE Rest
  <2>1. Creating'
    BY <1>0, <1>14, FileSizes DEF Kill, Creating
  <2>2. Unwritten'
    BY <1>0, <1>14, FileSizes DEF Kill, Creating, Unwritten, Viewed
  <2>3. Viewed'
    BY <1>0, <1>14, FileSizes DEF Kill, Creating, Viewed, Opened
  <2>4. Opened'
    BY <1>0, <1>14, FileSizes DEF Kill, Creating, Unwritten, Viewed, Opened, SetUp
  <2> QED
    BY <2>1, <2>2, <2>3, <2>4
<1> QED
  BY <1>1, <1>2, <1>3, <1>4, <1>5, <1>6, <1>7, <1>8, <1>9, <1>10, <1>11, <1>12, <1>13, <1>14
     DEF Next

----------------------------------------------------------------------------

\* The invariant, over every order in which processes start on a file, create it,
\* use it and are killed.
THEOREM FileInvariance == Spec => []IInv
<1>1. IInv /\ [Next]_vars => IInv'
  BY StepKeepsType, StepKeepsRest DEF IInv
<1> QED
  BY Starts, <1>1, PTL DEF Spec

\* The constructor's variables and the file's header keep their types.
THEOREM FileTypeCorrect == Spec => []TypeOK
<1>1. IInv => TypeOK
  BY DEF IInv
<1> QED
  BY FileInvariance, <1>1, PTL

\* What a process has mapped lies inside the file, and the blocks it can reach inside
\* what it mapped, at whatever point of the file's creation it mapped it and whatever
\* an int made of the size (file_backed_buffer.cpp:46-74).
THEOREM ViewsAreInside == Spec => []EveryViewIsInside
<1>1. IInv => EveryViewIsInside
  <2> SUFFICES ASSUME IInv, NEW p \in Running
               PROVE  /\ m_db_size[p] \in 1 .. size
                      /\ m_db_size[p] >= Smallest =>
                           HeaderSize + BlockSize + data_size <= m_db_size[p]
    BY DEF EveryViewIsInside
  <2>1. TypeOK /\ p \in Processes /\ size # NoFile
    BY DEF IInv, Running, Creating, Initializing
  <2>2. m_db_size[p] = AsInt(size) /\ m_db_size[p] > 0
    BY <2>1 DEF IInv, Viewed
  <2>3. m_db_size[p] \in 1 .. size
    BY <2>1, <2>2, FileSizes, SizeAssumption DEF TypeOK
  <2>4. data_size \in {0, Room(m_db_size[p])}
    BY <2>2 DEF IInv, Unwritten
  <2>5. m_db_size[p] >= Smallest => Room(m_db_size[p]) = m_db_size[p] - HeaderSize - BlockSize
    BY <2>3 DEF Room, AsSize
  <2> QED
    BY <2>1, <2>3, <2>4, <2>5, FileSizes
<1> QED
  BY FileInvariance, <1>1, PTL

\* A file that is set up opens for every process that starts on it: the int that its
\* creator found positive is the same for all of them (file_backed_buffer.cpp:23, 60).
THEOREM SetUpFilesOpen == Spec => []SetUpFileOpens
<1>1. IInv => SetUpFileOpens
  BY DEF IInv, Opened, SetUpFileOpens
<1> QED
  BY FileInvariance, <1>1, PTL

\* No process clears a used list that is in use: the one that sets the file up does
\* it before there is a block to use (file_backed_buffer.cpp:64-74).
THEOREM NothingStoredIsLost == Spec => StoredIsKept
<1>1. IInv /\ [Next]_vars => (used_list # 0 => used_list' # 0)
  <2> SUFFICES ASSUME IInv, NEW p \in Processes, InitUsed(p) PROVE used_list = 0
    BY SizeAssumption DEF Next, vars, fileVars, headVars, OpenNew, OpenExisting, Truncate,
       Stat, Map, InitFree, InitSize, InitPrev, InitNext, Use, Relink, Kill
  <2> QED
    BY DEF IInv, Creating, Unwritten, InitUsed, Initializing
<1>2. IInv /\ [Next]_vars => [used_list # 0 => used_list' # 0]_vars
  BY <1>1
<1> QED
  BY FileInvariance, <1>2, PTL DEF StoredIsKept, Spec
=============================================================================
