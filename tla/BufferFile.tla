----------------------------- MODULE BufferFile -----------------------------
(***************************************************************************)
(* The constructor of FileBackedBuffer, run by processes that start on the *)
(* same file, in any order or at once, and may be killed at any step.  The *)
(* file is its size, its header and its first block; bytes that were never *)
(* written read as zero.  Sizes go through an int, and come out as a       *)
(* size_t.                                                                 *)
(***************************************************************************)
EXTENDS Integers

CONSTANTS Processes,
          BufferSizes,         \* what the starts ask for as buffer_size
          INT_MAX, SIZE_MAX

HeaderSize == 2
BlockSize  == 3
Smallest   == HeaderSize + BlockSize

ASSUME SizeAssumption ==
    /\ BufferSizes \subseteq Nat
    /\ INT_MAX \in Nat
    /\ SIZE_MAX \in Nat /\ SIZE_MAX >= INT_MAX /\ SIZE_MAX >= Smallest

NoFile == -1

VARIABLES
    size,                  \* the file's size, or NoFile
    free_list, used_list,  \* its header: empty, or led by the first block
    data_size,             \* behind the first block's header, however divided since
    links,                 \* which links of the first block lead somewhere
    pc,                    \* where each process is in the constructor
    new_file, m_db_size,   \* local variable and member of each process
    finished               \* the processes that opened a file already set up

headVars == <<free_list, used_list>>
fileVars == <<size, headVars, data_size, links>>
vars == <<fileVars, pc, new_file, m_db_size, finished>>

Goto(p, l) == pc' = [pc EXCEPT ![p] = l]

\* st_size as an int: the low bits of it, as a signed number.
AsInt(n) == ((n + INT_MAX + 1) % (2 * (INT_MAX + 1))) - (INT_MAX + 1)

\* Wrong: the subtraction is one of ints.
AsSizeSigned(n) == n

\* A difference of unsigned numbers.
AsSize(n) == IF n >= 0 THEN n ELSE n + SIZE_MAX + 1

\* What is left for data in a file of n bytes.
Room(n) == AsSize(n - HeaderSize - BlockSize)

\* The process that created the file has stored the size of its first block.
SetUp == size # NoFile /\ AsInt(size) > 0 /\ data_size = Room(AsInt(size))

Init ==
    /\ size = NoFile
    /\ free_list = 0 /\ used_list = 0 /\ data_size = 0 /\ links = {}
    /\ pc = [p \in Processes |-> "open"]
    /\ new_file = [p \in Processes |-> FALSE]
    /\ m_db_size = [p \in Processes |-> 0]
    /\ finished = {}

----------------------------------------------------------------------------

\* open() with O_CREAT and O_EXCL creates the file.
OpenNew(p) ==
    /\ pc[p] = "open" /\ size = NoFile
    /\ size' = 0
    /\ new_file' = [new_file EXCEPT ![p] = TRUE]
    /\ Goto(p, "truncate")
    /\ UNCHANGED <<headVars, data_size, links, m_db_size, finished>>

\* Wrong: the second open() empties the file.
OpenExistingTruncates(p) ==
    /\ pc[p] = "open" /\ size # NoFile
    /\ size' = 0
    /\ finished' = IF SetUp THEN finished \cup {p} ELSE finished
    /\ Goto(p, "stat")
    /\ UNCHANGED <<headVars, data_size, links, new_file, m_db_size>>

\* EEXIST: the second open().
OpenExisting(p) ==
    /\ pc[p] = "open" /\ size # NoFile
    /\ finished' = IF SetUp THEN finished \cup {p} ELSE finished
    /\ Goto(p, "stat")
    /\ UNCHANGED <<fileVars, new_file, m_db_size>>

\* ftruncate() to buffer_size, or a warning and an empty file.
Truncate(p) ==
    /\ pc[p] = "truncate"
    /\ size' \in BufferSizes \cup {size}
    /\ Goto(p, "stat")
    /\ UNCHANGED <<headVars, data_size, links, new_file, m_db_size, finished>>

\* Wrong: the file is taken to have the size this start asks for.
StatOfArgument(p) ==
    /\ pc[p] = "stat"
    /\ \E n \in BufferSizes : m_db_size' = [m_db_size EXCEPT ![p] = AsInt(n)]
    /\ Goto(p, "map")
    /\ UNCHANGED <<fileVars, new_file, finished>>

Stat(p) ==
    /\ pc[p] = "stat"
    /\ m_db_size' = [m_db_size EXCEPT ![p] = AsInt(size)]
    /\ Goto(p, "map")
    /\ UNCHANGED <<fileVars, new_file, finished>>

\* mmap() refuses an empty mapping and, as a size_t, a negative one: the
\* assertion that m_base is set fails.
Map(p) ==
    /\ pc[p] = "map"
    /\ Goto(p, IF m_db_size[p] <= 0 THEN "abort"
               ELSE IF new_file[p] THEN "init_free" ELSE "run")
    /\ UNCHANGED <<fileVars, new_file, m_db_size, finished>>

InitFree(p) ==
    /\ pc[p] = "init_free"
    /\ free_list' = HeaderSize
    /\ Goto(p, "init_used")
    /\ UNCHANGED <<size, used_list, data_size, links, new_file, m_db_size, finished>>

\* Wrong: the block is made usable before the used list is cleared.
InitUsedLate(p) ==
    /\ pc[p] = "init_used"
    /\ IF data_size = 0
       THEN /\ data_size' = Room(m_db_size[p])
            /\ UNCHANGED <<used_list, pc>>
       ELSE /\ used_list' = 0
            /\ Goto(p, "init_prev")
            /\ UNCHANGED data_size
    /\ UNCHANGED <<size, free_list, links, new_file, m_db_size, finished>>

InitUsed(p) ==
    /\ pc[p] = "init_used"
    /\ used_list' = 0
    /\ Goto(p, "init_size")
    /\ UNCHANGED <<size, free_list, data_size, links, new_file, m_db_size, finished>>

\* From this store on another process can put into the block, and the two that
\* follow clear the links it may have got by then.
InitSize(p) ==
    /\ pc[p] = "init_size"
    /\ data_size' = Room(m_db_size[p])
    /\ Goto(p, "init_prev")
    /\ UNCHANGED <<size, headVars, links, new_file, m_db_size, finished>>

InitPrev(p) ==
    /\ pc[p] = "init_prev"
    /\ links' = links \ {"prev"}
    /\ Goto(p, "init_next")
    /\ UNCHANGED <<size, headVars, data_size, new_file, m_db_size, finished>>

InitNext(p) ==
    /\ pc[p] = "init_next"
    /\ links' = links \ {"next"}
    /\ Goto(p, "run")
    /\ UNCHANGED <<size, headVars, data_size, new_file, m_db_size, finished>>

\* A put() of a process that is running takes the first block if it has room.
Use(p) ==
    /\ pc[p] = "run" /\ free_list = HeaderSize /\ data_size > 0
    /\ free_list' = 0
    /\ used_list' = HeaderSize
    /\ UNCHANGED <<size, data_size, links, pc, new_file, m_db_size, finished>>

\* Further calls of alloc() and free() link the first block with others.
Relink(p) ==
    /\ pc[p] = "run" /\ used_list = HeaderSize
    /\ links' \in SUBSET {"prev", "next"}
    /\ UNCHANGED <<size, headVars, data_size, pc, new_file, m_db_size, finished>>

\* The process ends, wherever it is, and another one starts in its place.
Kill(p) ==
    /\ pc[p] # "open"
    /\ Goto(p, "open")
    /\ new_file' = [new_file EXCEPT ![p] = FALSE]
    /\ m_db_size' = [m_db_size EXCEPT ![p] = 0]
    /\ finished' = finished \ {p}
    /\ UNCHANGED fileVars

Next ==
    \E p \in Processes :
      \/ OpenNew(p) \/ OpenExisting(p) \/ Truncate(p) \/ Stat(p) \/ Map(p)
      \/ InitFree(p) \/ InitUsed(p) \/ InitSize(p) \/ InitPrev(p) \/ InitNext(p)
      \/ Use(p) \/ Relink(p) \/ Kill(p)

Spec == Init /\ [][Next]_vars

----------------------------------------------------------------------------

\* Every variable keeps to the values its C++ type and use allow.
TypeOK ==
    /\ size \in {NoFile, 0} \cup BufferSizes
    /\ {free_list, used_list} \subseteq {0, HeaderSize}
    /\ data_size \in 0 .. SIZE_MAX
    /\ links \subseteq {"prev", "next"}
    /\ pc \in [Processes -> {"open", "truncate", "stat", "map", "init_free", "init_used",
                             "init_size", "init_prev", "init_next", "run", "abort"}]
    /\ new_file \in [Processes -> BOOLEAN]
    /\ m_db_size \in [Processes -> -(INT_MAX + 1) .. INT_MAX]
    /\ finished \subseteq Processes

Initializing == {"init_free", "init_used", "init_size", "init_prev", "init_next"}

Running == {p \in Processes : pc[p] \in Initializing \cup {"run"}}

\* Whatever point of its creation a process finds the file at, because another
\* one is at work on it or was killed, and whatever size the int made of its
\* own: what it has mapped lies inside the file, and the block that a list leads
\* to inside what it has mapped, or it has no room for anything.  The exception
\* is a mapping of fewer bytes than the header and a block take, where line 70
\* goes below zero.
EveryViewIsInside ==
    \A p \in Running :
      /\ m_db_size[p] \in 1 .. size
      /\ m_db_size[p] >= Smallest /\ (free_list # 0 \/ used_list # 0) =>
           HeaderSize + BlockSize + data_size <= m_db_size[p]

\* No start sets up a file again that something was stored in: not that of a
\* process that opened it while another was creating it, nor one after a kill
\* ("new_file", file_backed_buffer.cpp:30).
StoredIsKept == [][used_list # 0 => used_list' # 0]_vars

\* Once a file has been set up, every start on it gets through the constructor,
\* also where the int is not the file's size.
SetUpFileOpens == \A p \in finished : pc[p] # "abort"
=============================================================================
