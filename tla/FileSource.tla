----------------------------- MODULE FileSource -----------------------------
(* The memory-mapped tick file: FileSource::open(), one action per system  *)
(* call and test, each of which may fail, and close(), which the           *)
(* destructor calls.  A failing step closes the descriptor before open()   *)
(* returns.                                                                *)
(* External: the file and what the kernel holds for the process.           *)
EXTENDS Integers

CONSTANTS
    RecordSize,     \* sizeof(MarketTick)
    FileSizes       \* bound: sizes the file may have

ASSUME FileAssumption ==
    /\ RecordSize \in Nat \ {0}
    /\ FileSizes \subseteq Nat

VARIABLES
    fpc,            \* what open() does next; "failed" and "opened": it has returned
    fd_,            \* NoFd: -1
    mapped_,        \* whether it points to a mapping
    file_size_,
    size,           \* external: the size of the file
    descriptors,    \* external: descriptors the kernel holds open
    mapping         \* external: bytes the kernel has mapped

file == <<fpc, fd_, mapped_, file_size_, size, descriptors, mapping>>

NoFd == -1
Fd == 3

FileInit ==
    /\ fpc = "new" /\ fd_ = NoFd /\ mapped_ = FALSE /\ file_size_ = 0
    /\ size \in FileSizes /\ descriptors = {} /\ mapping = 0
-----------------------------------------------------------------------------
OpenFile ==
    /\ fpc = "new"
    /\ \/ fd_' = Fd /\ descriptors' = {Fd} /\ fpc' = "stat"
       \/ fd_' = NoFd /\ UNCHANGED descriptors /\ fpc' = "failed"
    /\ UNCHANGED <<mapped_, file_size_, size, mapping>>

\* The clean-up of a step that failed.
GiveUp ==
    /\ descriptors' = descriptors \ {fd_} /\ fd_' = NoFd
    /\ fpc' = "failed"

Stat ==
    /\ fpc = "stat"
    /\ \/ /\ file_size_' = size /\ fpc' = "size"
          /\ UNCHANGED <<fd_, descriptors>>
       \/ GiveUp /\ UNCHANGED file_size_
    /\ UNCHANGED <<mapped_, size, mapping>>

\* Bug: the descriptor is forgotten, not closed, when the size is wrong.
CheckSize_Leak ==
    /\ fpc = "size"
    /\ IF file_size_ = 0 \/ file_size_ % RecordSize # 0
       THEN fd_' = NoFd /\ fpc' = "failed" /\ UNCHANGED descriptors
       ELSE fpc' = "map" /\ UNCHANGED <<fd_, descriptors>>
    /\ UNCHANGED <<mapped_, file_size_, size, mapping>>

\* Neither empty nor ending in the middle of a record.
CheckSize ==
    /\ fpc = "size"
    /\ IF file_size_ = 0 \/ file_size_ % RecordSize # 0
       THEN GiveUp
       ELSE fpc' = "map" /\ UNCHANGED <<fd_, descriptors>>
    /\ UNCHANGED <<mapped_, file_size_, size, mapping>>

Map ==
    /\ fpc = "map"
    /\ \/ /\ mapped_' = TRUE /\ mapping' = file_size_ /\ fpc' = "opened"
          /\ UNCHANGED <<fd_, descriptors>>
       \/ mapped_' = FALSE /\ GiveUp /\ UNCHANGED mapping
    /\ UNCHANGED <<file_size_, size>>

Open == OpenFile \/ Stat \/ CheckSize \/ Map

\* A failed open() may leave file_size_ set; the pointer decides.
count == IF mapped_ THEN file_size_ \div RecordSize ELSE 0

\* Bug: the size is reset before the pages are unmapped.
close_SizeFirst ==
    /\ file_size_' = 0 /\ mapped_' = FALSE /\ UNCHANGED mapping
    /\ descriptors' = descriptors \ {fd_} /\ fd_' = NoFd
    /\ UNCHANGED <<fpc, size>>

close ==
    /\ IF mapped_
       THEN mapping' = mapping - file_size_ /\ mapped_' = FALSE /\ file_size_' = 0
       ELSE UNCHANGED <<mapping, mapped_, file_size_>>
    /\ descriptors' = descriptors \ {fd_} /\ fd_' = NoFd
    /\ UNCHANGED <<fpc, size>>
=============================================================================
