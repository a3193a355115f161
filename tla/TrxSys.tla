------------------------------- MODULE TrxSys -------------------------------
(***************************************************************************)
(* The transaction system header of InnoDB (trx0sys.cc) across crashes and *)
(* restarts: the store of the transaction id counter, the slots of the     *)
(* rollback segments, the binlog positions and the file format tag.        *)
(*                                                                         *)
(* page is what the server sees in its buffer pool, disk what redo yields  *)
(* after a crash.  A mini-transaction is one step on page; the log reaches *)
(* the disk at any later time and always as a prefix, so copying page to   *)
(* disk at any moment gives every state a crash can leave.  file_tag is    *)
(* the tag in the data file itself, which is read before redo.             *)
(*                                                                         *)
(* The undo logs and the rows that carry transaction ids change through    *)
(* mini-transactions too and are part of page.                             *)
(***************************************************************************)
EXTENDS Integers, Sequences, FiniteSets

CONSTANTS
    TRX_SYS_TRX_ID_WRITE_MARGIN,    \* 256
    TRX_SYS_N_RSEGS,                \* slots for rollback segments: 128
    NRsegs,                         \* n_rsegs the server is configured for
    FormatMaxs,                     \* UNIV_FORMAT_MAX of the servers that
                                    \* open the database one after another
    FILE_FORMAT_NAME_N,             \* names of file formats: 26
    TAG_MAGIC_N,                    \* TRX_SYS_FILE_FORMAT_TAG_MAGIC_N
    TagSize,                        \* a tag is a number modulo TagSize: 2^64
    Names, LongNames,               \* binlog file names; those that do not fit
    WordSize,                       \* a half of an offset: 2^32
    Offsets,
    MaxStarts, MaxOps               \* bounds: server starts and client calls

ASSUME TrxSysAssumption ==
    /\ TRX_SYS_TRX_ID_WRITE_MARGIN \in Nat \ {0}
    /\ TRX_SYS_N_RSEGS \in Nat \ {0}
    /\ NRsegs \in 0 .. TRX_SYS_N_RSEGS
    /\ FormatMaxs \subseteq 0 .. FILE_FORMAT_NAME_N - 2
    /\ FILE_FORMAT_NAME_N \in Nat
    /\ TAG_MAGIC_N \in Nat
    /\ TagSize \in Nat
    /\ TAG_MAGIC_N + FILE_FORMAT_NAME_N < TagSize
    /\ FILE_FORMAT_NAME_N <= TAG_MAGIC_N
    /\ LongNames \subseteq Names
    /\ WordSize \in Nat \ {0}
    /\ Offsets \subseteq 0 .. WordSize * WordSize - 1
    /\ MaxStarts \in Nat /\ MaxOps \in Nat

VARIABLES
    page, disk, file_tag,
    clean,      \* the database was shut down, so that no recovery is needed
    phase,      \* how far the server has started
    mem,        \* the server's memory
    open_format,\* highest format of the tables this server has opened since
                \* the tag was last set by hand
    starts, ops

vars == <<page, disk, file_tag, clean, phase, mem, open_format, starts, ops>>

Margin == TRX_SYS_TRX_ID_WRITE_MARGIN
Slots == 0 .. TRX_SYS_N_RSEGS - 1
UNIV_FORMAT_MIN == 0
ULINT_UNDEFINED == -1
Fields == {"LOG_INFO", "MASTER_LOG_INFO"}
NoName == "none"
States == {"active", "prepared"}

LogInfo == [magic : BOOLEAN, name : Names \cup {NoName},
            high : 0 .. WordSize - 1, low : 0 .. WordSize - 1]
LogPos == [name : Names \cup {NoName}, pos : Int]
NoPos == [name |-> NoName, pos |-> -1]

\* ids are the transaction ids that occur in rows, logged the positions that
\* transactions asked to store.
Page == [trx_id_store : Nat, rsegs : [Slots -> BOOLEAN], tag : Nat,
         binlog : [Fields -> LogInfo], undo : SUBSET [id : Nat, state : States],
         ids : SUBSET Nat, logged : [Fields -> LogPos]]

\* rw_trx_list is kept in descending order of ids (UT_LIST_ADD_FIRST of a new
\* transaction), so that the set of its transactions determines it.
Trx == [id : Nat, state : States, mysql : BOOLEAN]

Memory == [max_trx_id : Nat, rw_trx_list : SUBSET Trx, file_format_max : Nat,
           univ_format_max : Nat, check : BOOLEAN, read_only : BOOLEAN,
           recv_needed_recovery : BOOLEAN, log_pos : [Fields -> LogPos],
           n_used : ULINT_UNDEFINED .. TRX_SYS_N_RSEGS]

Phases == {"down", "checked", "opened", "tagged", "rsegs", "running"}

TypeOK ==
    /\ page \in Page /\ disk \in Page
    /\ file_tag \in Nat
    /\ clean \in BOOLEAN
    /\ phase \in Phases
    /\ mem \in Memory
    /\ open_format \in Nat
    /\ starts \in Nat /\ ops \in Nat

EmptyLogInfo == [magic |-> FALSE, name |-> NoName, high |-> 0, low |-> 0]

\* The files before the database is created.
EmptyPage ==
    [trx_id_store |-> 0, rsegs |-> [s \in Slots |-> FALSE], tag |-> 0,
     binlog |-> [f \in Fields |-> EmptyLogInfo], undo |-> {}, ids |-> {},
     logged |-> [f \in Fields |-> NoPos]]

\* trx_sys_create and trx_sys_file_format_init: memory of a new process.
FreshMemory ==
    [max_trx_id |-> 0, rw_trx_list |-> {},
     file_format_max |-> UNIV_FORMAT_MIN, univ_format_max |-> UNIV_FORMAT_MIN,
     check |-> TRUE, read_only |-> FALSE, recv_needed_recovery |-> FALSE,
     log_pos |-> [f \in Fields |-> NoPos], n_used |-> 0]

Init ==
    /\ page = EmptyPage /\ disk = EmptyPage
    /\ file_tag = 0
    /\ clean = TRUE
    /\ phase = "down"
    /\ mem = FreshMemory
    /\ open_format = UNIV_FORMAT_MIN
    /\ starts = 0 /\ ops = 0

-----------------------------------------------------------------------------
(* Transaction ids *)

ut_uint64_align_up(n) == ((n + Margin - 1) \div Margin) * Margin

\* Faulty variant of start_max_trx_id: counting goes on at the stored value.
StartAtStore(store) == ut_uint64_align_up(store)

\* max_trx_id after trx_sys_init_at_db_start.
start_max_trx_id(store) == 2 * Margin + ut_uint64_align_up(store)

trx_sys_flush_max_trx_id(pg) ==
    IF mem.read_only THEN pg
    ELSE [pg EXCEPT !.trx_id_store = mem.max_trx_id]

-----------------------------------------------------------------------------
(* Rollback segment slots *)

\* Faulty variant of trx_sysf_rseg_find_free: the last free slot.
FindLastFree(pg) ==
    LET free == {s \in Slots : ~pg.rsegs[s]}
    IN IF free = {} THEN ULINT_UNDEFINED
       ELSE CHOOSE s \in free : \A r \in free : r <= s

\* The first free slot, or ULINT_UNDEFINED.
trx_sysf_rseg_find_free(pg) ==
    LET free == {s \in Slots : ~pg.rsegs[s]}
    IN IF free = {} THEN ULINT_UNDEFINED
       ELSE CHOOSE s \in free : \A r \in free : s <= r

\* trx_rseg_header_create in the slot trx_sysf_rseg_find_free returns.
RsegCreate(pg) ==
    [pg EXCEPT !.rsegs[trx_sysf_rseg_find_free(pg)] = TRUE]

trx_sysf_create == RsegCreate([EmptyPage EXCEPT !.trx_id_store = 1])

-----------------------------------------------------------------------------
(* Binlog positions *)

\* Faulty variant of WritesHigh: a smaller offset leaves the old high word.
WritesHighIfSet(info, offset) == offset \div WordSize > 0

\* Whether the high word is written.
WritesHigh(info, offset) == info.high > 0 \/ offset \div WordSize > 0

\* Faulty variant of trx_sys_update_mysql_binlog_offset: the low word keeps
\* the whole offset.
OffsetUnmasked(pg, f, name, offset) ==
    IF name \in LongNames THEN pg
    ELSE [pg EXCEPT
           !.binlog[f] = [magic |-> TRUE, name |-> name,
                          high |-> offset \div WordSize, low |-> offset],
           !.logged[f] = [name |-> name, pos |-> offset]]

trx_sys_update_mysql_binlog_offset(pg, f, name, offset) ==
    LET info == pg.binlog[f] IN
    IF name \in LongNames THEN pg
    ELSE [pg EXCEPT
           !.binlog[f] = [magic |-> TRUE, name |-> name,
                          high |-> IF WritesHigh(info, offset)
                                   THEN offset \div WordSize ELSE info.high,
                          low |-> offset % WordSize],
           !.logged[f] = [name |-> name, pos |-> offset]]

\* trx_sys_print_mysql_binlog_offset and trx_sys_print_mysql_master_log_pos
\* fill the global variables of their field.
print_log_pos(pg) ==
    [f \in Fields |->
       IF ~pg.binlog[f].magic THEN NoPos
       ELSE [name |-> pg.binlog[f].name,
             pos |-> pg.binlog[f].high * WordSize + pg.binlog[f].low]]

-----------------------------------------------------------------------------
(* File format tag *)

trx_sys_file_format_max_read(tag) ==
    LET id == (tag - TAG_MAGIC_N) % TagSize
    IN IF id >= FILE_FORMAT_NAME_N THEN ULINT_UNDEFINED ELSE id

\* The format a tag stands for; an untagged space has the minimum format.
FormatOf(tag) ==
    IF trx_sys_file_format_max_read(tag) = ULINT_UNDEFINED
    THEN UNIV_FORMAT_MIN ELSE trx_sys_file_format_max_read(tag)

\* Faulty variant of trx_sys_file_format_max_check: the error is only logged.
CheckOnlyWarns(limit, max_format_id) == TRUE

\* DB_SUCCESS or not, from the tag in the data file: the check comes before
\* recovery.
trx_sys_file_format_max_check(limit, max_format_id) ==
    FormatOf(file_tag) > limit => max_format_id > limit

\* trx_sys_file_format_max_write.
MaxWrite(format_id) ==
    /\ mem' = [mem EXCEPT !.file_format_max = format_id]
    /\ page' = [page EXCEPT !.tag = format_id + TAG_MAGIC_N]

trx_sys_file_format_max_set(format_id) ==
    IF format_id # mem.file_format_max THEN MaxWrite(format_id)
    ELSE UNCHANGED <<mem, page>>

-----------------------------------------------------------------------------
(* Start *)

\* trx_lists_init_at_db_start: the transactions found in undo logs.
recovered(pg) ==
    {[id |-> u.id, state |-> u.state, mysql |-> FALSE] : u \in pg.undo}

\* A new database: trx_sys_create_sys_pages, then trx_sys_init_at_db_start.
CreateDatabase(limit) ==
    /\ phase = "down" /\ starts < MaxStarts
    /\ disk.trx_id_store = 0
    /\ page' = trx_sysf_create
    /\ mem' = [FreshMemory EXCEPT
                !.univ_format_max = limit,
                !.max_trx_id = start_max_trx_id(trx_sysf_create.trx_id_store)]
    /\ phase' = "opened"
    /\ clean' = FALSE
    /\ starts' = starts + 1
    /\ UNCHANGED <<disk, file_tag, open_format, ops>>

\* A server that supports formats up to limit opens the files.  With the
\* check switched off it passes UNIV_FORMAT_MAX + 1.  A read-only server does
\* not recover.  The files stay as they are if the format is not supported.
Open(limit, check, read_only) ==
    LET max_format_id == IF check THEN UNIV_FORMAT_MIN ELSE limit + 1
        format_id == FormatOf(file_tag)
    IN /\ phase = "down" /\ starts < MaxStarts
       /\ disk.trx_id_store # 0
       /\ read_only => clean
       /\ trx_sys_file_format_max_check(limit, max_format_id)
       /\ mem' = [FreshMemory EXCEPT
                   !.univ_format_max = limit,
                   !.check = check,
                   !.read_only = read_only,
                   !.recv_needed_recovery = ~clean,
                   !.file_format_max =
                       IF format_id > max_format_id THEN format_id
                       ELSE max_format_id]
       /\ phase' = "checked"
       /\ clean' = (clean /\ read_only)
       /\ starts' = starts + 1
       /\ UNCHANGED <<page, disk, file_tag, open_format, ops>>

\* Faulty variant of trx_sys_init_at_db_start: undo logs are looked for only
\* after a crash.
ListsOnlyAfterCrash ==
    /\ phase = "checked"
    /\ mem' = [mem EXCEPT
                !.max_trx_id = start_max_trx_id(page.trx_id_store),
                !.rw_trx_list = IF mem.recv_needed_recovery THEN recovered(page)
                                ELSE @,
                !.log_pos = IF mem.recv_needed_recovery THEN print_log_pos(page)
                            ELSE @]
    /\ phase' = "opened"
    /\ UNCHANGED <<page, disk, file_tag, clean, open_format, starts, ops>>

\* After redo; the positions are read if there was a recovery.
trx_sys_init_at_db_start ==
    /\ phase = "checked"
    /\ mem' = [mem EXCEPT
                !.max_trx_id = start_max_trx_id(page.trx_id_store),
                !.rw_trx_list = recovered(page),
                !.log_pos = IF mem.recv_needed_recovery THEN print_log_pos(page)
                            ELSE @]
    /\ phase' = "opened"
    /\ UNCHANGED <<page, disk, file_tag, clean, open_format, starts, ops>>

trx_sys_file_format_tag_init ==
    /\ phase = "opened"
    /\ IF trx_sys_file_format_max_read(page.tag) = ULINT_UNDEFINED
       THEN trx_sys_file_format_max_set(UNIV_FORMAT_MIN)
       ELSE UNCHANGED <<mem, page>>
    /\ phase' = "tagged"
    /\ UNCHANGED <<disk, file_tag, clean, open_format, starts, ops>>

\* The first part of trx_sys_create_rsegs: the segments in use.
trx_sys_create_rsegs ==
    LET n_used == trx_sysf_rseg_find_free(page) IN
    /\ phase = "tagged"
    /\ mem' = [mem EXCEPT !.n_used =
                IF mem.read_only THEN ULINT_UNDEFINED
                ELSE IF n_used = ULINT_UNDEFINED THEN TRX_SYS_N_RSEGS
                ELSE n_used]
    /\ phase' = IF mem.read_only THEN "running" ELSE "rsegs"
    /\ UNCHANGED <<page, disk, file_tag, clean, open_format, starts, ops>>

\* Its loop: trx_rseg_create has a mini-transaction of its own and may fail.
\* No segment is added after a crash.
create_rsegs_loop ==
    /\ phase = "rsegs"
    /\ \/ /\ ~mem.recv_needed_recovery /\ mem.n_used < NRsegs
          /\ page' = RsegCreate(page)
          /\ mem' = [mem EXCEPT !.n_used = @ + 1]
          /\ UNCHANGED phase
       \/ phase' = "running" /\ UNCHANGED <<page, mem>>
    /\ UNCHANGED <<disk, file_tag, clean, open_format, starts, ops>>

Start ==
    \/ \E limit \in FormatMaxs :
         \/ CreateDatabase(limit)
         \/ \E check, read_only \in BOOLEAN : Open(limit, check, read_only)
    \/ trx_sys_init_at_db_start \/ trx_sys_file_format_tag_init
    \/ trx_sys_create_rsegs \/ create_rsegs_loop

-----------------------------------------------------------------------------
(* Clients of a running server *)

Call ==
    /\ phase = "running" /\ ops < MaxOps
    /\ ops' = ops + 1
    /\ UNCHANGED <<disk, file_tag, clean, phase, starts>>

\* A call that changes the database.
Write == Call /\ ~mem.read_only

\* trx_sys_get_new_trx_id writes the counter at every multiple of the margin.
\* The transactions of a read-only server are on another list and leave
\* nothing behind.
StartTrx ==
    LET trx == [id |-> mem.max_trx_id, state |-> "active", mysql |-> TRUE] IN
    /\ Call
    /\ page' = IF mem.max_trx_id % Margin = 0
               THEN trx_sys_flush_max_trx_id(page) ELSE page
    /\ mem' = [mem EXCEPT !.max_trx_id = @ + 1,
                          !.rw_trx_list = IF mem.read_only THEN @
                                          ELSE @ \cup {trx}]
    /\ UNCHANGED open_format

\* The undo log of a transaction gets a new state.
SetUndo(undo, trx, state) ==
    {u \in undo : u.id # trx.id} \cup {[id |-> trx.id, state |-> state]}

\* The first change of a row writes an undo log and the id.
Modify(trx) ==
    /\ Write
    /\ trx.mysql /\ trx.state = "active"
    /\ trx.id \notin page.ids
    /\ page' = [page EXCEPT !.undo = SetUndo(@, trx, "active"),
                            !.ids = @ \cup {trx.id}]
    /\ UNCHANGED <<mem, open_format>>

Prepare(trx) ==
    /\ Write
    /\ trx.mysql /\ trx.state = "active" /\ trx.id \in page.ids
    /\ page' = [page EXCEPT !.undo = SetUndo(@, trx, "prepared")]
    /\ mem' = [mem EXCEPT !.rw_trx_list =
                (@ \ {trx}) \cup {[trx EXCEPT !.state = "prepared"]}]
    /\ UNCHANGED open_format

\* The session of a prepared transaction ends; the transaction stays.
Disconnect(trx) ==
    /\ Call
    /\ trx.mysql /\ trx.state = "prepared"
    /\ mem' = [mem EXCEPT !.rw_trx_list =
                (@ \ {trx}) \cup {[trx EXCEPT !.mysql = FALSE]}]
    /\ UNCHANGED <<page, open_format>>

\* A commit or rollback frees the undo log; a commit through MySQL stores the
\* position in the binlog in the same mini-transaction.
End(trx) ==
    LET rest == [page EXCEPT !.undo = {u \in @ : u.id # trx.id}] IN
    /\ Write
    /\ mem' = [mem EXCEPT !.rw_trx_list = @ \ {trx}]
    /\ \/ page' = rest
       \/ /\ trx.mysql /\ trx.id \in page.ids
          /\ \E f \in Fields, name \in Names, offset \in Offsets :
               page' = trx_sys_update_mysql_binlog_offset(rest, f, name, offset)
    /\ UNCHANGED open_format

\* Faulty variant of trx_sys_file_format_max_upgrade: off by one.
UpgradeOffByOne(format_id) ==
    IF format_id > mem.file_format_max + 1 THEN MaxWrite(format_id)
    ELSE UNCHANGED <<mem, page>>

trx_sys_file_format_max_upgrade(format_id) ==
    IF format_id > mem.file_format_max THEN MaxWrite(format_id)
    ELSE UNCHANGED <<mem, page>>

\* A table of the given format is created or opened.
OpenTable(format_id) ==
    /\ Write
    /\ format_id <= mem.univ_format_max
    /\ format_id > open_format
    /\ trx_sys_file_format_max_upgrade(format_id)
    /\ open_format' = format_id

\* The tag is set by hand.
SetFormatMax(format_id) ==
    /\ Write
    /\ format_id <= mem.univ_format_max
    /\ trx_sys_file_format_max_set(format_id)
    /\ open_format' = UNIV_FORMAT_MIN

Clients ==
    \/ StartTrx
    \/ \E trx \in mem.rw_trx_list :
         Modify(trx) \/ Prepare(trx) \/ Disconnect(trx) \/ End(trx)
    \/ \E format_id \in FormatMaxs :
         OpenTable(format_id) \/ SetFormatMax(format_id)

-----------------------------------------------------------------------------
(* Stops *)

n_prepared_trx ==
    Cardinality({trx \in mem.rw_trx_list : trx.state = "prepared"})

\* mysql_trx_list holds the transactions of sessions.
trx_sys_any_active_transactions ==
    LET mysql_trx_list == {trx \in mem.rw_trx_list : trx.mysql}
    IN Cardinality(mem.rw_trx_list) + Cardinality(mysql_trx_list)
         - n_prepared_trx

\* A server that changes the files has written everything when it has shut
\* down.
trx_sys_close ==
    /\ phase = "running"
    /\ trx_sys_any_active_transactions = 0
    /\ phase' = "down"
    /\ disk' = page
    /\ file_tag' = page.tag
    /\ clean' = TRUE
    /\ mem' = FreshMemory
    /\ open_format' = UNIV_FORMAT_MIN
    /\ UNCHANGED <<page, starts, ops>>

\* The redo log reaches the disk.
LogFlush ==
    /\ phase # "down" /\ ~mem.read_only
    /\ disk' = page
    /\ UNCHANGED <<page, file_tag, clean, phase, mem, open_format, starts, ops>>

\* The page reaches the data file; its redo log is on disk before.
PageFlush ==
    /\ phase # "down" /\ ~mem.read_only
    /\ disk = page
    /\ file_tag' = page.tag
    /\ UNCHANGED <<page, disk, clean, phase, mem, open_format, starts, ops>>

Crash ==
    /\ phase # "down"
    /\ phase' = "down"
    /\ page' = disk
    /\ mem' = FreshMemory
    /\ open_format' = UNIV_FORMAT_MIN
    /\ UNCHANGED <<disk, file_tag, clean, starts, ops>>

Stop == trx_sys_close \/ Crash

Next == Start \/ Clients \/ LogFlush \/ PageFlush \/ Stop

Spec == Init /\ [][Next]_vars

-----------------------------------------------------------------------------
(* Properties *)

\* A server that has read the header (trx_sys_init_at_db_start).
Opened == phase \notin {"down", "checked"}

\* The next transaction id has never been written to a row, whatever crashes
\* and restarts came before ("Thus trx id values will not overlap when the
\* database is repeatedly started!", trx_sys_init_at_db_start).
IdsFresh == Opened => \A id \in page.ids : id < mem.max_trx_id

\* trx_sys_validate_trx_list_low: no two transactions on rw_trx_list, recovered
\* ones included, have the same id, and the next one belongs before all of them.
trx_sys_validate_trx_list ==
    \A trx \in mem.rw_trx_list :
      /\ trx.id < mem.max_trx_id
      /\ \A prev_trx \in mem.rw_trx_list : prev_trx.id = trx.id => prev_trx = trx

\* Every undo log has its transaction on rw_trx_list, in the same state, until
\* the transaction ends: none is lost by restarts, even several of them
\* (trx_sys_init_at_db_start, trx_sys_close).
UndoHasTrx ==
    Opened =>
      \A u \in page.undo :
        \E trx \in mem.rw_trx_list : trx.id = u.id /\ trx.state = u.state

\* The position printed after a crash is the one that the last durable commit
\* stored, both words of the offset included.
BinlogPosRecovered ==
    phase \in {"opened", "tagged", "rsegs"} /\ mem.recv_needed_recovery =>
      mem.log_pos = page.logged

\* In a server that checks the tag and opened cleanly closed files, the cached
\* file_format_max is the format on the page, and that format is at least the
\* one of every table opened since the start or since the tag was set by hand,
\* which may lower it (trx_sys_file_format_max_write, _upgrade, _set).  After a
\* recovery the cache is the tag from before redo, and without the check it is
\* a number above all formats: nothing of the kind holds there.
TagCoversOpenTables ==
    phase # "down" /\ mem.check /\ ~mem.recv_needed_recovery =>
      /\ mem.file_format_max = FormatOf(page.tag)
      /\ open_format <= FormatOf(page.tag)

\* A server that checks the tag of cleanly closed files never runs on a format
\* that it does not support (trx_sys_file_format_max_check).
FormatGate ==
    phase # "down" /\ mem.check /\ ~mem.recv_needed_recovery =>
      FormatOf(page.tag) <= mem.univ_format_max

\* The rollback segments fill a prefix of the slots, the first one included,
\* and n_used counts them: trx_sys_close frees them up to the first gap, and
\* trx_sys_create_rsegs takes the first free slot for their number.
RsegsContiguous ==
    LET used == {s \in Slots : page.rsegs[s]} IN
    /\ Opened => 0 \in used
    /\ \A s \in used : 0 .. s \subseteq used
    /\ phase \in {"rsegs", "running"} /\ ~mem.read_only =>
         mem.n_used = Cardinality(used)

=============================================================================
