---------------------------- MODULE TrxSysProofs ----------------------------
(***************************************************************************)
(* The transaction system header (TrxSys) across crashes and restarts, for *)
(* every margin: transaction ids are never handed out twice, and the       *)
(* binlog positions, the slots of the rollback segments and the file       *)
(* format tag stay right.                                                  *)
(***************************************************************************)
EXTENDS TrxSys, FiniteSetTheorems, WellFoundedInduction, TLAPS

-----------------------------------------------------------------------------
(* Arithmetic of the margin *)

LEMMA MarginNat == Margin \in Nat /\ Margin > 0
BY TrxSysAssumption DEF Margin

\* A multiple of the margin has remainder zero.
LEMMA MultipleRemainder ==
    ASSUME NEW k \in Nat PROVE (k * Margin) % Margin = 0
BY MarginNat

\* The next multiple of the margin comes one margin later.
LEMMA NextMultiple ==
    ASSUME NEW x \in Nat, x % Margin = 0
    PROVE  (x + Margin) % Margin = 0
<1>1. x = (x \div Margin) * Margin /\ x \div Margin \in Nat
  BY MarginNat
<1>2. x + Margin = ((x \div Margin) + 1) * Margin
  BY <1>1, MarginNat
<1> QED
  BY <1>1, <1>2, MarginNat, MultipleRemainder

\* The stored counter is rounded up.
LEMMA AlignUp ==
    ASSUME NEW n \in Nat
    PROVE  /\ ut_uint64_align_up(n) \in Nat
           /\ ut_uint64_align_up(n) >= n
           /\ ut_uint64_align_up(n) % Margin = 0
           /\ ut_uint64_align_up(n) < n + Margin
<1>1. ut_uint64_align_up(n) \in Nat /\ ut_uint64_align_up(n) >= n
  BY MarginNat DEF ut_uint64_align_up
<1>2. (n + Margin - 1) \div Margin \in Nat
  BY MarginNat
<1>3. ut_uint64_align_up(n) % Margin = 0
  BY <1>2, MultipleRemainder DEF ut_uint64_align_up
<1>4. ut_uint64_align_up(n) < n + Margin
  BY MarginNat DEF ut_uint64_align_up
<1> QED
  BY <1>1, <1>3, <1>4

\* A server starts above everything that could have been given out since the
\* counter was last written, and at a multiple of the margin.
LEMMA StartAbove ==
    ASSUME NEW n \in Nat
    PROVE  /\ start_max_trx_id(n) \in Nat
           /\ start_max_trx_id(n) >= n + 2 * Margin
           /\ start_max_trx_id(n) % Margin = 0
<1> DEFINE a == ut_uint64_align_up(n)
<1>1. a \in Nat /\ a >= n /\ a % Margin = 0
  BY AlignUp
<1> HIDE DEF a
<1>2. (a + Margin) % Margin = 0 /\ a + Margin \in Nat
  BY <1>1, NextMultiple, MarginNat
<1>3. (a + Margin + Margin) % Margin = 0
  BY <1>2, NextMultiple
<1>4. start_max_trx_id(n) = a + Margin + Margin
  BY <1>1, MarginNat DEF start_max_trx_id, a
<1> QED
  BY <1>1, <1>3, <1>4, MarginNat

-----------------------------------------------------------------------------
(* Types *)

\* Every nonempty set of natural numbers has a least element.
LEMMA NatMin ==
    ASSUME NEW T \in SUBSET Nat, T # {}
    PROVE  \E m \in T : \A k \in T : m <= k
<1> DEFINE R == OpToRel(<, Nat)
<1>1. IsWellFoundedOn(R, Nat)
  BY NatLessThanWellFounded
<1>2. \A x, y \in Nat : y < x => <<y, x>> \in R
  BY DEF OpToRel
<1> HIDE DEF R
<1>3. PICK x \in T : \A y \in T : ~ (<<y, x>> \in R)
  BY <1>1, WFMin
<1>4. ASSUME NEW k \in T PROVE ~(k < x)
  BY <1>2, <1>3
<1>5. ASSUME NEW k \in T PROVE x <= k
  BY <1>4
<1> QED
  BY <1>5

\* The first free slot is a slot.
LEMMA FindFreeType ==
    ASSUME NEW pg \in Page
    PROVE  trx_sysf_rseg_find_free(pg) \in ULINT_UNDEFINED .. TRX_SYS_N_RSEGS - 1
<1> DEFINE free == {s \in Slots : ~pg.rsegs[s]}
<1>1. free \in SUBSET Nat
  BY TrxSysAssumption DEF Slots
<1>2. CASE free = {}
  BY <1>2, TrxSysAssumption DEF trx_sysf_rseg_find_free, ULINT_UNDEFINED
<1>3. CASE free # {}
  <2>2. \E s \in free : \A r \in free : s <= r
    BY <1>1, <1>3, NatMin
  <2>3. trx_sysf_rseg_find_free(pg) \in free
    BY <1>3, <2>2 DEF trx_sysf_rseg_find_free
  <2> QED
    BY <2>3, TrxSysAssumption DEF Slots, ULINT_UNDEFINED
<1> QED
  BY <1>2, <1>3

\* Creating a rollback segment keeps the page's type and changes slots only.
LEMMA RsegCreateType ==
    ASSUME NEW pg \in Page
    PROVE  /\ RsegCreate(pg) \in Page
           /\ RsegCreate(pg).trx_id_store = pg.trx_id_store
           /\ RsegCreate(pg).ids = pg.ids
           /\ RsegCreate(pg).undo = pg.undo
BY DEF RsegCreate, Page

LEMMA EmptyPageType == EmptyPage \in Page
BY TrxSysAssumption
   DEF EmptyPage, Page, EmptyLogInfo, LogInfo, LogPos, NoPos, NoName

LEMMA CreateType ==
    /\ trx_sysf_create \in Page
    /\ trx_sysf_create.trx_id_store = 1
    /\ trx_sysf_create.ids = {}
    /\ trx_sysf_create.undo = {}
<1> DEFINE pg == [EmptyPage EXCEPT !.trx_id_store = 1]
<1>1. /\ pg \in Page /\ pg.trx_id_store = 1 /\ pg.ids = {} /\ pg.undo = {}
  BY EmptyPageType DEF EmptyPage, Page
<1> QED
  BY <1>1, RsegCreateType DEF trx_sysf_create

LEMMA FreshMemoryType == FreshMemory \in Memory
BY TrxSysAssumption
   DEF FreshMemory, Memory, LogPos, NoPos, NoName, UNIV_FORMAT_MIN, Trx,
       ULINT_UNDEFINED

\* The words of an offset fit.
LEMMA Words ==
    ASSUME NEW offset \in Offsets
    PROVE  /\ offset \div WordSize \in 0 .. WordSize - 1
           /\ offset % WordSize \in 0 .. WordSize - 1
           /\ offset \in Nat
<1>1. offset \in Nat /\ offset < WordSize * WordSize /\ WordSize \in Nat \ {0}
  BY TrxSysAssumption
<1> QED
  BY <1>1

LEMMA UpdateOffsetType ==
    ASSUME NEW pg \in Page, NEW f \in Fields, NEW name \in Names,
           NEW offset \in Offsets
    PROVE  LET new == trx_sys_update_mysql_binlog_offset(pg, f, name, offset)
           IN /\ new \in Page
              /\ new.trx_id_store = pg.trx_id_store
              /\ new.ids = pg.ids
              /\ new.undo = pg.undo
<1> DEFINE info == [magic |-> TRUE, name |-> name,
                    high |-> IF WritesHigh(pg.binlog[f], offset)
                             THEN offset \div WordSize ELSE pg.binlog[f].high,
                    low |-> offset % WordSize]
           pos == [name |-> name, pos |-> offset]
<1>1. info \in LogInfo
  BY Words DEF Page, LogInfo
<1>2. pos \in LogPos
  BY Words DEF LogPos
<1>3. trx_sys_update_mysql_binlog_offset(pg, f, name, offset)
        \in {pg, [pg EXCEPT !.binlog[f] = info, !.logged[f] = pos]}
  BY DEF trx_sys_update_mysql_binlog_offset
<1> HIDE DEF info, pos
<1> DEFINE binlog == [pg.binlog EXCEPT ![f] = info]
           logged == [pg.logged EXCEPT ![f] = pos]
<1>4. binlog \in [Fields -> LogInfo] /\ logged \in [Fields -> LogPos]
  BY <1>1, <1>2 DEF Page
<1>5. [pg EXCEPT !.binlog[f] = info, !.logged[f] = pos]
        = [pg EXCEPT !.binlog = binlog, !.logged = logged]
  BY DEF Page
<1> HIDE DEF binlog, logged
<1>6. LET new == [pg EXCEPT !.binlog = binlog, !.logged = logged]
      IN /\ new \in Page
         /\ new.trx_id_store = pg.trx_id_store
         /\ new.ids = pg.ids
         /\ new.undo = pg.undo
  BY <1>4 DEF Page
<1> QED
  BY <1>3, <1>5, <1>6

LEMMA PrintType ==
    ASSUME NEW pg \in Page PROVE print_log_pos(pg) \in [Fields -> LogPos]
<1> SUFFICES ASSUME NEW f \in Fields, pg.binlog[f].magic
             PROVE  pg.binlog[f].high * WordSize + pg.binlog[f].low \in Int
  BY DEF print_log_pos, LogPos, NoPos, Page, LogInfo
<1> QED
  BY TrxSysAssumption DEF Page, LogInfo

LEMMA FormatOfType == ASSUME NEW tag \in Nat PROVE FormatOf(tag) \in Nat
BY TrxSysAssumption
   DEF FormatOf, trx_sys_file_format_max_read, UNIV_FORMAT_MIN, ULINT_UNDEFINED

LEMMA TypeInit == Init => TypeOK
BY EmptyPageType, FreshMemoryType DEF Init, TypeOK, Phases, UNIV_FORMAT_MIN

\* Each step keeps the types.
LEMMA TypeNext == TypeOK /\ [Next]_vars => TypeOK'
<1> SUFFICES ASSUME TypeOK, [Next]_vars PROVE TypeOK'
  OBVIOUS
<1>t. /\ page \in Page /\ disk \in Page /\ file_tag \in Nat
      /\ clean \in BOOLEAN /\ phase \in Phases /\ mem \in Memory
      /\ open_format \in Nat /\ starts \in Nat /\ ops \in Nat
  BY DEF TypeOK
<1>f. \A limit \in FormatMaxs : limit \in Nat
  BY TrxSysAssumption
<1>1. ASSUME NEW limit \in FormatMaxs, CreateDatabase(limit) PROVE TypeOK'
  <2>1. start_max_trx_id(trx_sysf_create.trx_id_store) \in Nat
    BY CreateType, StartAbove
  <2>2. mem' \in Memory
    BY <1>1, <1>f, <2>1, FreshMemoryType DEF CreateDatabase, Memory
  <2>3. /\ page' \in Page /\ clean' = FALSE /\ phase' = "opened"
        /\ starts' \in Nat
        /\ UNCHANGED <<disk, file_tag, open_format, ops>>
    BY <1>1, <1>t, CreateType DEF CreateDatabase
  <2> QED
    BY <1>t, <2>2, <2>3 DEF TypeOK, Phases
<1>2. ASSUME NEW limit \in FormatMaxs, NEW check \in BOOLEAN,
             NEW read_only \in BOOLEAN, Open(limit, check, read_only)
      PROVE  TypeOK'
  <2> DEFINE max_format_id == IF check THEN UNIV_FORMAT_MIN ELSE limit + 1
             format_max == IF FormatOf(file_tag) > max_format_id
                           THEN FormatOf(file_tag) ELSE max_format_id
  <2>1. format_max \in Nat
    BY <1>t, <1>f, FormatOfType DEF UNIV_FORMAT_MIN
  <2>2. mem' = [FreshMemory EXCEPT
                 !.univ_format_max = limit, !.check = check,
                 !.read_only = read_only, !.recv_needed_recovery = ~clean,
                 !.file_format_max = format_max]
    BY <1>2 DEF Open
  <2> HIDE DEF format_max, max_format_id
  <2>3. mem' \in Memory
    BY <1>t, <1>f, <2>1, <2>2, FreshMemoryType, ZenonT(40) DEF Memory
  <2>4. /\ phase' = "checked" /\ clean' \in BOOLEAN /\ starts' = starts + 1
        /\ UNCHANGED <<page, disk, file_tag, open_format, ops>>
    BY <1>2, <1>t DEF Open, TypeOK
  <2> QED
    BY <1>t, <2>3, <2>4 DEF TypeOK, Phases
<1>3. CASE trx_sys_init_at_db_start
  <2>1. start_max_trx_id(page.trx_id_store) \in Nat
    BY <1>t, StartAbove DEF Page
  <2>2. recovered(page) \in SUBSET Trx
    <3>1. ASSUME NEW u \in page.undo
          PROVE  [id |-> u.id, state |-> u.state, mysql |-> FALSE] \in Trx
      BY <1>t DEF Page, Trx
    <3> QED
      BY <3>1 DEF recovered
  <2>3. mem' \in Memory
    BY <1>3, <1>t, <2>1, <2>2, PrintType DEF trx_sys_init_at_db_start, Memory
  <2> QED
    BY <1>3, <1>t, <2>3 DEF trx_sys_init_at_db_start, TypeOK, Phases
<1>w. ASSUME NEW format_id \in Nat, MaxWrite(format_id)
      PROVE  page' \in Page /\ mem' \in Memory
  BY <1>w, <1>t, TrxSysAssumption DEF MaxWrite, Page, Memory
<1>4. CASE trx_sys_file_format_tag_init
  BY <1>4, <1>t, <1>w
     DEF trx_sys_file_format_tag_init, trx_sys_file_format_max_set, TypeOK,
         Phases, UNIV_FORMAT_MIN
<1>5. CASE trx_sys_create_rsegs
  <2>1. mem'.n_used \in ULINT_UNDEFINED .. TRX_SYS_N_RSEGS
    BY <1>5, <1>t, FindFreeType, TrxSysAssumption
       DEF trx_sys_create_rsegs, Memory, ULINT_UNDEFINED
  <2>2. mem' \in Memory
    BY <1>5, <1>t, <2>1 DEF trx_sys_create_rsegs, Memory
  <2> QED
    BY <1>5, <1>t, <2>2 DEF trx_sys_create_rsegs, TypeOK, Phases
<1>6. CASE create_rsegs_loop
  <2>1. mem' \in Memory
    BY <1>6, <1>t, TrxSysAssumption
       DEF create_rsegs_loop, Memory, ULINT_UNDEFINED
  <2>2. page' \in Page
    BY <1>6, <1>t, RsegCreateType DEF create_rsegs_loop
  <2> QED
    BY <1>6, <1>t, <2>1, <2>2 DEF create_rsegs_loop, TypeOK, Phases
<1>7. CASE StartTrx
  <2> DEFINE trx == [id |-> mem.max_trx_id, state |-> "active", mysql |-> TRUE]
  <2>1. trx \in Trx
    BY <1>t DEF Memory, Trx, States
  <2>2. mem' \in Memory
    <3> DEFINE list == IF mem.read_only THEN mem.rw_trx_list
                       ELSE mem.rw_trx_list \cup {trx}
    <3>1. list \in SUBSET Trx /\ mem.max_trx_id + 1 \in Nat
      <4>1. mem.rw_trx_list \in SUBSET Trx /\ mem.max_trx_id \in Nat
        BY <1>t DEF Memory
      <4> HIDE DEF trx
      <4> QED
        BY <4>1, <2>1
    <3>2. mem' = [mem EXCEPT !.max_trx_id = mem.max_trx_id + 1,
                             !.rw_trx_list = list]
      BY <1>7, <1>t DEF StartTrx, Memory
    <3> HIDE DEF list
    <3> QED
      BY <1>t, <3>1, <3>2 DEF Memory
  <2>3. page' \in Page
    BY <1>7, <1>t DEF StartTrx, trx_sys_flush_max_trx_id, Page, Memory
  <2> QED
    BY <1>7, <1>t, <2>2, <2>3 DEF StartTrx, Call, TypeOK
<1>8. ASSUME NEW trx \in mem.rw_trx_list,
             Modify(trx) \/ Prepare(trx) \/ Disconnect(trx) \/ End(trx)
      PROVE  TypeOK'
  <2>1. trx \in Trx
    BY <1>t DEF Memory
  <2>2. ASSUME NEW state \in States
        PROVE  SetUndo(page.undo, trx, state) \in SUBSET [id : Nat, state : States]
    BY <1>t, <2>1 DEF SetUndo, Page, Trx
  <2>3. CASE Modify(trx)
    <3>1. page' \in Page
      BY <2>1, <2>2, <2>3, <1>t DEF Modify, Page, Trx, States
    <3> QED
      BY <3>1, <2>3, <1>t DEF Modify, Write, Call, TypeOK
  <2>4. CASE Prepare(trx)
    <3>1. page' \in Page
      BY <2>2, <2>4, <1>t DEF Prepare, Page, States
    <3>2. [trx EXCEPT !.state = "prepared"] \in Trx
      BY <2>1 DEF Trx, States
    <3>3. mem' \in Memory
      BY <3>2, <2>4, <1>t DEF Prepare, Memory
    <3> QED
      BY <3>1, <3>3, <2>4, <1>t DEF Prepare, Write, Call, TypeOK
  <2>5. CASE Disconnect(trx)
    <3>1. [trx EXCEPT !.mysql = FALSE] \in Trx
      BY <2>1 DEF Trx
    <3>2. mem' \in Memory
      BY <3>1, <2>5, <1>t DEF Disconnect, Memory
    <3> QED
      BY <3>2, <2>5, <1>t DEF Disconnect, Call, TypeOK
  <2>6. CASE End(trx)
    <3> DEFINE rest == [page EXCEPT !.undo = {u \in @ : u.id # trx.id}]
    <3>1. rest \in Page
      BY <1>t DEF Page
    <3>2. page' \in Page
      BY <3>1, <2>6, UpdateOffsetType DEF End
    <3>3. mem' \in Memory
      BY <2>6, <1>t DEF End, Memory
    <3> QED
      BY <3>2, <3>3, <2>6, <1>t DEF End, Write, Call, TypeOK
  <2> QED
    BY <1>8, <2>3, <2>4, <2>5, <2>6
<1>9. ASSUME NEW format_id \in FormatMaxs,
             OpenTable(format_id) \/ SetFormatMax(format_id)
      PROVE  TypeOK'
  <2>1. page' \in Page /\ mem' \in Memory
    BY <1>9, <1>t, <1>f, <1>w
       DEF OpenTable, SetFormatMax, trx_sys_file_format_max_upgrade,
           trx_sys_file_format_max_set
  <2> QED
    BY <1>9, <1>t, <1>f, <2>1
       DEF OpenTable, SetFormatMax, Write, Call, TypeOK, UNIV_FORMAT_MIN
<1>10. CASE trx_sys_close \/ Crash
  <2>1. page.tag \in Nat
    BY <1>t DEF Page
  <2> QED
    <3>1. /\ page' \in Page /\ disk' \in Page /\ file_tag' \in Nat
          /\ clean' \in {clean, TRUE} /\ phase' = "down" /\ mem' \in Memory
          /\ open_format' \in Nat /\ UNCHANGED <<starts, ops>>
      <4>1. CASE trx_sys_close
        BY <4>1, <1>t, <2>1, FreshMemoryType
           DEF trx_sys_close, UNIV_FORMAT_MIN
      <4>2. CASE Crash
        BY <4>2, <1>t, FreshMemoryType DEF Crash, UNIV_FORMAT_MIN
      <4> QED
        BY <1>10, <4>1, <4>2
    <3> QED
      BY <1>t, <3>1 DEF TypeOK, Phases
<1>11. CASE LogFlush \/ PageFlush
  <2>1. page.tag \in Nat
    BY <1>t DEF Page
  <2> QED
    BY <1>11, <1>t, <2>1 DEF LogFlush, PageFlush, TypeOK
<1>12. CASE UNCHANGED vars
  BY <1>12, <1>t DEF vars, TypeOK
<1> QED
  BY <1>1, <1>2, <1>3, <1>4, <1>5, <1>6, <1>7, <1>8, <1>9, <1>10, <1>11, <1>12
     DEF Next, Start, Clients, Stop

\* Types of the transaction system, for every value of the constants.
THEOREM TypeCorrect == Spec => []TypeOK
BY TypeInit, TypeNext, PTL DEF Spec

-----------------------------------------------------------------------------
(* The inductive invariant *)

\* What a crash must not break: whatever ids are in rows, a start from this
\* page continues above them; an undo log belongs to one transaction.
PageInv(pg) ==
    /\ \A id \in pg.ids : id < start_max_trx_id(pg.trx_id_store)
    /\ \A u \in pg.undo : u.id \in pg.ids
    /\ \A u, v \in pg.undo : u.id = v.id => u = v

\* The counter runs at most one margin ahead of the store once it has been
\* written, and is written before it is used after a start.
CounterInv ==
    /\ mem.max_trx_id <= start_max_trx_id(page.trx_id_store)
    /\ \/ mem.max_trx_id % Margin = 0
       \/ /\ page.trx_id_store % Margin = 0
          /\ mem.max_trx_id < page.trx_id_store + Margin

IdInv ==
    /\ TypeOK
    /\ PageInv(page) /\ PageInv(disk)
    /\ Opened /\ ~mem.read_only => CounterInv
    /\ ~Opened => mem.rw_trx_list = {}
    /\ IdsFresh
    /\ trx_sys_validate_trx_list
    /\ UndoHasTrx

\* PageInv depends on three fields.
LEMMA PageInvSame ==
    ASSUME NEW pg, NEW pg2, PageInv(pg),
           pg2.trx_id_store = pg.trx_id_store, pg2.ids = pg.ids,
           pg2.undo = pg.undo
    PROVE  PageInv(pg2)
BY DEF PageInv

\* Steps that leave ids, undo logs and transactions alone.
LEMMA SameIds ==
    ASSUME IdInv, TypeOK',
           page'.trx_id_store = page.trx_id_store, page'.ids = page.ids,
           page'.undo = page.undo, disk' \in {disk, page},
           mem'.max_trx_id = mem.max_trx_id,
           mem'.rw_trx_list = mem.rw_trx_list,
           mem'.read_only = mem.read_only, Opened' <=> Opened
    PROVE  IdInv'
<1>1. PageInv(page') /\ PageInv(disk')
  BY PageInvSame DEF IdInv
<1>2. Opened' /\ ~mem'.read_only => CounterInv'
  BY DEF IdInv, CounterInv
<1>3. IdsFresh' /\ trx_sys_validate_trx_list' /\ UndoHasTrx'
  BY DEF IdInv, IdsFresh, trx_sys_validate_trx_list, UndoHasTrx
<1> QED
  BY <1>1, <1>2, <1>3 DEF IdInv

\* A start from a page with PageInv.
LEMMA StartsAbove ==
    ASSUME NEW pg \in Page, PageInv(pg), TypeOK',
           page' = pg, PageInv(disk'),
           mem'.max_trx_id = start_max_trx_id(pg.trx_id_store),
           mem'.rw_trx_list = recovered(pg), Opened'
    PROVE  IdInv'
<1>1. pg.trx_id_store \in Nat
  BY DEF Page
<1>2. CounterInv'
  BY <1>1, StartAbove DEF CounterInv
<1>3. IdsFresh'
  BY DEF IdsFresh, PageInv
<1>4. trx_sys_validate_trx_list'
  <2> SUFFICES ASSUME NEW trx \in mem'.rw_trx_list, NEW prev \in mem'.rw_trx_list
               PROVE  /\ trx.id < mem'.max_trx_id
                      /\ prev.id = trx.id => prev = trx
    BY DEF trx_sys_validate_trx_list
  <2>1. PICK u \in pg.undo :
          trx = [id |-> u.id, state |-> u.state, mysql |-> FALSE]
    BY DEF recovered
  <2>2. PICK v \in pg.undo :
          prev = [id |-> v.id, state |-> v.state, mysql |-> FALSE]
    BY DEF recovered
  <2> QED
    BY <2>1, <2>2 DEF PageInv
<1>5. UndoHasTrx'
  <2> SUFFICES ASSUME NEW u \in pg.undo
               PROVE  \E trx \in mem'.rw_trx_list :
                        trx.id = u.id /\ trx.state = u.state
    BY DEF UndoHasTrx
  <2> DEFINE trx == [id |-> u.id, state |-> u.state, mysql |-> FALSE]
  <2>1. trx \in mem'.rw_trx_list
    BY DEF recovered
  <2>2. trx.id = u.id /\ trx.state = u.state
    OBVIOUS
  <2> QED
    BY <2>1, <2>2
<1> QED
  BY <1>2, <1>3, <1>4, <1>5 DEF IdInv

LEMMA IdInit == Init => IdInv
<1> SUFFICES ASSUME Init PROVE IdInv
  OBVIOUS
<1>1. PageInv(EmptyPage)
  BY DEF PageInv, EmptyPage
<1>2. ~Opened /\ mem.rw_trx_list = {}
  BY DEF Init, Opened, FreshMemory
<1> QED
  BY <1>1, <1>2, TypeInit
     DEF Init, IdInv, IdsFresh, trx_sys_validate_trx_list, UndoHasTrx

\* A server that is down.
LEMMA Down ==
    ASSUME TypeOK', PageInv(page'), PageInv(disk'), ~Opened',
           mem'.rw_trx_list = {}
    PROVE  IdInv'
BY DEF IdInv, IdsFresh, trx_sys_validate_trx_list, UndoHasTrx

\* A new id: the counter is stored at every multiple of the margin.
LEMMA StartTrxStep ==
    ASSUME IdInv, TypeOK', StartTrx PROVE IdInv'
<1> DEFINE max == mem.max_trx_id
           trx == [id |-> max, state |-> "active", mysql |-> TRUE]
<1>t. /\ max \in Nat /\ page \in Page /\ page.trx_id_store \in Nat
      /\ mem \in Memory /\ page.ids \in SUBSET Nat
      /\ \A x \in mem.rw_trx_list : x.id \in Nat
  BY DEF IdInv, TypeOK, Page, Memory, Trx
<1>o. Opened /\ Opened' /\ disk' = disk
  BY DEF StartTrx, Call, Opened
<1>m. /\ mem'.max_trx_id = max + 1
      /\ mem'.read_only = mem.read_only
      /\ mem'.rw_trx_list = IF mem.read_only THEN mem.rw_trx_list
                            ELSE mem.rw_trx_list \cup {trx}
  BY <1>t DEF StartTrx, Memory
<1>p. /\ page'.ids = page.ids /\ page'.undo = page.undo
      /\ page'.trx_id_store = IF max % Margin = 0 /\ ~mem.read_only
                              THEN max ELSE page.trx_id_store
  BY <1>t DEF StartTrx, trx_sys_flush_max_trx_id, Page
<1>f. \A id \in page.ids : id < max
  BY <1>o DEF IdInv, IdsFresh
<1>l. \A x \in mem.rw_trx_list :
        x.id < max /\ \A y \in mem.rw_trx_list : y.id = x.id => y = x
  BY DEF IdInv, trx_sys_validate_trx_list
<1>1. PageInv(page')
  <2>1. CASE max % Margin = 0 /\ ~mem.read_only
    <3>1. start_max_trx_id(max) >= max + 2 * Margin
          /\ start_max_trx_id(max) \in Nat
      BY <1>t, StartAbove
    <3>2. \A id \in page.ids : id < start_max_trx_id(max)
      BY <3>1, <1>t, <1>f, MarginNat
    <3> QED
      BY <2>1, <3>2, <1>p DEF IdInv, PageInv
  <2>2. CASE ~(max % Margin = 0 /\ ~mem.read_only)
    BY <2>2, <1>p, PageInvSame DEF IdInv
  <2> QED
    BY <2>1, <2>2
<1>2. ASSUME ~mem.read_only PROVE CounterInv'
  <2>0. CounterInv
    BY <1>o, <1>2 DEF IdInv
  <2>1. CASE max % Margin = 0
    <3>1. start_max_trx_id(max) >= max + 2 * Margin
          /\ start_max_trx_id(max) \in Nat
      BY <1>t, StartAbove
    <3>2. (max + Margin) % Margin = 0
      BY <1>t, <2>1, NextMultiple
    <3>3. max + 1 <= start_max_trx_id(max)
      BY <3>1, <1>t, MarginNat
    <3>4. (max + 1) % Margin = 0 \/ max + 1 < max + Margin
      <4>1. CASE Margin = 1
        BY <4>1, <3>2
      <4>2. CASE Margin # 1
        BY <4>2, <1>t, MarginNat
      <4> QED
        BY <4>1, <4>2
    <3> QED
      BY <2>1, <3>3, <3>4, <1>2, <1>m, <1>p DEF CounterInv
  <2>2. CASE max % Margin # 0
    <3>1. page.trx_id_store % Margin = 0 /\ max < page.trx_id_store + Margin
      BY <2>0, <2>2 DEF CounterInv
    <3>2. start_max_trx_id(page.trx_id_store) >= page.trx_id_store + 2 * Margin
          /\ start_max_trx_id(page.trx_id_store) \in Nat
      BY <1>t, StartAbove
    <3>3. (page.trx_id_store + Margin) % Margin = 0
      BY <1>t, <3>1, NextMultiple
    <3>4. max + 1 <= start_max_trx_id(page.trx_id_store)
      BY <3>1, <3>2, <1>t, MarginNat
    <3>5. max + 1 = page.trx_id_store + Margin
          \/ max + 1 < page.trx_id_store + Margin
      BY <3>1, <1>t, MarginNat
    <3> QED
      BY <2>2, <3>1, <3>3, <3>4, <3>5, <1>m, <1>p DEF CounterInv
  <2> QED
    BY <2>1, <2>2
<1>3. IdsFresh'
  BY <1>f, <1>m, <1>p, <1>t DEF IdsFresh
<1>4. trx_sys_validate_trx_list'
  <2> SUFFICES ASSUME NEW x \in mem'.rw_trx_list, NEW y \in mem'.rw_trx_list
               PROVE  x.id < max + 1 /\ (y.id = x.id => y = x)
    BY <1>m DEF trx_sys_validate_trx_list
  <2>1. x \in mem.rw_trx_list \/ x = trx
    BY <1>m
  <2>2. y \in mem.rw_trx_list \/ y = trx
    BY <1>m
  <2>3. trx.id = max
    OBVIOUS
  <2> HIDE DEF trx
  <2> QED
    BY <2>1, <2>2, <2>3, <1>l, <1>t
<1>5. UndoHasTrx'
  BY <1>m, <1>p, <1>o DEF IdInv, UndoHasTrx
<1> QED
  BY <1>1, <1>2, <1>3, <1>4, <1>5, <1>o, <1>m DEF IdInv

\* What the end of a transaction leaves on the page.
LEMMA EndPage ==
    ASSUME page \in Page, NEW trx, End(trx)
    PROVE  /\ page'.trx_id_store = page.trx_id_store
           /\ page'.ids = page.ids
           /\ page'.undo = {u \in page.undo : u.id # trx.id}
<1> DEFINE rest == [page EXCEPT !.undo = {u \in @ : u.id # trx.id}]
<1>1. /\ rest \in Page /\ rest.ids = page.ids
      /\ rest.undo = {u \in page.undo : u.id # trx.id}
      /\ rest.trx_id_store = page.trx_id_store
  BY DEF Page
<1>2. \/ page' = rest
      \/ \E f \in Fields, name \in Names, offset \in Offsets :
           page' = trx_sys_update_mysql_binlog_offset(rest, f, name, offset)
  BY DEF End
<1> HIDE DEF rest
<1>3. ASSUME NEW f \in Fields, NEW name \in Names, NEW offset \in Offsets,
             page' = trx_sys_update_mysql_binlog_offset(rest, f, name, offset)
      PROVE  /\ page'.trx_id_store = rest.trx_id_store
             /\ page'.ids = rest.ids
             /\ page'.undo = rest.undo
  BY <1>1, <1>3, UpdateOffsetType
<1> QED
  BY <1>1, <1>2, <1>3

\* Steps of one transaction: page and list change at its id only.
LEMMA TrxStep ==
    ASSUME IdInv, TypeOK', NEW trx \in mem.rw_trx_list,
           Modify(trx) \/ Prepare(trx) \/ Disconnect(trx) \/ End(trx)
    PROVE  IdInv'
<1>t. /\ mem \in Memory /\ page \in Page /\ trx \in Trx
      /\ mem.max_trx_id \in Nat /\ page.trx_id_store \in Nat
      /\ trx.id \in Nat
  BY DEF IdInv, TypeOK, Page, Memory, Trx
<1>o. Opened /\ Opened' /\ disk' = disk
  BY DEF Modify, Prepare, Disconnect, End, Write, Call, Opened
<1>m. /\ mem'.max_trx_id = mem.max_trx_id
      /\ mem'.read_only = mem.read_only
      /\ page'.trx_id_store = page.trx_id_store
  <2>2. CASE End(trx)
    <3>1. mem' = [mem EXCEPT !.rw_trx_list = @ \ {trx}]
      BY <2>2 DEF End
    <3> QED
      BY <2>2, <3>1, <1>t, EndPage DEF Memory
  <2>3. CASE ~End(trx)
    BY <2>3, <1>t DEF Modify, Prepare, Disconnect, Page, Memory
  <2> QED
    BY <2>2, <2>3
<1>l. \A x \in mem.rw_trx_list :
        /\ x.id < mem.max_trx_id
        /\ \A y \in mem.rw_trx_list : y.id = x.id => y = x
  BY DEF IdInv, trx_sys_validate_trx_list
<1>f. \A id \in page.ids : id < mem.max_trx_id
  BY <1>o DEF IdInv, IdsFresh
<1>u. \A u \in page.undo :
        \E x \in mem.rw_trx_list : x.id = u.id /\ x.state = u.state
  BY <1>o DEF IdInv, UndoHasTrx
<1>c. ~mem.read_only => CounterInv'
  BY <1>o, <1>m DEF IdInv, CounterInv
<1>s. PageInv(page)
  BY DEF IdInv
<1>1. CASE Modify(trx)
  <2>1. /\ page'.ids = page.ids \cup {trx.id}
        /\ page'.undo = SetUndo(page.undo, trx, "active")
        /\ mem' = mem /\ ~mem.read_only
    BY <1>1, <1>t DEF Modify, Write, Page
  <2>2. trx.state = "active" /\ trx.id < mem.max_trx_id
    BY <1>1, <1>l DEF Modify
  <2>3. trx.id < start_max_trx_id(page.trx_id_store)
    <3>1. mem.max_trx_id <= start_max_trx_id(page.trx_id_store)
      BY <1>o, <2>1 DEF IdInv, CounterInv
    <3>2. start_max_trx_id(page.trx_id_store) \in Nat
      BY <1>t, StartAbove
    <3> QED
      BY <3>1, <3>2, <2>2, <1>t
  <2>4. PageInv(page')
    BY <1>s, <1>m, <2>1, <2>3 DEF PageInv, SetUndo
  <2>5. IdsFresh' /\ trx_sys_validate_trx_list'
    BY <1>f, <1>l, <2>1, <2>2 DEF IdsFresh, trx_sys_validate_trx_list
  <2>6. UndoHasTrx'
    BY <1>u, <2>1, <2>2 DEF UndoHasTrx, SetUndo
  <2> QED
    BY <2>4, <2>5, <2>6, <1>o, <1>c, <1>m DEF IdInv
<1>2. CASE Prepare(trx)
  <2> DEFINE new == [trx EXCEPT !.state = "prepared"]
  <2>1. /\ page'.ids = page.ids
        /\ page'.undo = SetUndo(page.undo, trx, "prepared")
        /\ mem'.rw_trx_list = (mem.rw_trx_list \ {trx}) \cup {new}
        /\ trx.id \in page.ids
    BY <1>2, <1>t DEF Prepare, Page, Memory
  <2>2. new.id = trx.id /\ new.state = "prepared"
    BY <1>t DEF Trx
  <2>3. PageInv(page')
    BY <1>s, <1>m, <2>1 DEF PageInv, SetUndo
  <2> HIDE DEF new
  <2>4. IdsFresh' /\ trx_sys_validate_trx_list'
    BY <1>f, <1>l, <1>m, <2>1, <2>2 DEF IdsFresh, trx_sys_validate_trx_list
  <2>5. UndoHasTrx'
    BY <1>u, <2>1, <2>2 DEF UndoHasTrx, SetUndo
  <2> QED
    BY <2>3, <2>4, <2>5, <1>o, <1>c, <1>m DEF IdInv
<1>3. CASE Disconnect(trx)
  <2> DEFINE new == [trx EXCEPT !.mysql = FALSE]
  <2>1. /\ page' = page
        /\ mem'.rw_trx_list = (mem.rw_trx_list \ {trx}) \cup {new}
    BY <1>3, <1>t DEF Disconnect, Memory
  <2>2. new.id = trx.id /\ new.state = trx.state
    BY <1>t DEF Trx
  <2> HIDE DEF new
  <2>3. IdsFresh' /\ trx_sys_validate_trx_list'
    BY <1>f, <1>l, <1>m, <2>1, <2>2 DEF IdsFresh, trx_sys_validate_trx_list
  <2>4. UndoHasTrx'
    BY <1>u, <2>1, <2>2 DEF UndoHasTrx
  <2> QED
    BY <2>1, <2>3, <2>4, <1>o, <1>c, <1>m, <1>s DEF IdInv
<1>4. CASE End(trx)
  <2>1. mem' = [mem EXCEPT !.rw_trx_list = @ \ {trx}]
    BY <1>4 DEF End
  <2>2. /\ page'.ids = page.ids
        /\ page'.undo = {u \in page.undo : u.id # trx.id}
        /\ mem'.rw_trx_list = mem.rw_trx_list \ {trx}
    BY <2>1, <1>4, <1>t, EndPage DEF Memory
  <2>3. PageInv(page')
    BY <1>s, <1>m, <2>2 DEF PageInv
  <2>4. IdsFresh' /\ trx_sys_validate_trx_list'
    BY <1>f, <1>l, <1>m, <2>2 DEF IdsFresh, trx_sys_validate_trx_list
  <2>5. UndoHasTrx'
    BY <1>u, <2>2 DEF UndoHasTrx
  <2> QED
    BY <2>3, <2>4, <2>5, <1>o, <1>c, <1>m DEF IdInv
<1> QED
  BY <1>1, <1>2, <1>3, <1>4

\* Each step keeps the invariant.
LEMMA IdNext == IdInv /\ [Next]_vars => IdInv'
<1> SUFFICES ASSUME IdInv, [Next]_vars PROVE IdInv'
  OBVIOUS
<1>t. /\ TypeOK' /\ page \in Page /\ disk \in Page /\ mem \in Memory
      /\ PageInv(page) /\ PageInv(disk)
  BY TypeNext DEF IdInv, TypeOK
<1>1. ASSUME NEW limit \in FormatMaxs, CreateDatabase(limit) PROVE IdInv'
  <2>1. PageInv(trx_sysf_create)
    BY CreateType DEF PageInv
  <2>2. recovered(trx_sysf_create) = {}
    BY CreateType DEF recovered
  <2>3. /\ mem'.max_trx_id = start_max_trx_id(trx_sysf_create.trx_id_store)
        /\ mem'.rw_trx_list = {}
        /\ page' = trx_sysf_create /\ disk' = disk /\ Opened'
    BY <1>1 DEF CreateDatabase, FreshMemory, Opened
  <2> QED
    BY <1>t, <2>1, <2>2, <2>3, CreateType, StartsAbove
<1>2. ASSUME NEW limit \in FormatMaxs, NEW check \in BOOLEAN,
             NEW read_only \in BOOLEAN, Open(limit, check, read_only)
      PROVE  IdInv'
  <2>1. /\ mem'.rw_trx_list = {} /\ page' = page /\ disk' = disk /\ ~Opened'
    BY <1>2 DEF Open, FreshMemory, Opened
  <2> QED
    BY <1>t, <2>1, Down
<1>3. CASE trx_sys_init_at_db_start
  <2>1. /\ mem'.max_trx_id = start_max_trx_id(page.trx_id_store)
        /\ mem'.rw_trx_list = recovered(page)
        /\ page' = page /\ disk' = disk /\ Opened'
    BY <1>3, <1>t DEF trx_sys_init_at_db_start, Opened, Memory
  <2> QED
    BY <1>t, <2>1, StartsAbove
<1>w. ASSUME NEW format_id, MaxWrite(format_id)
      PROVE  /\ page'.trx_id_store = page.trx_id_store
             /\ page'.ids = page.ids /\ page'.undo = page.undo
             /\ mem'.max_trx_id = mem.max_trx_id
             /\ mem'.rw_trx_list = mem.rw_trx_list
             /\ mem'.read_only = mem.read_only
  BY <1>w, <1>t DEF MaxWrite, Page, Memory
<1>4. CASE trx_sys_file_format_tag_init
  <2>1. disk' = disk /\ Opened' /\ Opened
    BY <1>4 DEF trx_sys_file_format_tag_init, Opened
  <2> QED
    BY <1>4, <1>t, <1>w, <2>1, SameIds
       DEF trx_sys_file_format_tag_init, trx_sys_file_format_max_set
<1>5. CASE trx_sys_create_rsegs
  <2>1. disk' = disk /\ page' = page /\ Opened' /\ Opened
    BY <1>5 DEF trx_sys_create_rsegs, Opened
  <2>2. /\ mem'.max_trx_id = mem.max_trx_id
        /\ mem'.rw_trx_list = mem.rw_trx_list
        /\ mem'.read_only = mem.read_only
    BY <1>5, <1>t DEF trx_sys_create_rsegs, Memory
  <2> QED
    BY <1>t, <2>1, <2>2, SameIds
<1>6. CASE create_rsegs_loop
  <2>1. disk' = disk /\ Opened' /\ Opened
    BY <1>6 DEF create_rsegs_loop, Opened
  <2>2. /\ page'.trx_id_store = page.trx_id_store
        /\ page'.ids = page.ids /\ page'.undo = page.undo
        /\ mem'.max_trx_id = mem.max_trx_id
        /\ mem'.rw_trx_list = mem.rw_trx_list
        /\ mem'.read_only = mem.read_only
    BY <1>6, <1>t, RsegCreateType DEF create_rsegs_loop, Memory
  <2> QED
    BY <1>t, <2>1, <2>2, SameIds
<1>7. CASE StartTrx
  BY <1>7, <1>t, StartTrxStep
<1>8. ASSUME NEW trx \in mem.rw_trx_list,
             Modify(trx) \/ Prepare(trx) \/ Disconnect(trx) \/ End(trx)
      PROVE  IdInv'
  BY <1>8, <1>t, TrxStep
<1>9. ASSUME NEW format_id \in FormatMaxs,
             OpenTable(format_id) \/ SetFormatMax(format_id)
      PROVE  IdInv'
  <2>1. disk' = disk /\ Opened' /\ Opened
    BY <1>9 DEF OpenTable, SetFormatMax, Write, Call, Opened
  <2>2. MaxWrite(format_id) \/ UNCHANGED <<mem, page>>
    BY <1>9 DEF OpenTable, SetFormatMax, trx_sys_file_format_max_upgrade,
                trx_sys_file_format_max_set
  <2> QED
    BY <1>t, <1>w, <2>1, <2>2, SameIds
<1>10. CASE trx_sys_close \/ Crash
  <2>1. /\ mem'.rw_trx_list = {} /\ ~Opened'
        /\ page' \in {page, disk} /\ disk' \in {page, disk}
    BY <1>10 DEF trx_sys_close, Crash, FreshMemory, Opened
  <2> QED
    BY <1>t, <2>1, Down
<1>11. CASE LogFlush \/ PageFlush
  <2>1. disk' \in {disk, page} /\ UNCHANGED <<page, mem, phase>>
    BY <1>11 DEF LogFlush, PageFlush
  <2> QED
    BY <1>t, <2>1, SameIds DEF Opened
<1>12. CASE UNCHANGED vars
  BY <1>12, <1>t, SameIds DEF vars, Opened
<1> QED
  BY <1>1, <1>2, <1>3, <1>4, <1>5, <1>6, <1>7, <1>8, <1>9, <1>10, <1>11, <1>12
     DEF Next, Start, Clients, Stop

LEMMA IdInvariant == Spec => []IdInv
BY IdInit, IdNext, PTL DEF Spec

\* Transaction ids do not overlap when the database is repeatedly started
\* (trx_sys_init_at_db_start), for every margin.
THEOREM IdsNeverReused == Spec => []IdsFresh
<1>1. IdInv => IdsFresh
  BY DEF IdInv
<1> QED
  BY <1>1, IdInvariant, PTL

\* The assertion of trx_sys_validate_trx_list_low holds.
THEOREM ListValid == Spec => []trx_sys_validate_trx_list
<1>1. IdInv => trx_sys_validate_trx_list
  BY DEF IdInv
<1> QED
  BY <1>1, IdInvariant, PTL

\* No undo log is without its transaction while the server runs.
THEOREM NoOrphanUndo == Spec => []UndoHasTrx
<1>1. IdInv => UndoHasTrx
  BY DEF IdInv
<1> QED
  BY <1>1, IdInvariant, PTL


-----------------------------------------------------------------------------
(* The other fields: the inductive invariants *)

\* The words on the page are those of the position that was stored last.
BinlogExact(pg) == print_log_pos(pg) = pg.logged

BinlogInv ==
    /\ TypeOK
    /\ BinlogExact(page) /\ BinlogExact(disk)
    /\ BinlogPosRecovered

UsedSlots(pg) == {s \in Slots : pg.rsegs[s]}

\* No gap below a slot in use; a database that exists has the first one.
SlotsInv(pg) ==
    /\ \A s \in UsedSlots(pg) : 0 .. s \subseteq UsedSlots(pg)
    /\ pg.trx_id_store # 0 => 0 \in UsedSlots(pg)

\* A server that is down sees what is on disk.
DownIsDisk == phase = "down" => page = disk

RsegInv ==
    /\ TypeOK
    /\ DownIsDisk
    /\ SlotsInv(page) /\ SlotsInv(disk)
    /\ phase # "down" => 0 \in UsedSlots(page)
    /\ phase = "rsegs" => ~mem.read_only
    /\ RsegsContiguous

\* A tag is missing or holds a format that has a name.
TagOK(tag) == tag = 0 \/ tag - TAG_MAGIC_N \in 0 .. FILE_FORMAT_NAME_N - 1

\* The files of a clean database carry the tag of the page, so that a server
\* with the check that opens them starts with the right file_format_max.
FormatInv ==
    /\ TypeOK
    /\ DownIsDisk
    /\ TagOK(page.tag) /\ TagOK(disk.tag)
    /\ clean => (phase = "down" \/ mem.read_only) /\ file_tag = disk.tag
    /\ phase # "down" => mem.univ_format_max \in FormatMaxs
    /\ phase # "running" => open_format = UNIV_FORMAT_MIN
    /\ FormatGate
    /\ TagCoversOpenTables

-----------------------------------------------------------------------------
(* Steps of the server, by what they leave of the page *)

\* Steps of transactions change neither slots nor tag, and the binlog fields
\* only by trx_sys_update_mysql_binlog_offset.
LEMMA ClientPage ==
    ASSUME TypeOK,
           \/ StartTrx
           \/ \E trx \in mem.rw_trx_list :
                Modify(trx) \/ Prepare(trx) \/ Disconnect(trx) \/ End(trx)
    PROVE  /\ page'.rsegs = page.rsegs /\ page'.tag = page.tag
           /\ \/ page'.binlog = page.binlog /\ page'.logged = page.logged
              \/ \E pg \in Page, f \in Fields, name \in Names, offset \in Offsets :
                   /\ pg.binlog = page.binlog /\ pg.logged = page.logged
                   /\ page' = trx_sys_update_mysql_binlog_offset(pg, f, name, offset)
           /\ UNCHANGED <<disk, file_tag, clean, phase, open_format>>
           /\ mem'.read_only = mem.read_only /\ mem'.check = mem.check
           /\ mem'.recv_needed_recovery = mem.recv_needed_recovery
           /\ mem'.univ_format_max = mem.univ_format_max
           /\ mem'.file_format_max = mem.file_format_max
           /\ mem'.n_used = mem.n_used
           /\ phase = "running"
<1>t. page \in Page /\ mem \in Memory
  BY DEF TypeOK
<1>1. CASE StartTrx
  BY <1>1, <1>t DEF StartTrx, Call, trx_sys_flush_max_trx_id, Page, Memory
<1>2. ASSUME NEW trx \in mem.rw_trx_list,
             Modify(trx) \/ Prepare(trx) \/ Disconnect(trx)
      PROVE  /\ page'.rsegs = page.rsegs /\ page'.tag = page.tag
             /\ page'.binlog = page.binlog /\ page'.logged = page.logged
             /\ UNCHANGED <<disk, file_tag, clean, phase, open_format>>
             /\ mem'.read_only = mem.read_only /\ mem'.check = mem.check
             /\ mem'.recv_needed_recovery = mem.recv_needed_recovery
             /\ mem'.univ_format_max = mem.univ_format_max
             /\ mem'.file_format_max = mem.file_format_max
             /\ mem'.n_used = mem.n_used
             /\ phase = "running"
  BY <1>2, <1>t DEF Modify, Prepare, Disconnect, Write, Call, Page, Memory
<1>3. ASSUME NEW trx \in mem.rw_trx_list, End(trx)
      PROVE  /\ page'.rsegs = page.rsegs /\ page'.tag = page.tag
             /\ \/ page'.binlog = page.binlog /\ page'.logged = page.logged
                \/ \E pg \in Page, f \in Fields, name \in Names, offset \in Offsets :
                     /\ pg.binlog = page.binlog /\ pg.logged = page.logged
                     /\ page' = trx_sys_update_mysql_binlog_offset(pg, f, name, offset)
             /\ UNCHANGED <<disk, file_tag, clean, phase, open_format>>
             /\ mem'.read_only = mem.read_only /\ mem'.check = mem.check
             /\ mem'.recv_needed_recovery = mem.recv_needed_recovery
             /\ mem'.univ_format_max = mem.univ_format_max
             /\ mem'.file_format_max = mem.file_format_max
             /\ mem'.n_used = mem.n_used
             /\ phase = "running"
  <2> DEFINE rest == [page EXCEPT !.undo = {u \in @ : u.id # trx.id}]
  <2>1. /\ rest \in Page /\ rest.rsegs = page.rsegs /\ rest.tag = page.tag
        /\ rest.binlog = page.binlog /\ rest.logged = page.logged
    BY <1>t DEF Page
  <2>2. /\ mem' = [mem EXCEPT !.rw_trx_list = @ \ {trx}]
        /\ UNCHANGED <<disk, file_tag, clean, phase, open_format>>
        /\ phase = "running"
    BY <1>3 DEF End, Write, Call
  <2>3. /\ mem'.read_only = mem.read_only /\ mem'.check = mem.check
        /\ mem'.recv_needed_recovery = mem.recv_needed_recovery
        /\ mem'.univ_format_max = mem.univ_format_max
        /\ mem'.file_format_max = mem.file_format_max
        /\ mem'.n_used = mem.n_used
    BY <2>2, <1>t DEF Memory
  <2>4. \/ page' = rest
        \/ \E f \in Fields, name \in Names, offset \in Offsets :
             page' = trx_sys_update_mysql_binlog_offset(rest, f, name, offset)
    BY <1>3 DEF End
  <2> HIDE DEF rest
  <2>5. CASE page' = rest
    BY <2>1, <2>2, <2>3, <2>5
  <2>6. ASSUME NEW f \in Fields, NEW name \in Names, NEW offset \in Offsets,
               page' = trx_sys_update_mysql_binlog_offset(rest, f, name, offset)
        PROVE  page'.rsegs = rest.rsegs /\ page'.tag = rest.tag
    BY <2>1, <2>6 DEF trx_sys_update_mysql_binlog_offset, Page
  <2> QED
    BY <2>1, <2>2, <2>3, <2>4, <2>5, <2>6
<1> QED
  BY <1>1, <1>2, <1>3

\* trx_sys_file_format_max_write changes the tag and its copy in memory.
LEMMA MaxWriteEffect ==
    ASSUME TypeOK, NEW format_id, MaxWrite(format_id)
    PROVE  /\ page'.tag = format_id + TAG_MAGIC_N
           /\ page'.rsegs = page.rsegs /\ page'.trx_id_store = page.trx_id_store
           /\ page'.binlog = page.binlog /\ page'.logged = page.logged
           /\ mem'.file_format_max = format_id
           /\ mem'.read_only = mem.read_only /\ mem'.check = mem.check
           /\ mem'.recv_needed_recovery = mem.recv_needed_recovery
           /\ mem'.univ_format_max = mem.univ_format_max
           /\ mem'.n_used = mem.n_used /\ mem'.log_pos = mem.log_pos
BY DEF MaxWrite, TypeOK, Page, Memory

-----------------------------------------------------------------------------
(* Binlog positions *)

\* BinlogExact depends on two fields.
LEMMA BinlogSame ==
    ASSUME NEW pg, NEW pg2, BinlogExact(pg),
           pg2.binlog = pg.binlog, pg2.logged = pg.logged
    PROVE  BinlogExact(pg2)
BY DEF BinlogExact, print_log_pos

\* The two words of an offset make up the offset.
LEMMA WordsMakeOffset ==
    ASSUME NEW offset \in Offsets
    PROVE  (offset \div WordSize) * WordSize + (offset % WordSize) = offset
BY TrxSysAssumption

\* What trx_sys_update_mysql_binlog_offset stores is what the print functions
\* read, also when the high word is not written.
LEMMA BinlogUpdate ==
    ASSUME NEW pg \in Page, BinlogExact(pg), NEW f \in Fields,
           NEW name \in Names, NEW offset \in Offsets
    PROVE  BinlogExact(trx_sys_update_mysql_binlog_offset(pg, f, name, offset))
<1> DEFINE new == trx_sys_update_mysql_binlog_offset(pg, f, name, offset)
           high == IF WritesHigh(pg.binlog[f], offset)
                   THEN offset \div WordSize ELSE pg.binlog[f].high
           info == [magic |-> TRUE, name |-> name, high |-> high,
                    low |-> offset % WordSize]
           pos == [name |-> name, pos |-> offset]
<1>1. CASE name \in LongNames
  BY <1>1 DEF trx_sys_update_mysql_binlog_offset
<1>2. CASE name \notin LongNames
  <2>1. high = offset \div WordSize
    BY Words DEF WritesHigh, Page, LogInfo
  <2>2. new = [pg EXCEPT !.binlog[f] = info, !.logged[f] = pos]
    BY <1>2 DEF trx_sys_update_mysql_binlog_offset
  <2>3. /\ info.magic /\ info.name = name /\ info.high = high
        /\ info.low = offset % WordSize
    OBVIOUS
  <2> HIDE DEF info, high, new
  <2>4. /\ new.binlog = [pg.binlog EXCEPT ![f] = info]
        /\ new.logged = [pg.logged EXCEPT ![f] = pos]
    BY <2>2 DEF Page
  <2>5. new.binlog \in [Fields -> {info} \cup LogInfo]
        /\ pg.binlog \in [Fields -> LogInfo] /\ pg.logged \in [Fields -> LogPos]
    BY <2>4 DEF Page
  <2>6. ASSUME NEW g \in Fields
        PROVE  print_log_pos(new)[g] = new.logged[g]
    <3>1. CASE g = f
      <4>1. new.binlog[g] = info /\ new.logged[g] = pos
        BY <3>1, <2>4, <2>5
      <4>2. print_log_pos(new)[g] =
              [name |-> name, pos |-> high * WordSize + (offset % WordSize)]
        BY <4>1, <2>3 DEF print_log_pos
      <4>3. high * WordSize + (offset % WordSize) = offset
        BY <2>1, WordsMakeOffset
      <4> QED
        BY <4>1, <4>2, <4>3
    <3>2. CASE g # f
      <4>1. new.binlog[g] = pg.binlog[g] /\ new.logged[g] = pg.logged[g]
        BY <3>2, <2>4, <2>5
      <4>2. print_log_pos(new)[g] = print_log_pos(pg)[g]
        BY <4>1 DEF print_log_pos
      <4> QED
        BY <4>1, <4>2 DEF BinlogExact
    <3> QED
      BY <3>1, <3>2
  <2>7. new.logged \in [Fields -> LogPos \cup {pos}]
    BY <2>4, <2>5
  <2> QED
    BY <2>6, <2>7 DEF BinlogExact, print_log_pos, new
<1> QED
  BY <1>1, <1>2

LEMMA BinlogInit == Init => BinlogInv
<1> SUFFICES ASSUME Init PROVE BinlogInv
  OBVIOUS
<1>1. BinlogExact(EmptyPage)
  BY DEF BinlogExact, print_log_pos, EmptyPage, EmptyLogInfo
<1> QED
  BY <1>1, TypeInit DEF Init, BinlogInv, BinlogPosRecovered

\* Each step keeps the positions exact on the page and on disk.
LEMMA BinlogNext == BinlogInv /\ [Next]_vars => BinlogInv'
<1> SUFFICES ASSUME BinlogInv, [Next]_vars PROVE BinlogInv'
  OBVIOUS
<1>t. /\ TypeOK /\ TypeOK' /\ page \in Page /\ disk \in Page /\ mem \in Memory
      /\ BinlogExact(page) /\ BinlogExact(disk)
  BY TypeNext DEF BinlogInv, TypeOK
\* Until the server runs, positions in memory and on the page stay.
<1>s. ASSUME page'.binlog = page.binlog, page'.logged = page.logged,
             disk' \in {disk, page}, mem'.log_pos = mem.log_pos,
             mem'.recv_needed_recovery = mem.recv_needed_recovery,
             \/ phase' \in {"running", "down", "checked"}
             \/ phase \in {"opened", "tagged", "rsegs"}
      PROVE  BinlogInv'
  BY <1>s, <1>t, BinlogSame DEF BinlogInv, BinlogPosRecovered
<1>1. ASSUME NEW limit \in FormatMaxs, CreateDatabase(limit) PROVE BinlogInv'
  <2>1. trx_sysf_create.binlog = EmptyPage.binlog
        /\ trx_sysf_create.logged = EmptyPage.logged
    BY DEF trx_sysf_create, RsegCreate, EmptyPage
  <2>2. BinlogExact(EmptyPage)
    BY DEF BinlogExact, print_log_pos, EmptyPage, EmptyLogInfo
  <2>3. page' = trx_sysf_create /\ disk' = disk
        /\ mem'.recv_needed_recovery = FALSE
    BY <1>1 DEF CreateDatabase, FreshMemory
  <2> QED
    BY <1>t, <2>1, <2>2, <2>3, BinlogSame DEF BinlogInv, BinlogPosRecovered
<1>2. ASSUME NEW limit \in FormatMaxs, NEW check \in BOOLEAN,
             NEW read_only \in BOOLEAN, Open(limit, check, read_only)
      PROVE  BinlogInv'
  BY <1>2, <1>t DEF Open, BinlogInv, BinlogPosRecovered
<1>3. CASE trx_sys_init_at_db_start
  <2>1. /\ page' = page /\ disk' = disk
        /\ mem'.recv_needed_recovery => mem'.log_pos = print_log_pos(page)
    BY <1>3, <1>t DEF trx_sys_init_at_db_start, Memory
  <2> QED
    BY <1>t, <2>1 DEF BinlogInv, BinlogPosRecovered, BinlogExact
<1>4. CASE trx_sys_file_format_tag_init
  BY <1>4, <1>t, <1>s, MaxWriteEffect
     DEF trx_sys_file_format_tag_init, trx_sys_file_format_max_set
<1>5. CASE trx_sys_create_rsegs
  BY <1>5, <1>t, <1>s DEF trx_sys_create_rsegs, Memory
<1>6. CASE create_rsegs_loop
  BY <1>6, <1>t, <1>s DEF create_rsegs_loop, RsegCreate, Page, Memory
<1>7. CASE \/ StartTrx
           \/ \E trx \in mem.rw_trx_list :
                Modify(trx) \/ Prepare(trx) \/ Disconnect(trx) \/ End(trx)
  <2>1. BinlogExact(page')
    BY <1>7, <1>t, ClientPage, BinlogSame, BinlogUpdate
  <2> QED
    BY <1>7, <1>t, <2>1, ClientPage DEF BinlogInv, BinlogPosRecovered
<1>8. ASSUME NEW format_id \in FormatMaxs,
             OpenTable(format_id) \/ SetFormatMax(format_id)
      PROVE  BinlogInv'
  <2>1. /\ MaxWrite(format_id) \/ UNCHANGED <<mem, page>>
        /\ disk' = disk /\ phase' = "running"
    BY <1>8 DEF OpenTable, SetFormatMax, trx_sys_file_format_max_upgrade,
                trx_sys_file_format_max_set, Write, Call
  <2> QED
    BY <2>1, <1>t, <1>s, MaxWriteEffect
<1>9. CASE Stop
  BY <1>9, <1>t DEF Stop, trx_sys_close, Crash, BinlogInv, BinlogPosRecovered
<1>10. CASE LogFlush \/ PageFlush
  BY <1>10, <1>t DEF LogFlush, PageFlush, BinlogInv, BinlogPosRecovered
<1>11. CASE UNCHANGED vars
  BY <1>11, <1>t DEF vars, BinlogInv, BinlogPosRecovered
<1> QED
  BY <1>1, <1>2, <1>3, <1>4, <1>5, <1>6, <1>7, <1>8, <1>9, <1>10, <1>11
     DEF Next, Start, Clients

\* The position printed after a crash is the one of the last durable commit
\* (trx_sys_print_mysql_binlog_offset), for every word size and every
\* sequence of offsets.
THEOREM PositionsRecovered == Spec => []BinlogPosRecovered
<1>1. BinlogInv => BinlogPosRecovered
  BY DEF BinlogInv
<1> QED
  BY <1>1, BinlogInit, BinlogNext, PTL DEF Spec

-----------------------------------------------------------------------------
(* Rollback segments *)

\* The first slot that is not in use, or the number of slots.
FirstFree(pg) ==
    IF trx_sysf_rseg_find_free(pg) = ULINT_UNDEFINED THEN TRX_SYS_N_RSEGS
    ELSE trx_sysf_rseg_find_free(pg)

\* trx_sysf_rseg_find_free finds a free slot if there is one, and all slots
\* below it are in use.
LEMMA FindFree ==
    ASSUME NEW pg \in Page
    PROVE  LET k == trx_sysf_rseg_find_free(pg)
               free == {s \in Slots : ~pg.rsegs[s]}
           IN IF free = {} THEN k = ULINT_UNDEFINED
              ELSE k \in free /\ \A r \in free : k <= r
<1> DEFINE free == {s \in Slots : ~pg.rsegs[s]}
<1>1. free \in SUBSET Nat
  BY TrxSysAssumption DEF Slots
<1>2. CASE free = {}
  BY <1>2 DEF trx_sysf_rseg_find_free
<1>3. CASE free # {}
  <2>1. \E s \in free : \A r \in free : s <= r
    BY <1>1, <1>3, NatMin
  <2> QED
    BY <1>3, <2>1 DEF trx_sysf_rseg_find_free
<1> QED
  BY <1>2, <1>3

\* Without gaps, the first free slot is the number of slots in use.
LEMMA UsedPrefix ==
    ASSUME NEW pg \in Page,
           \A s \in UsedSlots(pg) : 0 .. s \subseteq UsedSlots(pg)
    PROVE  /\ FirstFree(pg) \in 0 .. TRX_SYS_N_RSEGS
           /\ UsedSlots(pg) = 0 .. FirstFree(pg) - 1
           /\ Cardinality(UsedSlots(pg)) = FirstFree(pg)
<1> DEFINE k == trx_sysf_rseg_find_free(pg)
           free == {s \in Slots : ~pg.rsegs[s]}
<1>n. TRX_SYS_N_RSEGS \in Nat \ {0}
  BY TrxSysAssumption
<1>0. IF free = {} THEN k = ULINT_UNDEFINED
      ELSE k \in free /\ \A r \in free : k <= r
  BY FindFree
<1> HIDE DEF k
<1>1. /\ FirstFree(pg) \in 0 .. TRX_SYS_N_RSEGS
      /\ UsedSlots(pg) = 0 .. FirstFree(pg) - 1
  <2>1. CASE free = {}
    <3>1. FirstFree(pg) = TRX_SYS_N_RSEGS
      BY <1>0, <2>1 DEF FirstFree, k
    <3>2. UsedSlots(pg) = Slots
      BY <2>1 DEF UsedSlots
    <3> QED
      BY <3>1, <3>2, <1>n DEF Slots
  <2>2. CASE free # {}
    <3>1. k \in Slots /\ ~pg.rsegs[k] /\ \A r \in Slots : r < k => pg.rsegs[r]
      BY <1>0, <2>2, <1>n DEF Slots
    <3>2. FirstFree(pg) = k
      BY <3>1, <1>n DEF FirstFree, Slots, ULINT_UNDEFINED, k
    <3>3. ASSUME NEW s \in UsedSlots(pg) PROVE s < k
      <4>1. k \notin UsedSlots(pg) /\ s \in Slots
        BY <3>1 DEF UsedSlots
      <4>2. 0 .. s \subseteq UsedSlots(pg)
        OBVIOUS
      <4> QED
        BY <4>1, <4>2, <3>1, <1>n DEF Slots
    <3>4. ASSUME NEW s \in 0 .. k - 1 PROVE s \in UsedSlots(pg)
      BY <3>1, <1>n DEF UsedSlots, Slots
    <3>5. UsedSlots(pg) \subseteq 0 .. k - 1
      BY <3>1, <3>3, <1>n DEF UsedSlots, Slots
    <3>6. UsedSlots(pg) = 0 .. k - 1
      BY <3>4, <3>5
    <3>7. k \in 0 .. TRX_SYS_N_RSEGS
      BY <3>1, <1>n DEF Slots
    <3> QED
      BY <3>2, <3>6, <3>7
  <2> QED
    BY <2>1, <2>2
<1>2. Cardinality(0 .. FirstFree(pg) - 1) = FirstFree(pg)
  BY <1>1, <1>n, FS_Interval
<1> QED
  BY <1>1, <1>2

\* A new rollback segment goes behind the others.
LEMMA CreateSlot ==
    ASSUME NEW pg \in Page, FirstFree(pg) < TRX_SYS_N_RSEGS,
           \A s \in UsedSlots(pg) : 0 .. s \subseteq UsedSlots(pg)
    PROVE  /\ UsedSlots(RsegCreate(pg)) = 0 .. FirstFree(pg)
           /\ SlotsInv(RsegCreate(pg))
           /\ 0 \in UsedSlots(RsegCreate(pg))
           /\ Cardinality(UsedSlots(RsegCreate(pg))) = FirstFree(pg) + 1
<1> DEFINE k == FirstFree(pg)
<1>n. TRX_SYS_N_RSEGS \in Nat \ {0}
  BY TrxSysAssumption
<1>1. k \in 0 .. TRX_SYS_N_RSEGS - 1 /\ UsedSlots(pg) = 0 .. k - 1
  BY UsedPrefix, <1>n
<1>2. k = trx_sysf_rseg_find_free(pg)
  BY <1>1, <1>n DEF FirstFree
<1>3. UsedSlots(RsegCreate(pg)) = UsedSlots(pg) \cup {k}
  <2>1. /\ pg.rsegs \in [Slots -> BOOLEAN]
        /\ RsegCreate(pg).rsegs = [pg.rsegs EXCEPT ![k] = TRUE]
    BY <1>2 DEF RsegCreate, Page
  <2> HIDE DEF k
  <2>2. k \in Slots
    BY <1>1, <1>n DEF Slots
  <2> QED
    BY <2>1, <2>2 DEF UsedSlots
<1> HIDE DEF k
<1>4. UsedSlots(RsegCreate(pg)) = 0 .. k
  BY <1>1, <1>3
<1>5. Cardinality(0 .. k) = k + 1
  BY <1>1, <1>n, FS_Interval
<1> QED
  BY <1>1, <1>4, <1>5 DEF SlotsInv, k

\* SlotsInv depends on two fields.
LEMMA SlotsSame ==
    ASSUME NEW pg, NEW pg2, pg2.rsegs = pg.rsegs
    PROVE  /\ UsedSlots(pg2) = UsedSlots(pg)
           /\ SlotsInv(pg) /\ (pg2.trx_id_store = pg.trx_id_store
                               \/ 0 \in UsedSlots(pg)) => SlotsInv(pg2)
BY DEF UsedSlots, SlotsInv

\* A new database has the first slot.
LEMMA CreateSlots ==
    SlotsInv(trx_sysf_create) /\ 0 \in UsedSlots(trx_sysf_create)
<1> DEFINE pg == [EmptyPage EXCEPT !.trx_id_store = 1]
<1>1. pg \in Page /\ UsedSlots(pg) = {}
  BY EmptyPageType DEF EmptyPage, Page, UsedSlots
<1>2. FirstFree(pg) = 0
  <2>1. FirstFree(pg) \in 0 .. TRX_SYS_N_RSEGS /\ Cardinality({}) = FirstFree(pg)
    BY <1>1, UsedPrefix
  <2> QED
    BY <2>1, FS_EmptySet
<1> QED
  BY <1>1, <1>2, CreateSlot, TrxSysAssumption DEF trx_sysf_create

LEMMA RsegInit == Init => RsegInv
<1> SUFFICES ASSUME Init PROVE RsegInv
  OBVIOUS
<1>1. UsedSlots(EmptyPage) = {} /\ EmptyPage.trx_id_store = 0
  BY DEF UsedSlots, EmptyPage
<1>2. page = EmptyPage /\ disk = EmptyPage /\ phase = "down"
  BY DEF Init
<1> QED
  BY <1>1, <1>2, TypeInit
     DEF RsegInv, SlotsInv, DownIsDisk, RsegsContiguous, Opened, UsedSlots

\* RsegsContiguous in terms of UsedSlots.
LEMMA ContiguousFacts ==
    RsegsContiguous <=>
      /\ Opened => 0 \in UsedSlots(page)
      /\ \A s \in UsedSlots(page) : 0 .. s \subseteq UsedSlots(page)
      /\ phase \in {"rsegs", "running"} /\ ~mem.read_only =>
           mem.n_used = Cardinality(UsedSlots(page))
BY DEF RsegsContiguous, UsedSlots

\* Each step keeps the slots contiguous, on the page and on disk.
LEMMA RsegNext == RsegInv /\ [Next]_vars => RsegInv'
<1> SUFFICES ASSUME RsegInv, [Next]_vars PROVE RsegInv'
  OBVIOUS
<1>t. /\ TypeOK /\ TypeOK' /\ page \in Page /\ disk \in Page /\ mem \in Memory
      /\ SlotsInv(page) /\ SlotsInv(disk)
  BY TypeNext DEF RsegInv, TypeOK
<1>o. /\ phase # "down" => 0 \in UsedSlots(page)
      /\ phase = "rsegs" => ~mem.read_only
  BY DEF RsegInv
<1>u. /\ \A s \in UsedSlots(page) : 0 .. s \subseteq UsedSlots(page)
      /\ phase \in {"rsegs", "running"} /\ ~mem.read_only =>
           mem.n_used = Cardinality(UsedSlots(page))
  BY ContiguousFacts DEF RsegInv
\* It is enough to look at the slots and their number.
<1>c. ASSUME SlotsInv(page'), SlotsInv(disk'), DownIsDisk',
             phase' # "down" => 0 \in UsedSlots(page'),
             phase' = "rsegs" => ~mem'.read_only,
             phase' \in {"rsegs", "running"} /\ ~mem'.read_only =>
               mem'.n_used = Cardinality(UsedSlots(page'))
      PROVE  RsegInv'
  <2>1. /\ Opened' => 0 \in UsedSlots(page')
        /\ \A s \in UsedSlots(page') : 0 .. s \subseteq UsedSlots(page')
    BY <1>c DEF Opened, SlotsInv
  <2>2. RsegsContiguous'
    BY <1>c, <2>1 DEF RsegsContiguous, UsedSlots
  <2> QED
    BY <1>c, <1>t, <2>2 DEF RsegInv
\* Steps of a server that leave the slots alone.
<1>s. ASSUME page'.rsegs = page.rsegs, disk' \in {disk, page},
             phase # "down", phase' # "down",
             \/ phase' \notin {"rsegs", "running"}
             \/ /\ phase' \in {phase, "running"}
                /\ phase \in {"rsegs", "running"}
                /\ mem'.read_only = mem.read_only
                /\ mem'.n_used = mem.n_used
      PROVE  RsegInv'
  <2>1. UsedSlots(page') = UsedSlots(page) /\ SlotsInv(page')
    BY <1>s, <1>t, <1>o, SlotsSame
  <2> QED
    BY <1>s, <1>t, <1>o, <1>u, <1>c, <2>1 DEF DownIsDisk
<1>1. ASSUME NEW limit \in FormatMaxs, CreateDatabase(limit) PROVE RsegInv'
  BY <1>1, <1>t, <1>c, CreateSlots DEF CreateDatabase, DownIsDisk
<1>2. ASSUME NEW limit \in FormatMaxs, NEW check \in BOOLEAN,
             NEW read_only \in BOOLEAN, Open(limit, check, read_only)
      PROVE  RsegInv'
  <2>1. /\ page' = page /\ disk' = disk /\ phase' = "checked"
        /\ page = disk /\ disk.trx_id_store # 0
    BY <1>2 DEF Open, RsegInv, DownIsDisk
  <2>2. 0 \in UsedSlots(page)
    BY <1>t, <2>1 DEF SlotsInv
  <2> QED
    BY <1>t, <1>c, <2>1, <2>2 DEF DownIsDisk
<1>3. CASE trx_sys_init_at_db_start
  BY <1>3, <1>s DEF trx_sys_init_at_db_start
<1>4. CASE trx_sys_file_format_tag_init
  BY <1>4, <1>t, <1>s, MaxWriteEffect
     DEF trx_sys_file_format_tag_init, trx_sys_file_format_max_set
<1>5. CASE trx_sys_create_rsegs
  <2>1. /\ page' = page /\ disk' = disk
        /\ phase' = IF mem.read_only THEN "running" ELSE "rsegs"
        /\ mem'.read_only = mem.read_only /\ phase # "down"
        /\ ~mem.read_only => mem'.n_used = FirstFree(page)
    BY <1>5, <1>t DEF trx_sys_create_rsegs, Memory, FirstFree
  <2>2. FirstFree(page) = Cardinality(UsedSlots(page))
    BY <1>t, <1>u, UsedPrefix
  <2> QED
    BY <1>t, <1>o, <1>c, <2>1, <2>2 DEF DownIsDisk
<1>6. CASE create_rsegs_loop
  <2>1. CASE UNCHANGED <<page, mem>>
    BY <1>6, <2>1, <1>s DEF create_rsegs_loop
  <2>2. CASE /\ mem.n_used < NRsegs
             /\ page' = RsegCreate(page)
             /\ mem' = [mem EXCEPT !.n_used = @ + 1]
             /\ phase' = phase
    <3>1. disk' = disk /\ phase = "rsegs"
          /\ mem'.read_only = mem.read_only
          /\ mem'.n_used = mem.n_used + 1
      BY <1>6, <2>2, <1>t DEF create_rsegs_loop, Memory
    <3>2. FirstFree(page) = Cardinality(UsedSlots(page))
          /\ FirstFree(page) \in 0 .. TRX_SYS_N_RSEGS
      BY <1>t, <1>u, UsedPrefix
    <3>3. ~mem.read_only
      BY <1>6, <1>o DEF create_rsegs_loop
    <3>4. FirstFree(page) < TRX_SYS_N_RSEGS
      BY <3>1, <3>2, <3>3, <2>2, <1>u, TrxSysAssumption
    <3>5. /\ SlotsInv(page') /\ 0 \in UsedSlots(page')
          /\ Cardinality(UsedSlots(page')) = mem'.n_used
      BY <1>t, <1>u, <2>2, <3>1, <3>2, <3>3, <3>4, CreateSlot
    <3> QED
      BY <1>t, <1>c, <2>2, <3>1, <3>3, <3>5 DEF DownIsDisk
  <2> QED
    BY <1>6, <2>1, <2>2 DEF create_rsegs_loop
<1>7. CASE \/ StartTrx
           \/ \E trx \in mem.rw_trx_list :
                Modify(trx) \/ Prepare(trx) \/ Disconnect(trx) \/ End(trx)
  BY <1>7, <1>t, <1>s, ClientPage
<1>8. ASSUME NEW format_id \in FormatMaxs,
             OpenTable(format_id) \/ SetFormatMax(format_id)
      PROVE  RsegInv'
  <2>1. /\ MaxWrite(format_id) \/ UNCHANGED <<mem, page>>
        /\ disk' = disk /\ phase = "running" /\ phase' = "running"
    BY <1>8 DEF OpenTable, SetFormatMax, trx_sys_file_format_max_upgrade,
                trx_sys_file_format_max_set, Write, Call
  <2> QED
    BY <2>1, <1>t, <1>s, MaxWriteEffect
<1>9. CASE Stop
  BY <1>9, <1>t, <1>c DEF Stop, trx_sys_close, Crash, DownIsDisk
<1>10. CASE LogFlush \/ PageFlush
  BY <1>10, <1>s DEF LogFlush, PageFlush
<1>11. CASE UNCHANGED vars
  BY <1>11, <1>t, <1>o, <1>u, <1>c DEF vars, DownIsDisk, RsegInv
<1> QED
  BY <1>1, <1>2, <1>3, <1>4, <1>5, <1>6, <1>7, <1>8, <1>9, <1>10, <1>11
     DEF Next, Start, Clients

\* The rollback segments fill a prefix of the slots and n_used counts them
\* (trx_sys_create_rsegs, trx_sys_close), for every number of slots.
THEOREM SlotsContiguous == Spec => []RsegsContiguous
<1>1. RsegInv => RsegsContiguous
  BY DEF RsegInv
<1> QED
  BY <1>1, RsegInit, RsegNext, PTL DEF Spec

-----------------------------------------------------------------------------
(* File format tag *)

\* A tag stands for the format it was written for.
LEMMA TagRead ==
    ASSUME NEW id \in 0 .. FILE_FORMAT_NAME_N - 1
    PROVE  /\ trx_sys_file_format_max_read(id + TAG_MAGIC_N) = id
           /\ FormatOf(id + TAG_MAGIC_N) = id
           /\ TagOK(id + TAG_MAGIC_N)
<1>1. /\ id \in Nat /\ id < FILE_FORMAT_NAME_N /\ FILE_FORMAT_NAME_N \in Nat
      /\ TAG_MAGIC_N \in Nat /\ TagSize \in Nat /\ id < TagSize
      /\ id + TAG_MAGIC_N - TAG_MAGIC_N = id
  BY TrxSysAssumption
<1>2. id % TagSize = id
  BY <1>1
<1>3. trx_sys_file_format_max_read(id + TAG_MAGIC_N) = id
  BY <1>1, <1>2 DEF trx_sys_file_format_max_read
<1> QED
  BY <1>1, <1>3 DEF FormatOf, ULINT_UNDEFINED, TagOK

\* A missing tag stands for no format.
LEMMA NoTagRead ==
    /\ TagOK(0)
    /\ FormatOf(0) = UNIV_FORMAT_MIN
    /\ trx_sys_file_format_max_read(0) = ULINT_UNDEFINED
<1>1. /\ TAG_MAGIC_N \in Nat /\ TagSize \in Nat /\ FILE_FORMAT_NAME_N \in Nat
      /\ TAG_MAGIC_N + FILE_FORMAT_NAME_N < TagSize
      /\ FILE_FORMAT_NAME_N <= TAG_MAGIC_N
  BY TrxSysAssumption
<1>2. (0 - TAG_MAGIC_N) % TagSize >= FILE_FORMAT_NAME_N
  <2>1. CASE TAG_MAGIC_N = 0
    BY <1>1, <2>1
  <2>2. CASE TAG_MAGIC_N # 0
    <3>1. (0 - TAG_MAGIC_N) % TagSize = TagSize - TAG_MAGIC_N
      BY <1>1, <2>2
    <3> QED
      BY <1>1, <3>1
  <2> QED
    BY <2>1, <2>2
<1> QED
  BY <1>2 DEF trx_sys_file_format_max_read, FormatOf, TagOK

\* trx_sys_file_format_max_write keeps memory and page in step.
LEMMA WriteFormat ==
    ASSUME TypeOK, NEW format_id \in 0 .. FILE_FORMAT_NAME_N - 1,
           MaxWrite(format_id)
    PROVE  /\ TagOK(page'.tag)
           /\ FormatOf(page'.tag) = format_id
           /\ mem'.file_format_max = format_id
BY MaxWriteEffect, TagRead

LEMMA FormatInit == Init => FormatInv
<1> SUFFICES ASSUME Init PROVE FormatInv
  OBVIOUS
<1>1. page.tag = 0 /\ disk.tag = 0 /\ page = disk
  BY DEF Init, EmptyPage
<1> QED
  BY <1>1, NoTagRead, TypeInit
     DEF Init, FormatInv, DownIsDisk, FormatGate, TagCoversOpenTables

\* Each step keeps tag, file_format_max and the formats in use consistent.
LEMMA FormatNext == FormatInv /\ [Next]_vars => FormatInv'
<1> SUFFICES ASSUME FormatInv, [Next]_vars PROVE FormatInv'
  OBVIOUS
<1>t. /\ TypeOK /\ TypeOK' /\ page \in Page /\ disk \in Page /\ mem \in Memory
      /\ TagOK(page.tag) /\ TagOK(disk.tag)
      /\ page.tag \in Nat /\ disk.tag \in Nat /\ file_tag \in Nat
      /\ open_format \in Nat /\ clean \in BOOLEAN
  BY TypeNext DEF FormatInv, TypeOK, Page
<1>f. /\ \A limit \in FormatMaxs : limit \in 0 .. FILE_FORMAT_NAME_N - 2
      /\ FILE_FORMAT_NAME_N \in Nat
  BY TrxSysAssumption
<1>i. /\ phase = "down" => page = disk
      /\ clean => (phase = "down" \/ mem.read_only) /\ file_tag = disk.tag
      /\ phase # "down" => mem.univ_format_max \in FormatMaxs
      /\ phase # "running" => open_format = UNIV_FORMAT_MIN
  BY DEF FormatInv, DownIsDisk
\* What the server with the check knows of the tag.
<1>k. ASSUME phase # "down", mem.check, ~mem.recv_needed_recovery
      PROVE  /\ mem.file_format_max = FormatOf(page.tag)
             /\ FormatOf(page.tag) <= mem.univ_format_max
             /\ open_format <= FormatOf(page.tag)
  BY <1>k DEF FormatInv, FormatGate, TagCoversOpenTables
\* Steps that leave the tag and the formats alone.
<1>s. ASSUME page'.tag = page.tag, UNCHANGED open_format,
             disk'.tag = disk.tag \/ (disk'.tag = page.tag /\ ~mem.read_only),
             file_tag' = file_tag \/ ~mem.read_only, clean' = clean,
             mem'.check = mem.check, mem'.read_only = mem.read_only,
             mem'.recv_needed_recovery = mem.recv_needed_recovery,
             mem'.univ_format_max = mem.univ_format_max,
             mem'.file_format_max = mem.file_format_max,
             phase # "down", phase' # "down",
             phase' = phase \/ phase # "running"
      PROVE  FormatInv'
  <2>1. FormatOf(page.tag) \in Nat /\ UNIV_FORMAT_MIN <= FormatOf(page.tag)
    BY <1>t, FormatOfType DEF UNIV_FORMAT_MIN
  <2> QED
    BY <1>s, <1>t, <1>i, <1>k, <2>1
       DEF FormatInv, DownIsDisk, FormatGate, TagCoversOpenTables
<1>1. ASSUME NEW limit \in FormatMaxs, CreateDatabase(limit) PROVE FormatInv'
  <2>1. trx_sysf_create.tag = 0
    BY DEF trx_sysf_create, RsegCreate, EmptyPage
  <2>2. /\ page'.tag = 0 /\ disk' = disk /\ clean' = FALSE
        /\ phase' = "opened" /\ open_format' = open_format /\ phase = "down"
        /\ mem'.univ_format_max = limit
        /\ mem'.file_format_max = UNIV_FORMAT_MIN
    BY <1>1, <2>1 DEF CreateDatabase, FreshMemory
  <2> QED
    BY <1>t, <1>f, <1>i, <2>2, NoTagRead
       DEF FormatInv, DownIsDisk, FormatGate, TagCoversOpenTables,
           UNIV_FORMAT_MIN
<1>2. ASSUME NEW limit \in FormatMaxs, NEW check \in BOOLEAN,
             NEW read_only \in BOOLEAN, Open(limit, check, read_only)
      PROVE  FormatInv'
  <2>1. /\ page' = page /\ disk' = disk /\ file_tag' = file_tag
        /\ open_format' = open_format /\ phase = "down" /\ phase' = "checked"
        /\ clean' = (clean /\ read_only)
        /\ mem'.univ_format_max = limit /\ mem'.check = check
        /\ mem'.read_only = read_only
        /\ mem'.recv_needed_recovery = ~clean
    BY <1>2 DEF Open, FreshMemory
  <2>2. FormatOf(file_tag) \in Nat /\ FormatOf(page.tag) \in Nat
    BY <1>t, FormatOfType
  <2>3. ASSUME check
        PROVE  /\ mem'.file_format_max = FormatOf(file_tag)
               /\ FormatOf(file_tag) <= limit
    <3>1. mem'.file_format_max = IF FormatOf(file_tag) > UNIV_FORMAT_MIN
                                 THEN FormatOf(file_tag) ELSE UNIV_FORMAT_MIN
      BY <1>2, <2>3 DEF Open, FreshMemory
    <3>2. FormatOf(file_tag) > limit => UNIV_FORMAT_MIN > limit
      BY <1>2, <2>3 DEF Open, trx_sys_file_format_max_check
    <3> QED
      BY <3>1, <3>2, <2>2, <1>f DEF UNIV_FORMAT_MIN
  <2>4. clean => file_tag = page.tag
    BY <1>i, <2>1
  <2> QED
    BY <1>t, <1>i, <2>1, <2>2, <2>3, <2>4
       DEF FormatInv, DownIsDisk, FormatGate, TagCoversOpenTables,
           UNIV_FORMAT_MIN
<1>3. CASE trx_sys_init_at_db_start
  <2>1. /\ UNCHANGED <<page, disk, file_tag, clean, open_format>>
        /\ phase = "checked" /\ phase' = "opened"
        /\ mem'.check = mem.check /\ mem'.read_only = mem.read_only
        /\ mem'.recv_needed_recovery = mem.recv_needed_recovery
        /\ mem'.univ_format_max = mem.univ_format_max
        /\ mem'.file_format_max = mem.file_format_max
    BY <1>3, <1>t DEF trx_sys_init_at_db_start, Memory
  <2> QED
    BY <1>s, <2>1
<1>4. CASE trx_sys_file_format_tag_init
  <2>1. /\ UNCHANGED <<disk, file_tag, clean, open_format>>
        /\ phase = "opened" /\ phase' = "tagged"
    BY <1>4 DEF trx_sys_file_format_tag_init
  <2>2. CASE UNCHANGED <<mem, page>>
    BY <2>1, <2>2, <1>s
  <2>3. CASE MaxWrite(UNIV_FORMAT_MIN)
    <3>1. UNIV_FORMAT_MIN \in 0 .. FILE_FORMAT_NAME_N - 1
          /\ UNIV_FORMAT_MIN <= mem.univ_format_max
      BY <1>f, <1>i, <2>1 DEF UNIV_FORMAT_MIN
    <3>2. /\ TagOK(page'.tag) /\ FormatOf(page'.tag) = UNIV_FORMAT_MIN
          /\ mem'.file_format_max = UNIV_FORMAT_MIN
      BY <1>t, <2>3, <3>1, WriteFormat
    <3>3. /\ mem'.check = mem.check /\ mem'.read_only = mem.read_only
          /\ mem'.recv_needed_recovery = mem.recv_needed_recovery
          /\ mem'.univ_format_max = mem.univ_format_max
      BY <1>t, <2>3, MaxWriteEffect
    <3> QED
      BY <1>t, <1>i, <2>1, <3>1, <3>2, <3>3
         DEF FormatInv, DownIsDisk, FormatGate, TagCoversOpenTables
  <2> QED
    BY <1>4, <2>2, <2>3
       DEF trx_sys_file_format_tag_init, trx_sys_file_format_max_set
<1>5. CASE trx_sys_create_rsegs
  <2>1. /\ UNCHANGED <<page, disk, file_tag, clean, open_format>>
        /\ phase = "tagged" /\ phase' \in {"rsegs", "running"}
        /\ mem'.check = mem.check /\ mem'.read_only = mem.read_only
        /\ mem'.recv_needed_recovery = mem.recv_needed_recovery
        /\ mem'.univ_format_max = mem.univ_format_max
        /\ mem'.file_format_max = mem.file_format_max
    BY <1>5, <1>t DEF trx_sys_create_rsegs, Memory
  <2> QED
    BY <1>s, <2>1
<1>6. CASE create_rsegs_loop
  <2>1. /\ UNCHANGED <<disk, file_tag, clean, open_format>>
        /\ phase = "rsegs" /\ phase' \in {"rsegs", "running"}
        /\ page'.tag = page.tag
        /\ mem'.check = mem.check /\ mem'.read_only = mem.read_only
        /\ mem'.recv_needed_recovery = mem.recv_needed_recovery
        /\ mem'.univ_format_max = mem.univ_format_max
        /\ mem'.file_format_max = mem.file_format_max
    BY <1>6, <1>t DEF create_rsegs_loop, RsegCreate, Page, Memory
  <2> QED
    BY <1>s, <2>1
<1>7. CASE \/ StartTrx
           \/ \E trx \in mem.rw_trx_list :
                Modify(trx) \/ Prepare(trx) \/ Disconnect(trx) \/ End(trx)
  <2>1. /\ UNCHANGED <<disk, file_tag, clean, open_format, phase>>
        /\ page'.tag = page.tag /\ phase = "running"
        /\ mem'.check = mem.check /\ mem'.read_only = mem.read_only
        /\ mem'.recv_needed_recovery = mem.recv_needed_recovery
        /\ mem'.univ_format_max = mem.univ_format_max
        /\ mem'.file_format_max = mem.file_format_max
    BY <1>7, <1>t, ClientPage
  <2> QED
    BY <1>s, <2>1
<1>8. ASSUME NEW format_id \in FormatMaxs,
             OpenTable(format_id) \/ SetFormatMax(format_id)
      PROVE  FormatInv'
  <2>1. /\ UNCHANGED <<disk, file_tag, clean, phase>>
        /\ phase = "running" /\ ~mem.read_only
        /\ format_id <= mem.univ_format_max
        /\ format_id \in 0 .. FILE_FORMAT_NAME_N - 1
    BY <1>8, <1>f DEF OpenTable, SetFormatMax, Write, Call
  <2>2. CASE MaxWrite(format_id)
    <3>1. /\ TagOK(page'.tag) /\ FormatOf(page'.tag) = format_id
          /\ mem'.file_format_max = format_id
      BY <1>t, <2>1, <2>2, WriteFormat
    <3>2. /\ mem'.check = mem.check /\ mem'.read_only = mem.read_only
          /\ mem'.recv_needed_recovery = mem.recv_needed_recovery
          /\ mem'.univ_format_max = mem.univ_format_max
      BY <1>t, <2>2, MaxWriteEffect
    <3>3. open_format' <= format_id
      BY <1>8, <2>1 DEF OpenTable, SetFormatMax, UNIV_FORMAT_MIN
    <3> QED
      BY <1>t, <1>i, <2>1, <3>1, <3>2, <3>3
         DEF FormatInv, DownIsDisk, FormatGate, TagCoversOpenTables
  <2>3. CASE UNCHANGED <<mem, page>>
    <3>1. mem.check /\ ~mem.recv_needed_recovery =>
            open_format' <= FormatOf(page.tag)
      <4>1. FormatOf(page.tag) \in Nat
        BY <1>t, FormatOfType
      <4>2. CASE OpenTable(format_id)
        <5>1. format_id <= mem.file_format_max /\ open_format' = format_id
          BY <4>2, <2>3, <1>t, <2>1
             DEF OpenTable, trx_sys_file_format_max_upgrade, MaxWrite, Memory
        <5> QED
          BY <5>1, <1>k, <2>1
      <4>3. CASE SetFormatMax(format_id)
        BY <4>1, <4>3 DEF SetFormatMax, UNIV_FORMAT_MIN
      <4> QED
        BY <1>8, <4>2, <4>3
    <3> QED
      BY <1>t, <1>i, <1>k, <2>1, <2>3, <3>1
         DEF FormatInv, DownIsDisk, FormatGate, TagCoversOpenTables
  <2> QED
    BY <1>8, <2>2, <2>3 DEF OpenTable, SetFormatMax,
       trx_sys_file_format_max_upgrade, trx_sys_file_format_max_set
<1>9. CASE Stop
  BY <1>9, <1>t, <1>i
     DEF Stop, trx_sys_close, Crash, FormatInv, DownIsDisk, FormatGate,
         TagCoversOpenTables
<1>10. CASE LogFlush \/ PageFlush
  BY <1>10, <1>t, <1>s DEF LogFlush, PageFlush
<1>11. CASE UNCHANGED vars
  BY <1>11
     DEF vars, FormatInv, TypeOK, DownIsDisk, FormatGate, TagCoversOpenTables
<1> QED
  BY <1>1, <1>2, <1>3, <1>4, <1>5, <1>6, <1>7, <1>8, <1>9, <1>10, <1>11
     DEF Next, Start, Clients

LEMMA FormatInvariant == Spec => []FormatInv
BY FormatInit, FormatNext, PTL DEF Spec

\* A server with the check never runs on cleanly closed files of a format it
\* does not support (trx_sys_file_format_max_check), whatever servers of
\* whatever versions opened them before.
THEOREM GateHolds == Spec => []FormatGate
<1>1. FormatInv => FormatGate
  BY DEF FormatInv
<1> QED
  BY <1>1, FormatInvariant, PTL

\* In a server with the check that did not recover, file_format_max is the
\* format on the page, which is at least that of every table opened since the
\* start or since the tag was last set by hand.
THEOREM TagCovers == Spec => []TagCoversOpenTables
<1>1. FormatInv => TagCoversOpenTables
  BY DEF FormatInv
<1> QED
  BY <1>1, FormatInvariant, PTL

=============================================================================
