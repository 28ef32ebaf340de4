------------------------------ MODULE DBManager ------------------------------
(***************************************************************************)
(* DBManager of utils (db_manager.cpp): threads that take database tasks   *)
(* from a SchedulerLF and share a DBConnectionPool, used as in             *)
(* test_db_manager.hpp: a safe unit (module SafeUnit) is built on the      *)
(* manager's scheduler and posts its functions beside tasks posted         *)
(* directly; each function and task makes one call of the pool.            *)
(*                                                                         *)
(* The scheduler's list is the code's; its condition variable is that of   *)
(* modules Scheduler and LeaderFollower, and here a worker that sleeps may *)
(* wake when the list is not empty.  libzdb is external: a pool that gives *)
(* at most connMax connections, and a server that answers, fails or cannot *)
(* be reached.                                                             *)
(***************************************************************************)
EXTENDS SafeUnit, Integers, FiniteSets

CONSTANTS
    Tasks,                 \* the units given to postDBTask, each once
    Setups,                \* cases of init: its arguments and what the server has
    MinConnections,        \* DB_POOL_MIN_COUNT, 5
    MinThreads,            \* DB_MANAGER_THREAD_MIN_COUNT, 1
    IntWord, LongWord,     \* 2^32 and 2^64
    NotANumber, Thrown     \* a text std::stoi rejects, std::out_of_range

ASSUME DatabaseAssumption ==
    /\ IsFiniteSet(Workers) /\ Workers = 1 .. Cardinality(Workers)
    /\ Tasks \cap (Jobs \cup {"absent", "get", "asleep", "exited", "safe unit"}) = {}
    /\ MinConnections \in Nat \ {0} /\ MinThreads \in Nat \ {0}
    /\ IntWord \in Nat \ {0} /\ LongWord \in Nat /\ IntWord <= LongWord
    /\ NotANumber \notin Int /\ Thrown \notin Int /\ NotANumber # Thrown

\* A setup's columns are all the tables of the server; init is given each
\* table once.
ASSUME SetupAssumption ==
    \A s \in DOMAIN Setups :
        LET given == Setups[s] IN
        /\ given.threadCount \in Nat /\ given.threadCount <= Cardinality(Workers)
        /\ given.connMaxCount \in Nat
        /\ \A t \in DOMAIN given.columns : given.columns[t] \in Seq(SUBSET STRING)
        /\ given.tables \in Seq([table : DOMAIN given.columns, where : STRING])
        /\ \A i, j \in 1 .. Len(given.tables) : given.tables[i].table = given.tables[j].table => i = j
        /\ Thrown \notin given.params

VARIABLES
    setup,             \* the case of init
    phase,             \* the main thread: what of init, stop and close is done
    ret,               \* what init returned
    pool, connMax,     \* m_pool, and its maximum of connections
    cache,             \* m_tableCacheMap
    work,              \* m_scheduler's m_work
    workList,          \* m_scheduler's m_workList
    at, body,          \* per worker: what it runs; its call of the pool
    active,            \* ConnectionPool_active
    stuck,             \* connections with an unread result, until they time out
    ended,             \* history: the direct tasks that returned
    crashed            \* the process has aborted

manager  == <<setup, phase, ret, pool, connMax, cache>>
workers  == <<at, body>>
database == <<active, stuck>>
dbVars   == <<vars, manager, work, workList, workers, database, ended, crashed>>

Args    == Setups[setup]
Unit    == "safe unit"
Missing == <<>>          \* the columns of a table that is not there
Phases  == {"new", "pool", "loading", "ready", "joining", "stopped"}
Bodies  == {"none", "call", "holding", "done"}

DBInit ==
    /\ Init
    /\ setup \in DOMAIN Setups
    /\ phase = "new"
    /\ ret = FALSE
    /\ pool = "null" /\ connMax = 0
    /\ cache = <<>>
    /\ work \in BOOLEAN            \* never set: SchedulerLF::init is not called
    /\ workList = <<>>
    /\ at = [w \in Workers |-> "absent"]
    /\ body = [w \in Workers |-> "none"]
    /\ active = 0 /\ stuck = 0
    /\ ended = {}
    /\ crashed = FALSE

-----------------------------------------------------------------------------
(* Statements.  A column is the set of the words in its SQL type, a field  *)
(* has a DATA_TYPE and is named by its place in the table.                 *)

\* Faulty: "int" is looked for first, and is found in "bigint".
FieldTypeIntFirst(column) ==
    CASE "int" \in column /\ "unsigned" \in column -> "UINT"
      [] "int" \in column /\ "unsigned" \notin column -> "INT"
      [] "blob" \in column -> "BLOB"
      [] {"varchar", "text"} \cap column # {} -> "STRING"
      [] OTHER -> "UNKNOWN"

\* dealResult: the words are searched in this order.
FieldType(column) ==
    CASE "bigint" \in column /\ "unsigned" \in column -> "ULLONG"
      [] "bigint" \in column /\ "unsigned" \notin column -> "LLONG"
      [] "bigint" \notin column /\ "int" \in column /\ "unsigned" \in column -> "UINT"
      [] "bigint" \notin column /\ "int" \in column /\ "unsigned" \notin column -> "INT"
      [] "int" \notin column /\ "blob" \in column -> "BLOB"
      [] {"int", "blob"} \cap column = {} /\ {"varchar", "text"} \cap column # {} -> "STRING"
      [] OTHER -> "UNKNOWN"

FieldVec(columns) == [i \in 1 .. Len(columns) |-> [name |-> i, type |-> FieldType(columns[i])]]

Known(columns) == \A i \in 1 .. Len(columns) : FieldType(columns[i]) # "UNKNOWN"

\* A SQLTable's own fields, and the columns each of its statements names, in
\* order, with the condition.  The formats of update and insert are left out:
\* getTypeFormatParam returns a pointer into a string that is gone.
SQLTable(table, where, fields) == [table |-> table, where |-> where, fieldVec |-> fields]

Statements(sql) ==
    LET names == [i \in 1 .. Len(sql.fieldVec) |-> sql.fieldVec[i].name] IN
    [selectCount |-> [cols |-> <<>>, from |-> sql.table],
     selectAll   |-> [cols |-> names, from |-> sql.table],
     selectLimit |-> [cols |-> names, from |-> sql.table],
     selectWhere |-> [cols |-> names, from |-> sql.table, where |-> sql.where],
     update      |-> [cols |-> names, from |-> sql.table, where |-> sql.where],
     insert      |-> [cols |-> names, from |-> sql.table]]

Parse(v, low, high) ==
    IF v = NotANumber THEN 0 ELSE IF v \in low .. high THEN v ELSE Thrown

stringToInt32(v) == Parse(v, -(IntWord \div 2), IntWord \div 2 - 1)
stringToInt64(v) == Parse(v, -(LongWord \div 2), LongWord \div 2 - 1)

\* std::stoull, and std::stoul of a 64-bit unsigned long, which negates.
StringToUlong(v) ==
    LET parsed == Parse(v, -(LongWord - 1), LongWord - 1) IN
    IF parsed = Thrown THEN Thrown ELSE parsed % LongWord

stringToUint64(v) == StringToUlong(v)
stringToUint32(v) == IF StringToUlong(v) = Thrown THEN Thrown ELSE StringToUlong(v) % IntWord

\* A conversion to the signed type of the setter.
Signed(n, word) == IF n # Thrown /\ n >= word \div 2 THEN n - word ELSE n

\* What a prepared statement is given for a parameter of text v; DOUBLE is
\* left unset, STRING and BLOB are the text.
Bind(type, v) ==
    CASE type = "INT"       -> stringToInt32(v)
      [] type = "LLONG"     -> stringToInt64(v)
      [] type = "UINT"      -> Signed(stringToUint32(v), IntWord)
      [] type = "ULLONG"    -> Signed(stringToUint64(v), LongWord)
      [] type = "TIMESTAMP" -> stringToUint32(v)
      [] OTHER              -> v

-----------------------------------------------------------------------------
(* The main thread: init, stop, close.                                     *)

Clamped(n, least) == IF n < least THEN least ELSE n

\* DBConnectionPool::init, up to the pool's start.
InitPool ==
    /\ phase = "new"
    /\ phase' = "pool"
    /\ \/ /\ Args.kind \in {"mysql", "oracle", "sqlite", "postgresql"}
          /\ pool' = "up"
          /\ connMax' = Clamped(Args.connMaxCount, MinConnections)
       \/ UNCHANGED <<pool, connMax>>      \* an unknown kind, a url that is none
    /\ UNCHANGED <<vars, setup, ret, cache, work, workList, workers, database, ended, crashed>>

\* The threads run, the scheduler is started: whatever became of the pool.
CreateThreads ==
    /\ phase = "pool"
    /\ phase' = "loading"
    /\ at' = [w \in Workers |->
                 IF w <= Clamped(Args.threadCount, MinThreads) THEN "get" ELSE "absent"]
    /\ UNCHANGED <<vars, setup, ret, pool, connMax, cache, work, workList, body, database,
                   ended, crashed>>

Return(value) == phase' = "ready" /\ ret' = value

\* A table's entry: the condition is stored after the statements were made
\* with an empty one.
Entry(table, where, columns) ==
    [where |-> where, sql |-> SQLTable(table, "", FieldVec(columns))]

\* Faulty: a table with a column that is not known is cached as it is.
CacheAnything(table, where, columns) ==
    cache' = [t \in DOMAIN cache \cup {table} |->
                 IF t = table THEN Entry(table, where, columns) ELSE cache[t]]

\* What dealResult caches.
Cache(table, where, columns) ==
    IF Known(columns)
    THEN cache' = [t \in DOMAIN cache \cup {table} |->
                      IF t = table THEN Entry(table, where, columns) ELSE cache[t]]
    ELSE UNCHANGED cache

\* loadTableField, one table: the connection it takes is given back, and
\* nobody else has one yet.  It stops at the first table that fails.
LoadTable ==
    LET n == Cardinality(DOMAIN cache) + 1
        table == Args.tables[n].table
        columns == Args.columns[table]
    IN  /\ phase = "loading"
        /\ n <= Len(Args.tables)
        /\ IF pool = "null"
           THEN crashed' = TRUE /\ UNCHANGED <<phase, ret, cache>>
           ELSE /\ UNCHANGED crashed
                /\ \/ /\ Args.reachable /\ columns # Missing
                      /\ Cache(table, Args.tables[n].where, columns)
                      /\ IF Known(columns) THEN UNCHANGED <<phase, ret>> ELSE Return(FALSE)
                   \/ Return(FALSE) /\ UNCHANGED cache      \* no connection, SQLException
        /\ UNCHANGED <<vars, setup, pool, connMax, work, workList, workers, database, ended>>

\* The end of loadTableField: what the pool's init returned is overwritten.
InitReturns ==
    /\ phase = "loading"
    /\ Cardinality(DOMAIN cache) = Len(Args.tables)
    /\ Return(TRUE)
    /\ UNCHANGED <<vars, setup, pool, connMax, cache, work, workList, workers, database, ended,
                   crashed>>

StopScheduler ==
    /\ phase = "ready"
    /\ phase' = "joining"
    /\ work' = FALSE
    /\ UNCHANGED <<vars, setup, ret, pool, connMax, cache, workList, workers, database, ended,
                   crashed>>

JoinReturns ==
    /\ phase = "joining"
    /\ \A w \in Workers : at[w] \in {"absent", "exited"}
    /\ phase' = "stopped"
    /\ UNCHANGED <<vars, setup, ret, pool, connMax, cache, work, workList, workers, database,
                   ended, crashed>>

\* DBConnectionPool::close, called after the threads are joined
\* (test_db_connection_pool.hpp:49); DBManager itself never calls it.
ClosePool ==
    /\ phase = "stopped"
    /\ pool' = "null"
    /\ UNCHANGED <<vars, setup, phase, ret, connMax, cache, work, workList, workers, database,
                   ended, crashed>>

Main == InitPool \/ CreateThreads \/ LoadTable \/ InitReturns \/ StopScheduler
        \/ JoinReturns \/ ClosePool

-----------------------------------------------------------------------------
(* Posts, once init has returned: the caller need not look at the result.  *)

\* The unit's steps put it into the list as often as they schedule it.
UnitList == workList' = IF scheduled' > scheduled THEN Append(workList, Unit) ELSE workList

PostUnit ==
    /\ phase \in {"ready", "joining"}
    /\ \/ \E func \in Funcs : Post(func)
       \/ \E callback \in Callbacks : CancelUnits(callback)
    /\ UnitList
    /\ UNCHANGED <<manager, work, workers, database, ended, crashed>>

Posted(task) ==
    \/ task \in ended
    \/ \E i \in 1 .. Len(workList) : workList[i] = task
    \/ \E w \in Workers : at[w] = task

PostDBTask(task) ==
    /\ phase \in {"ready", "joining"}
    /\ ~Posted(task)
    /\ workList' = Append(workList, task)
    /\ UNCHANGED <<vars, manager, work, workers, database, ended, crashed>>

-----------------------------------------------------------------------------
(* A worker, in SchedulerLF::run.                                          *)

Moves(w, place) == at' = [at EXCEPT ![w] = place]
NextTurn == IF work THEN "get" ELSE "exited"

TakeUnit(w) ==
    /\ at[w] = "get"
    /\ workList # <<>> /\ Head(workList) = Unit
    /\ Take(w)
    /\ workList' = Tail(workList)
    /\ Moves(w, Unit)
    /\ UNCHANGED <<manager, work, body, database, ended, crashed>>

TakeTask(w) ==
    /\ at[w] = "get"
    /\ workList # <<>> /\ Head(workList) # Unit
    /\ Moves(w, Head(workList))
    /\ body' = [body EXCEPT ![w] = "call"]
    /\ workList' = Tail(workList)
    /\ UNCHANGED <<vars, manager, work, database, ended, crashed>>

FindNothing(w) ==
    /\ at[w] = "get"
    /\ workList = <<>>
    /\ Moves(w, IF work THEN "asleep" ELSE "exited")
    /\ UNCHANGED <<vars, manager, work, workList, body, database, ended, crashed>>

WakeUp(w) ==
    /\ at[w] = "asleep"
    /\ workList # <<>>
    /\ Moves(w, NextTurn)
    /\ UNCHANGED <<vars, manager, work, workList, body, database, ended, crashed>>

EndTask(w) ==
    /\ at[w] \in Tasks
    /\ body[w] = "done"
    /\ ended' = ended \cup {at[w]}
    /\ body' = [body EXCEPT ![w] = "none"]
    /\ Moves(w, NextTurn)
    /\ UNCHANGED <<vars, manager, work, workList, database, crashed>>

\* The unit's functions; cancelUnits' callback calls no database.
RunUnit(w) ==
    /\ \/ SwapRead(w) /\ UNCHANGED <<body, at>>
       \/ SwapWrite(w) /\ UNCHANGED <<body, at>>
       \/ /\ StartFunc(w)
          /\ body' = [body EXCEPT ![w] = IF Head(runList[w]) \in Funcs THEN "call" ELSE "done"]
          /\ UNCHANGED at
       \/ /\ body[w] = "done"
          /\ EndFunc(w)
          /\ body' = [body EXCEPT ![w] = "none"]
          /\ UNCHANGED at
       \/ Leave(w) /\ Moves(w, NextTurn) /\ UNCHANGED body
    /\ UnitList
    /\ UNCHANGED <<manager, work, database, ended, crashed>>

-----------------------------------------------------------------------------
(* A call of the pool by worker w: exec, execQuery, execFunc.              *)

\* ConnectionPool_getConnection: its argument must be a pool.
GetConnection(w) ==
    /\ body[w] = "call"
    /\ IF pool = "null"
       THEN crashed' = TRUE /\ UNCHANGED <<body, active>>
       ELSE /\ UNCHANGED crashed
            /\ IF active + stuck < connMax /\ Args.reachable
               THEN active' = active + 1 /\ body' = [body EXCEPT ![w] = "holding"]
               ELSE body' = [body EXCEPT ![w] = "done"] /\ UNCHANGED active
    /\ UNCHANGED <<vars, manager, work, workList, at, stuck, ended>>

\* Faulty: the path of an SQLException returns without Connection_close.
GiveBackOnSuccess(w) ==
    /\ body' = [body EXCEPT ![w] = "done"]
    /\ active' \in {active, active - 1}

\* Connection_close, after success and after an SQLException.
GiveBack(w) ==
    /\ body' = [body EXCEPT ![w] = "done"]
    /\ active' = active - 1

\* exec: a statement with a result, which it never reads, leaves the
\* connection unusable until it times out (db_connection_pool.hpp:26).
Exec(w) ==
    /\ body[w] = "holding"
    /\ GiveBack(w)
    /\ stuck' \in {stuck, stuck + 1}
    /\ UNCHANGED <<vars, manager, work, workList, at, ended, crashed>>

\* execQuery and execFunc: func is called with the connection held.
ExecFunc(w) ==
    /\ body[w] = "holding"
    /\ GiveBack(w)
    /\ UNCHANGED <<vars, manager, work, workList, at, stuck, ended, crashed>>

\* getTableSql: nothing, where the code has NULL, for a table not cached.
GetTableSql(table) == {cache[t].sql : t \in DOMAIN cache \cap {table}}

\* execQuery with parameters: std::out_of_range is caught by nobody.
ExecPrepared(w) ==
    /\ body[w] = "holding"
    /\ \E t \in DOMAIN Args.columns, v \in Args.params : \E sql \in GetTableSql(t) :
       \E i \in 1 .. Len(sql.fieldVec) :
          IF Bind(sql.fieldVec[i].type, v) = Thrown
          THEN crashed' = TRUE /\ UNCHANGED <<body, active>>
          ELSE GiveBack(w) /\ UNCHANGED crashed
    /\ UNCHANGED <<vars, manager, work, workList, at, stuck, ended>>

\* The pool's reaper closes a connection that timed out.
Reap ==
    /\ stuck > 0
    /\ pool = "up"
    /\ stuck' = stuck - 1
    /\ UNCHANGED <<vars, manager, work, workList, workers, active, ended, crashed>>

CallPool(w) == GetConnection(w) \/ Exec(w) \/ ExecFunc(w) \/ ExecPrepared(w)

Work(w) ==
    TakeUnit(w) \/ TakeTask(w) \/ FindNothing(w) \/ WakeUp(w) \/ RunUnit(w) \/ CallPool(w)
        \/ EndTask(w)

DBNext ==
    /\ ~crashed
    /\ \/ Main
       \/ PostUnit
       \/ \E task \in Tasks : PostDBTask(task)
       \/ \E w \in Workers : Work(w)
       \/ Reap

\* The threads run, and statements end, in libzdb at the latest by time-out.
DBSpec ==
    /\ DBInit /\ [][DBNext]_dbVars
    /\ \A w \in Workers : WF_dbVars(~crashed /\ Work(w))

-----------------------------------------------------------------------------
DBTypeOK ==
    /\ setup \in DOMAIN Setups
    /\ phase \in Phases
    /\ {ret, work, crashed} \subseteq BOOLEAN
    /\ pool \in {"null", "up"}
    /\ connMax \in Nat
    /\ DOMAIN cache \subseteq DOMAIN Args.columns
    /\ workList \in Seq(Tasks \cup {Unit})
    /\ at \in [Workers -> {"absent", "get", "asleep", "exited", Unit} \cup Tasks]
    /\ body \in [Workers -> Bodies]
    /\ active \in Nat /\ stuck \in Nat
    /\ ended \subseteq Tasks

(* No connection is lost, on any path of a call: the pool's active ones    *)
(* are those a worker holds now, and none is open in a pool that close     *)
(* frees (db_connection_pool.cpp:78-206).  The list holds the unit as      *)
(* often as the unit was scheduled.                                        *)
ConnectionsAreHeld ==
    /\ active = Cardinality({w \in Workers : body[w] = "holding"})
    /\ active + stuck <= connMax
    /\ phase = "stopped" => active = 0
    /\ scheduled = Cardinality({i \in 1 .. Len(workList) : workList[i] = Unit})

DBInv == DBTypeOK /\ ConnectionsAreHeld

\* Do all the values fit all the types a parameter may have?
ParamsFit == \A v \in Args.params : stringToInt32(v) # Thrown

(* What init tells: TRUE only when every table is cached with all its      *)
(* columns, in order, in every statement; otherwise what is cached is what *)
(* came before the table that failed.  With a table to load, TRUE means    *)
(* that there is a pool too, although the pool's result is dropped         *)
(* (db_manager.cpp:24-32): no task aborts the process later.               *)
InitIsHonest ==
    /\ \A i \in 1 .. Len(Args.tables) :
          LET table == Args.tables[i].table
              n     == Len(Args.columns[table])
              names == [k \in 1 .. n |-> k]
          IN  /\ ret => table \in DOMAIN cache
              /\ table \in DOMAIN cache =>
                    /\ cache[table].where = Args.tables[i].where
                    /\ Known(Args.columns[table])
                    /\ \A s \in DOMAIN Statements(cache[table].sql) :
                          LET statement == Statements(cache[table].sql)[s] IN
                          /\ statement.cols = IF s = "selectCount" THEN <<>> ELSE names
                          /\ statement.from = table
                    /\ \A j \in 1 .. i - 1 : Args.tables[j].table \in DOMAIN cache
    /\ ret /\ Args.tables # <<>> /\ ParamsFit => ~crashed

\* The numbers a column may hold.
RangeOf(column) ==
    LET word == IF "bigint" \in column THEN LongWord ELSE IntWord IN
    IF "int" \notin column THEN {}
    ELSE IF "unsigned" \in column THEN 0 .. word - 1
    ELSE -(word \div 2) .. word \div 2 - 1

(* A number of a column, given as the parameter of the column's cached     *)
(* type, arrives with its bits, and as itself where it is below the half   *)
(* of its word: the setters are signed, so that the upper half of an       *)
(* unsigned column arrives negative (db_connection_pool.cpp:158-164).      *)
NumbersArrive ==
    \A t \in DOMAIN cache : \A i \in 1 .. Len(Args.columns[t]) :
        LET column == Args.columns[t][i]
            word   == IF "bigint" \in column THEN LongWord ELSE IntWord
            type   == cache[t].sql.fieldVec[i].type
        IN  \A v \in RangeOf(column) :
                /\ Bind(type, v) \in {v, v - word}
                /\ v < word \div 2 => Bind(type, v) = v

(* With a connection for each thread no call is refused, unless results    *)
(* that exec never read hold connections, or the server cannot be reached: *)
(* whatever failed before has given its connection back.                   *)
NoneDenied ==
    [][\A w \in Workers : body[w] = "call" /\ body'[w] = "done" =>
          \/ ~Args.reachable
          \/ stuck > 0
          \/ Cardinality({v \in Workers : at[v] # "absent"}) > connMax]_dbVars

-----------------------------------------------------------------------------
(* The inductive strengthening of the safety properties.                   *)

\* The unit is in the list once if it is scheduled, and else not at all.
UnitListed ==
    LET Listed(i) == workList[i] = Unit IN
    /\ scheduled = 1 <=> \E i \in 1 .. Len(workList) : Listed(i)
    /\ \A i, j \in 1 .. Len(workList) : Listed(i) /\ Listed(j) => i = j

\* A worker that runs the unit is in its doComplete, and whoever is in a task
\* or in a function of the unit, and nobody else, is in a call of the pool.
WorkersAgree ==
    \A w \in Workers :
        /\ at[w] = Unit <=> pc[w] # "idle"
        /\ body[w] # "none" <=> at[w] \in Tasks \/ pc[w] = "inside"

\* Before the threads run and after they were joined, nobody works.
NobodyAtWork ==
    phase \in {"new", "pool", "stopped"} => \A w \in Workers : at[w] \in {"absent", "exited"}

\* The cache holds the first tables, all their columns known.
CachedInOrder ==
    LET n == Cardinality(DOMAIN cache) IN
    /\ IsFiniteSet(DOMAIN cache)
    /\ n <= Len(Args.tables)
    /\ DOMAIN cache = {Args.tables[i].table : i \in 1 .. n}
    /\ \A i \in 1 .. n :
          LET table == Args.tables[i].table
              columns == Args.columns[table]
          IN  cache[table] = Entry(table, Args.tables[i].where, columns) /\ Known(columns)

\* What init has done so far, and what its answer means.
InitKeeps ==
    /\ phase = "new" => connMax = 0
    /\ DOMAIN cache # {} /\ phase # "stopped" => pool = "up"
    /\ ret => /\ phase \in {"ready", "joining", "stopped"}
              /\ Cardinality(DOMAIN cache) = Len(Args.tables)
    /\ ret /\ Args.tables # <<>> /\ ParamsFit => ~crashed

ManagerInv ==
    /\ DBInv /\ UnitListed /\ WorkersAgree /\ NobodyAtWork /\ CachedInOrder /\ InitKeeps

-----------------------------------------------------------------------------
\* m_work without its value, a stop or an abort ends the work.
Down == crashed \/ ~work

(* Every task posted ends, and every function the unit accepts is started, *)
(* whatever the calls of the pool return, with direct tasks and the unit's *)
(* turns sharing the list.                                                 *)
EveryJobEnds ==
    /\ \A task \in Tasks : Posted(task) ~> (task \in ended \/ Down)
    /\ \A job \in Jobs :
          (\E i \in 1 .. Len(accepted) : accepted[i] = job) ~>
              ((\E i \in 1 .. Len(executed) : executed[i] = job) \/ Down)

=============================================================================
