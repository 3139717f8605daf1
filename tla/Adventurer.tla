----------------------------- MODULE Adventurer -----------------------------
(***************************************************************************)
(* The threads of the game in HW2/source/hw2.cpp: one thread per wall, one *)
(* per gold shard, the printer, the input thread, and main, which creates  *)
(* and joins them.  The shared state is protected by map_mutex, except for *)
(* the loop tests, which read game_status_code, shards_remaining and       *)
(* golds[i].collected without it.                                          *)
(*                                                                         *)
(* A step is one section of a loop body: what another thread can see in    *)
(* between is kept, so that the mutex does real work in the model.  The    *)
(* delays (usleep) and the terminal settings are left out.                 *)
(***************************************************************************)
EXTENDS Integers, FiniteSets

CONSTANTS ROW, COLUMN,   \* the size of map_grid (17 and 49 in the code)
          WALL_LEN,      \* the length of a wall (15)
          NUM_WALLS, NUM_GOLD,
          wall_rows,     \* the row of each wall
          gold_rows,     \* the row of each shard
          START_X, START_Y  \* where init_map puts the adventurer (8 and 24)

Walls == 1..NUM_WALLS
Golds == 1..NUM_GOLD
Rows  == 1..(ROW - 2)      \* the cells inside the border
Cols  == 1..(COLUMN - 2)

ASSUME SizeAssumption ==
    /\ ROW \in Nat /\ COLUMN \in Nat /\ WALL_LEN \in Nat
    /\ NUM_WALLS \in Nat /\ NUM_GOLD \in Nat \ {0}
    /\ WALL_LEN >= 1
    /\ COLUMN > WALL_LEN + 2

ASSUME RowAssumption ==
    /\ wall_rows \in [Walls -> Rows]
    /\ gold_rows \in [Golds -> Rows]
    /\ START_X \in Rows /\ START_Y \in Cols
    /\ \A i \in Walls, g \in Golds : wall_rows[i] # gold_rows[g]
    /\ \A i, j \in Walls : i # j => wall_rows[i] # wall_rows[j]
    /\ \A g, h \in Golds : g # h => gold_rows[g] # gold_rows[h]
    /\ \A i \in Walls : wall_rows[i] # START_X
    /\ \A g \in Golds : gold_rows[g] # START_X

\* game_status_code
RUNNING == 0
WON     == 1
LOST    == -1
QUIT    == 2

\* The cells of map_grid.  BORDER stands for the three border characters.
EMPTY == " "
BORDER == "+"
ADVENTURER == "0"
WALL_CHAR == "="
GOLD_CHAR == "$"
Chars == {EMPTY, BORDER, ADVENTURER, WALL_CHAR, GOLD_CHAR}

Grid == (0..(ROW - 1)) \X (0..(COLUMN - 1))
Keys == {"w", "a", "s", "d", "q", "other"}

Printer == <<"printer", 0>>
Input   == <<"input", 0>>
WallThread(i) == <<"wall", i>>
GoldThread(g) == <<"gold", g>>
WallThreads == {"wall"} \X Walls
GoldThreads == {"gold"} \X Golds
Threads == {Printer, Input} \cup WallThreads \cup GoldThreads

VARIABLES
    map_grid, player_x, player_y, game_status_code, shards_remaining,
    wallCol,     \* walls[i].pos.col
    goldCol,     \* golds[i].pos.col
    goldDir,     \* golds[i].direction
    collected,   \* golds[i].collected
    map_mutex,   \* the set of threads that hold map_mutex
    pc,          \* where each thread is in its loop
    ch, idx,     \* the input thread's locals: the key, the shard it looks at
    main,        \* where main is
    verdict      \* what main printed

board == <<map_grid, player_x, player_y, wallCol, goldCol, goldDir>>
score == <<game_status_code, shards_remaining, collected>>
local == <<ch, idx>>
proc  == <<main, verdict>>
vars  == <<board, score, map_mutex, pc, local, proc>>

-----------------------------------------------------------------------------
(* Initialisation: init_map, init_walls, init_golds.                       *)

\* walls[i].direction: the walls alternate, the first moves right.
wallDir(i) == IF i % 2 = 1 THEN 1 ELSE -1

\* The cells that the drawing loop writes for a wall at column c: those past
\* the right border are written at the beginning of the row.
wrapCol(c) == IF c < 1 THEN COLUMN - c - 2
              ELSE IF c >= COLUMN - 1 THEN c - COLUMN + 2 ELSE c
wallCells(i, c) == {<<wall_rows[i], wrapCol(c + j)>> : j \in 0..(WALL_LEN - 1)}

init_map == [p \in Grid |->
    IF p[1] \in Rows /\ p[2] \in Cols
    THEN IF p = <<START_X, START_Y>> THEN ADVENTURER ELSE EMPTY
    ELSE BORDER]

\* The column is random; a wall never starts over the right border.
init_walls == wallCol \in [Walls -> 1..(COLUMN - WALL_LEN - 2)]

\* No shard shares its row with a wall, another shard or the adventurer, so
\* the cell it picks is empty and the search for another one is not needed.
init_golds ==
    /\ goldCol \in [Golds -> Cols]
    /\ goldDir \in [Golds -> {1, -1}]
    /\ collected = [g \in Golds |-> 0]

initialGrid ==
    [p \in Grid |->
        IF \E i \in Walls : p \in wallCells(i, wallCol[i]) THEN WALL_CHAR
        ELSE IF \E g \in Golds : p = <<gold_rows[g], goldCol[g]>> THEN GOLD_CHAR
        ELSE init_map[p]]

Init ==
    /\ init_walls
    /\ init_golds
    /\ map_grid = initialGrid
    /\ player_x = START_X /\ player_y = START_Y
    /\ game_status_code = RUNNING
    /\ shards_remaining = NUM_GOLD
    /\ map_mutex = {}
    /\ pc = [t \in Threads |-> "none"]
    /\ ch = "other" /\ idx = 1
    /\ main = "create"
    /\ verdict = "none"

-----------------------------------------------------------------------------
(* Threads and the mutex.                                                  *)

Goto(t, from, to) == pc[t] = from /\ pc' = [pc EXCEPT ![t] = to]

\* Mutant: a lock that does not wait for the holder.
LockDoesNotWait(t) == map_mutex' = map_mutex \cup {t}

\* pthread_mutex_lock: waits until no thread holds the mutex.
Lock(t) == map_mutex = {} /\ map_mutex' = {t}
Unlock(t) == map_mutex' = map_mutex \ {t}

Acquire(t) ==
    /\ pc[t] = "lock"
    /\ Lock(t)
    /\ pc' = [pc EXCEPT ![t] = IF t = Printer THEN "print" ELSE "erase"]
    /\ UNCHANGED <<board, score, local, proc>>

\* Mutant: the printer goes on after the end of the game.
LoopTestPrinterStays(t) ==
    /\ pc[t] = "test"
    /\ pc' = [pc EXCEPT ![t] =
                IF game_status_code # RUNNING /\ t # Printer THEN "done"
                ELSE IF t = Input THEN "kbhit" ELSE "lock"]
    /\ UNCHANGED <<board, score, map_mutex, local, proc>>

\* while (game_status_code == RUNNING), read without the mutex.
LoopTest(t) ==
    /\ pc[t] = "test"
    /\ pc' = [pc EXCEPT ![t] = IF game_status_code # RUNNING THEN "done"
                               ELSE IF t = Input THEN "kbhit" ELSE "lock"]
    /\ UNCHANGED <<board, score, map_mutex, local, proc>>

-----------------------------------------------------------------------------
(* move_walls_thread.                                                      *)

WallErase(i) ==
    /\ Goto(WallThread(i), "erase", "move")
    /\ map_grid' = [p \in Grid |-> IF p \in wallCells(i, wallCol[i])
                                   THEN EMPTY ELSE map_grid[p]]
    /\ UNCHANGED <<player_x, player_y, wallCol, goldCol, goldDir>>
    /\ UNCHANGED <<score, map_mutex, local, proc>>

\* Mutant: > for >= at the right border.
nextColOffByOne(c) == IF c < 1 THEN COLUMN - 2
                      ELSE IF c > COLUMN - 1 THEN 1 ELSE c

\* A position that left the interior reappears on the other side.
nextCol(c) == IF c < 1 THEN COLUMN - 2
              ELSE IF c >= COLUMN - 1 THEN 1 ELSE c

WallMove(i) ==
    /\ Goto(WallThread(i), "move", "draw")
    /\ wallCol' = [wallCol EXCEPT ![i] = nextCol(wallCol[i] + wallDir(i))]
    /\ UNCHANGED <<map_grid, player_x, player_y, goldCol, goldDir>>
    /\ UNCHANGED <<score, map_mutex, local, proc>>

WallDraw(i) ==
    /\ Goto(WallThread(i), "draw", "check")
    /\ map_grid' = [p \in Grid |-> IF p \in wallCells(i, wallCol[i])
                                   THEN WALL_CHAR ELSE map_grid[p]]
    /\ UNCHANGED <<player_x, player_y, wallCol, goldCol, goldDir>>
    /\ UNCHANGED <<score, map_mutex, local, proc>>

\* The collision test, in move_walls_thread and in input_thread_func: it
\* compares with the leftmost column and does not wrap.
hits(i) == /\ player_x = wall_rows[i]
           /\ player_y >= wallCol[i]
           /\ player_y < wallCol[i] + WALL_LEN

WallCheck(i) ==
    /\ Goto(WallThread(i), "check", "test")
    /\ game_status_code' = IF hits(i) THEN LOST ELSE game_status_code
    /\ Unlock(WallThread(i))
    /\ UNCHANGED <<board, shards_remaining, collected, local, proc>>

-----------------------------------------------------------------------------
(* move_golds_thread.                                                      *)

\* Mutant: the thread of the last shard stops too early.
GoldTestOffByOne(g) ==
    /\ Goto(GoldThread(g), "test",
            IF /\ game_status_code = RUNNING
               /\ shards_remaining > 1
               /\ collected[g] = 0 THEN "lock" ELSE "done")
    /\ UNCHANGED <<board, score, map_mutex, local, proc>>

\* Three unlocked reads.  The status never returns to RUNNING, the count never
\* grows and a shard is never put back, so reading them in one step loses no
\* outcome.
GoldTest(g) ==
    /\ Goto(GoldThread(g), "test",
            IF /\ game_status_code = RUNNING
               /\ shards_remaining > 0
               /\ collected[g] = 0 THEN "lock" ELSE "done")
    /\ UNCHANGED <<board, score, map_mutex, local, proc>>

goldCell(g) == <<gold_rows[g], goldCol[g]>>

\* Mutant: the shard is not taken from its old cell.
GoldEraseMissing(g) ==
    /\ Goto(GoldThread(g), "erase", "move")
    /\ UNCHANGED <<board, score, map_mutex, local, proc>>

GoldErase(g) ==
    /\ Goto(GoldThread(g), "erase", "move")
    /\ map_grid' = IF map_grid[goldCell(g)] = GOLD_CHAR
                   THEN [map_grid EXCEPT ![goldCell(g)] = EMPTY] ELSE map_grid
    /\ UNCHANGED <<player_x, player_y, wallCol, goldCol, goldDir>>
    /\ UNCHANGED <<score, map_mutex, local, proc>>

GoldMove(g) ==
    /\ Goto(GoldThread(g), "move", "collect")
    /\ goldCol' = [goldCol EXCEPT ![g] = nextCol(goldCol[g] + goldDir[g])]
    /\ UNCHANGED <<map_grid, player_x, player_y, wallCol, goldDir>>
    /\ UNCHANGED <<score, map_mutex, local, proc>>

\* Mutant: collected is not tested.
ReachedAgain(g) == gold_rows[g] = player_x /\ goldCol[g] = player_y

\* The adventurer is on shard g.
Reached(g) == /\ gold_rows[g] = player_x
              /\ goldCol[g] = player_y
              /\ collected[g] = 0

\* Mutant: the count is compared before it is decremented.
CollectStale(g) ==
    /\ collected' = [collected EXCEPT ![g] = 1]
    /\ shards_remaining' = shards_remaining - 1
    /\ game_status_code' = IF shards_remaining = 0 THEN WON
                           ELSE game_status_code

\* The adventurer takes shard g: the last one wins the game.
Collect(g) ==
    /\ collected' = [collected EXCEPT ![g] = 1]
    /\ shards_remaining' = shards_remaining - 1
    /\ game_status_code' = IF shards_remaining - 1 = 0 THEN WON
                           ELSE game_status_code

GoldCollect(g) ==
    /\ Goto(GoldThread(g), "collect", "place")
    /\ IF Reached(g) THEN Collect(g) ELSE UNCHANGED score
    /\ UNCHANGED <<board, map_mutex, local, proc>>

GoldPlace(g) ==
    /\ Goto(GoldThread(g), "place", "test")
    /\ map_grid' = IF collected[g] = 0 /\ map_grid[goldCell(g)] = EMPTY
                   THEN [map_grid EXCEPT ![goldCell(g)] = GOLD_CHAR]
                   ELSE map_grid
    /\ Unlock(GoldThread(g))
    /\ UNCHANGED <<player_x, player_y, wallCol, goldCol, goldDir>>
    /\ UNCHANGED <<score, local, proc>>

-----------------------------------------------------------------------------
(* print_map_thread: the whole map is printed under the mutex.             *)

Print_map ==
    /\ Goto(Printer, "print", "test")
    /\ Unlock(Printer)
    /\ UNCHANGED <<board, score, local, proc>>

-----------------------------------------------------------------------------
(* input_thread_func.                                                      *)

\* kbhit: there is no key, or there is one and getchar takes it.
NoKey ==
    /\ Goto(Input, "kbhit", "test")
    /\ UNCHANGED <<board, score, map_mutex, local, proc>>

Key(k) ==
    /\ Goto(Input, "kbhit", "lock")
    /\ ch' = k
    /\ UNCHANGED <<board, score, map_mutex, idx, proc>>

playerCell == <<player_x, player_y>>

InputErase ==
    /\ Goto(Input, "erase", "move")
    /\ map_grid' = [map_grid EXCEPT ![playerCell] = EMPTY]
    /\ UNCHANGED <<player_x, player_y, wallCol, goldCol, goldDir>>
    /\ UNCHANGED <<score, map_mutex, local, proc>>

InputMove ==
    /\ Goto(Input, "move", "walls")
    /\ player_x' = IF ch = "w" /\ player_x > 1 THEN player_x - 1
                   ELSE IF ch = "s" /\ player_x < ROW - 2 THEN player_x + 1
                   ELSE player_x
    /\ player_y' = IF ch = "a" /\ player_y > 1 THEN player_y - 1
                   ELSE IF ch = "d" /\ player_y < COLUMN - 2 THEN player_y + 1
                   ELSE player_y
    /\ game_status_code' = IF ch = "q" THEN QUIT ELSE game_status_code
    /\ ch' = "other"      \* not read again in this turn of the loop
    /\ UNCHANGED <<map_grid, wallCol, goldCol, goldDir>>
    /\ UNCHANGED <<shards_remaining, collected, map_mutex, idx, proc>>

\* Mutant: only the walls look for a collision.
InputWallsMissing ==
    /\ Goto(Input, "walls", "golds")
    /\ UNCHANGED <<board, score, map_mutex, local, proc>>

InputWalls ==
    /\ Goto(Input, "walls", "golds")
    /\ game_status_code' = IF \E i \in Walls : hits(i) THEN LOST
                           ELSE game_status_code
    /\ UNCHANGED <<board, shards_remaining, collected, map_mutex, local, proc>>

\* One turn of the loop over the shards.
InputGolds ==
    /\ pc[Input] = "golds"
    /\ pc' = [pc EXCEPT ![Input] = IF idx = NUM_GOLD THEN "place" ELSE "golds"]
    /\ idx' = IF idx = NUM_GOLD THEN 1 ELSE idx + 1
    /\ IF Reached(idx)
       THEN /\ Collect(idx)
            /\ map_grid' = [map_grid EXCEPT ![goldCell(idx)] = EMPTY]
       ELSE UNCHANGED <<map_grid, score>>
    /\ UNCHANGED <<player_x, player_y, wallCol, goldCol, goldDir>>
    /\ UNCHANGED <<map_mutex, ch, proc>>

InputPlace ==
    /\ Goto(Input, "place", "test")
    /\ map_grid' = [map_grid EXCEPT ![playerCell] = ADVENTURER]
    /\ Unlock(Input)
    /\ UNCHANGED <<player_x, player_y, wallCol, goldCol, goldDir>>
    /\ UNCHANGED <<score, local, proc>>

-----------------------------------------------------------------------------
(* main.                                                                   *)

\* pthread_create for the printer, the input thread, the walls, the shards,
\* in that order; a thread runs as soon as it exists.
CreateBefore(s, t) ==
    \/ t \in WallThreads /\ s \in {Printer, Input}
    \/ t \in GoldThreads /\ s \in {Printer, Input} \cup WallThreads
    \/ t = Input /\ s = Printer
    \/ s[1] = t[1] /\ s[2] < t[2]

Create(t) ==
    /\ main = "create"
    /\ \A s \in Threads : CreateBefore(s, t) => pc[s] # "none"
    /\ Goto(t, "none", "test")
    /\ main' = IF t = GoldThread(NUM_GOLD) THEN "join" ELSE "create"
    /\ UNCHANGED <<board, score, map_mutex, local, verdict>>

\* Mutant: the threads of the shards are not joined.
JoinWithoutGolds ==
    /\ main = "join"
    /\ \A t \in Threads \ GoldThreads : pc[t] = "done"
    /\ main' = "report"
    /\ UNCHANGED <<board, score, map_mutex, pc, local, verdict>>

\* pthread_join for every thread: only the end of all of them matters, the
\* order in which main waits does not.
Join ==
    /\ main = "join"
    /\ \A t \in Threads : pc[t] = "done"
    /\ main' = "report"
    /\ UNCHANGED <<board, score, map_mutex, pc, local, verdict>>

Report ==
    /\ main = "report"
    /\ main' = "destroyed"
    /\ verdict' = CASE game_status_code = WON  -> "You win"
                    [] game_status_code = LOST -> "You lose"
                    [] game_status_code = QUIT -> "You exit"
                    [] OTHER -> "none"
    /\ UNCHANGED <<board, score, map_mutex, pc, local>>

\* The process has exited.
Exited == main = "destroyed" /\ UNCHANGED vars

-----------------------------------------------------------------------------
WallStep(i) ==
    \/ LoopTest(WallThread(i)) \/ Acquire(WallThread(i))
    \/ WallErase(i) \/ WallMove(i) \/ WallDraw(i) \/ WallCheck(i)

GoldStep(g) ==
    \/ GoldTest(g) \/ Acquire(GoldThread(g))
    \/ GoldErase(g) \/ GoldMove(g) \/ GoldCollect(g) \/ GoldPlace(g)

PrinterStep == LoopTest(Printer) \/ Acquire(Printer) \/ Print_map

InputStep ==
    \/ LoopTest(Input) \/ NoKey \/ (\E k \in Keys : Key(k)) \/ Acquire(Input)
    \/ InputErase \/ InputMove \/ InputWalls \/ InputGolds \/ InputPlace

MainStep == (\E t \in Threads : Create(t)) \/ Join \/ Report

Next ==
    \/ \E i \in Walls : WallStep(i)
    \/ \E g \in Golds : GoldStep(g)
    \/ PrinterStep
    \/ InputStep
    \/ MainStep
    \/ Exited

\* Every thread that can run is scheduled at some time.  Strong fairness on
\* the mutex is not needed for the properties below.
Fairness ==
    /\ \A i \in Walls : WF_vars(WallStep(i))
    /\ \A g \in Golds : WF_vars(GoldStep(g))
    /\ WF_vars(PrinterStep)
    /\ WF_vars(InputStep)
    /\ WF_vars(MainStep)

Spec == Init /\ [][Next]_vars
FairSpec == Spec /\ Fairness

-----------------------------------------------------------------------------
(* Properties.                                                             *)

CriticalPcs == {"erase", "move", "draw", "check", "collect", "place",
                "walls", "golds", "print"}

\* Every variable has the type its declaration in hw2.cpp gives it; the
\* adventurer, the walls and the shards stay inside the border.
TypeOK ==
    /\ map_grid \in [Grid -> Chars]
    /\ player_x \in Rows /\ player_y \in Cols
    /\ game_status_code \in {RUNNING, WON, LOST, QUIT}
    /\ shards_remaining \in 0..NUM_GOLD
    /\ wallCol \in [Walls -> Cols]
    /\ goldCol \in [Golds -> Cols]
    /\ goldDir \in [Golds -> {1, -1}]
    /\ collected \in [Golds -> {0, 1}]
    /\ map_mutex \in SUBSET Threads
    /\ pc \in [Threads -> CriticalPcs \cup {"none", "test", "kbhit", "lock", "done"}]
    /\ ch \in Keys /\ idx \in Golds
    /\ main \in {"create", "join", "report", "destroyed"}
    /\ verdict \in {"none", "You win", "You lose", "You exit"}

\* A thread is inside the section between pthread_mutex_lock and
\* pthread_mutex_unlock exactly while it holds map_mutex, and one at most is.
MutualExclusion ==
    /\ \A t \in Threads : pc[t] \in CriticalPcs <=> t \in map_mutex
    /\ \A s, t \in map_mutex : s = t

Remaining == {g \in Golds : collected[g] = 0}

\* shards_remaining counts the shards that are not collected, whichever
\* thread, the shard's own or the input thread, collects them.
ShardsAccounting == shards_remaining = Cardinality(Remaining)

\* The game is won only with every shard collected, and it does not go on
\* once the last one is.
WonMeansAll ==
    /\ game_status_code = WON => Remaining = {}
    /\ Remaining = {} => game_status_code # RUNNING

\* A shard thread that has returned leaves no shard behind in a running game.
NoFrozenShard ==
    \A g \in Golds : pc[GoldThread(g)] = "done" /\ game_status_code = RUNNING
                     => collected[g] = 1

\* Whenever the printer puts the map on the screen it shows every shard that
\* is left, nothing where a shard was, no second adventurer, no part of a
\* wall where there is none, and the whole border.
FrameConsistent ==
    pc[Printer] = "print" =>
        /\ \A p \in Grid : map_grid[p] = GOLD_CHAR
                           <=> \E g \in Remaining : p = goldCell(g)
        /\ \A p \in Grid : map_grid[p] = ADVENTURER => p = playerCell
        /\ \A p \in Grid : map_grid[p] = WALL_CHAR
                           => \E i \in Walls : p \in wallCells(i, wallCol[i])
        /\ \A p \in Grid : map_grid[p] = BORDER <=> p \notin Rows \X Cols

\* Between two sections of the mutex, an adventurer who stands on the part of
\* a wall that starts at its leftmost column has ended the game.
ContactEndsGame ==
    map_mutex = {} =>
        \A i \in Walls : hits(i) => game_status_code # RUNNING

\* When main destroys the mutex no thread can use it any more, and main has
\* printed one of the three results.
CleanExit ==
    main = "destroyed" =>
        /\ map_mutex = {}
        /\ \A t \in Threads : pc[t] = "done"
        /\ verdict # "none"
        /\ verdict = "You win" => Remaining = {}

\* A game that has ended does not start again, and a collected shard is not
\* put back.
EndIsFinal ==
    [][ /\ game_status_code # RUNNING => game_status_code' # RUNNING
        /\ \A g \in Golds : collected[g] = 1 => collected'[g] = 1 ]_vars

\* Once the game is over every thread leaves its loop and main reports.
GameOverReported == game_status_code # RUNNING ~> main = "destroyed"

\* Report.pdf: "After collecting all the gold shards, the game will print You
\* win the game!!".  A thread that passed its loop test before the last shard
\* was taken can still overwrite the status.
AllCollectedWins ==
    main = "destroyed" /\ Remaining = {} => verdict = "You win"

\* Report.pdf: "colliding with a wall results in an immediate loss"; the part
\* of a wall that is drawn at the other side of the row does not collide.
WallAlwaysCollides ==
    map_mutex = {} /\ game_status_code = RUNNING =>
        \A i \in Walls : playerCell \notin wallCells(i, wallCol[i])
=============================================================================
