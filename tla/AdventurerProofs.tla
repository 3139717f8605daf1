-------------------------- MODULE AdventurerProofs --------------------------
(***************************************************************************)
(* Proofs about the game's threads for every size of the board and every   *)
(* number of walls and shards.  The inductive invariant IInv is at the     *)
(* end; its first part is Rules: the type invariant alone is not           *)
(* inductive, since shards_remaining >= 0 needs the count to agree with    *)
(* the shards that are left.                                               *)
(***************************************************************************)
EXTENDS Adventurer, FiniteSetTheorems, TLAPS

Facts == TypeOK /\ ShardsAccounting

\* The statuses only leave RUNNING; a won game has no shard left; a thread
\* that returned did so for a reason the running game excludes.
Rules == Facts /\ MutualExclusion /\ WonMeansAll /\ NoFrozenShard

\* The set of shards that are left is finite, whatever the collected flags.
LEMMA RemainingFinite ==
  ASSUME NEW c \in [Golds -> {0, 1}]
  PROVE  /\ IsFiniteSet({g \in Golds : c[g] = 0})
         /\ Cardinality({g \in Golds : c[g] = 0}) \in Nat
  <1>1. IsFiniteSet(Golds)
    BY SizeAssumption, FS_Interval DEF Golds
  <1>2. {g \in Golds : c[g] = 0} \subseteq Golds
    OBVIOUS
  <1> QED
    BY <1>1, <1>2, FS_Subset, FS_CardinalityType

\* Taking one shard (Collect) lowers the number of shards left by one.
LEMMA CollectOne ==
  ASSUME NEW c \in [Golds -> {0, 1}], NEW g \in Golds, c[g] = 0,
         NEW d, d = [c EXCEPT ![g] = 1]
  PROVE  /\ d \in [Golds -> {0, 1}]
         /\ Cardinality({h \in Golds : d[h] = 0})
              = Cardinality({h \in Golds : c[h] = 0}) - 1
         /\ Cardinality({h \in Golds : c[h] = 0}) >= 1
  <1> DEFINE S == {h \in Golds : c[h] = 0}
             T == {h \in Golds : d[h] = 0}
  <1>1. T = S \ {g} /\ g \in S
    OBVIOUS
  <1>2. IsFiniteSet(S) /\ Cardinality(S) \in Nat
    BY RemainingFinite
  <1>3. d \in [Golds -> {0, 1}]
    OBVIOUS
  <1>4. Cardinality(T) \in Nat
    BY <1>3, RemainingFinite
  <1> HIDE DEF S, T
  <1>5. Cardinality(T) = Cardinality(S) - 1
    BY <1>1, <1>2, FS_RemoveElement
  <1>6. Cardinality(S) >= 1
    BY <1>2, <1>4, <1>5
  <1> QED
    BY <1>3, <1>5, <1>6 DEF S, T

\* Reaching an uncollected shard keeps the count and its range.
LEMMA CollectStep ==
  ASSUME Facts, NEW g \in Golds, Reached(g), Collect(g)
  PROVE  /\ collected' \in [Golds -> {0, 1}]
         /\ ShardsAccounting'
         /\ shards_remaining' \in 0..NUM_GOLD
         /\ game_status_code' \in {RUNNING, WON, LOST, QUIT}
  <1>1. collected \in [Golds -> {0, 1}] /\ collected[g] = 0
    BY DEF Facts, TypeOK, Reached
  <1>2. collected' = [collected EXCEPT ![g] = 1]
    BY DEF Collect
  <1>3. /\ collected' \in [Golds -> {0, 1}]
        /\ Cardinality(Remaining') = Cardinality(Remaining) - 1
        /\ Cardinality(Remaining) >= 1
    BY <1>1, <1>2, CollectOne DEF Remaining
  <1>4. shards_remaining' = shards_remaining - 1
    BY DEF Collect
  <1>5. shards_remaining = Cardinality(Remaining) /\ shards_remaining \in 0..NUM_GOLD
    BY DEF Facts, ShardsAccounting, TypeOK
  <1>6. ShardsAccounting'
    BY <1>3, <1>4, <1>5 DEF ShardsAccounting
  <1>7. shards_remaining' \in 0..NUM_GOLD
    BY <1>3, <1>4, <1>5, SizeAssumption
  <1>8. game_status_code' \in {RUNNING, WON, LOST, QUIT}
    BY DEF Facts, TypeOK, Collect
  <1> QED
    BY <1>3, <1>6, <1>7, <1>8

\* A position moved by one column is brought back inside the border.
LEMMA NextColType ==
  ASSUME NEW c \in Cols, NEW d \in {1, -1}
  PROVE  nextCol(c + d) \in Cols
  BY SizeAssumption DEF nextCol, Cols

\* The initial board satisfies the rules.
LEMMA InitRules == Init => Rules
  <1> SUFFICES ASSUME Init PROVE Rules
    OBVIOUS
  <1>1. map_grid \in [Grid -> Chars]
    BY DEF Init, initialGrid, init_map, Chars
  <1>2. 1..(COLUMN - WALL_LEN - 2) \subseteq Cols
    BY SizeAssumption DEF Cols
  <1>3. wallCol \in [Walls -> Cols]
    BY <1>2 DEF Init, init_walls
  <1>4. /\ goldCol \in [Golds -> Cols]
        /\ goldDir \in [Golds -> {1, -1}]
        /\ collected \in [Golds -> {0, 1}]
    BY DEF Init, init_golds
  <1>5. 1 \in Golds /\ shards_remaining \in 0..NUM_GOLD
    BY SizeAssumption DEF Init, Golds
  <1>6. TypeOK
    BY <1>1, <1>3, <1>4, <1>5, RowAssumption DEF TypeOK, Init, Keys
  <1>7. Remaining = Golds
    BY DEF Remaining, Init, init_golds
  <1>8. ShardsAccounting
    BY <1>7, SizeAssumption, FS_Interval DEF ShardsAccounting, Golds, Init
  <1>9. MutualExclusion
    BY DEF MutualExclusion, Init, CriticalPcs
  <1>10. WonMeansAll
    BY <1>5, <1>7 DEF WonMeansAll, Init, WON, RUNNING
  <1>11. NoFrozenShard
    BY DEF NoFrozenShard, Init, Threads, GoldThread, GoldThreads
  <1> QED
    BY <1>6, <1>8, <1>9, <1>10, <1>11 DEF Rules, Facts

-----------------------------------------------------------------------------
\* Every action keeps TypeOK and the count of the shards.
LEMMA FactsStep == Facts /\ [Next]_vars => Facts'
  <1> SUFFICES ASSUME Facts, [Next]_vars PROVE Facts'
    OBVIOUS
  <1> USE DEF Goto, Lock, Unlock, board, score, local, proc
  <1>a. /\ TypeOK /\ ShardsAccounting
        /\ RUNNING \in {RUNNING, WON, LOST, QUIT}
        /\ EMPTY \in Chars /\ WALL_CHAR \in Chars /\ GOLD_CHAR \in Chars
        /\ ADVENTURER \in Chars
        /\ Printer \in Threads /\ Input \in Threads
        /\ \A i \in Walls : WallThread(i) \in Threads
        /\ \A g \in Golds : GoldThread(g) \in Threads
    BY DEF Facts, Chars, Threads, WallThread, GoldThread, WallThreads, GoldThreads
  \* A step that takes no shard leaves the count as it is.
  <1>b. UNCHANGED <<shards_remaining, collected>> => ShardsAccounting'
    BY <1>a DEF ShardsAccounting, Remaining
  <1>1. ASSUME NEW t \in Threads, LoopTest(t) PROVE Facts'
    BY <1>a, <1>b, <1>1 DEF Facts, TypeOK, CriticalPcs, LoopTest
  <1>2. ASSUME NEW t \in Threads, Acquire(t) PROVE Facts'
    BY <1>a, <1>b, <1>2 DEF Facts, TypeOK, CriticalPcs, Acquire
  <1>3. ASSUME NEW i \in Walls, WallErase(i) PROVE Facts'
    BY <1>a, <1>b, <1>3 DEF Facts, TypeOK, CriticalPcs, WallErase
  <1>4. ASSUME NEW i \in Walls, WallMove(i) PROVE Facts'
    BY <1>a, <1>b, <1>4, NextColType DEF Facts, TypeOK, CriticalPcs, WallMove, wallDir
  <1>5. ASSUME NEW i \in Walls, WallDraw(i) PROVE Facts'
    BY <1>a, <1>b, <1>5 DEF Facts, TypeOK, CriticalPcs, WallDraw
  <1>6. ASSUME NEW i \in Walls, WallCheck(i) PROVE Facts'
    BY <1>a, <1>b, <1>6 DEF Facts, TypeOK, CriticalPcs, WallCheck
  <1>7. ASSUME NEW g \in Golds, GoldTest(g) PROVE Facts'
    BY <1>a, <1>b, <1>7 DEF Facts, TypeOK, CriticalPcs, GoldTest
  <1>8. ASSUME NEW g \in Golds, GoldErase(g) PROVE Facts'
    BY <1>a, <1>b, <1>8 DEF Facts, TypeOK, CriticalPcs, GoldErase
  <1>9. ASSUME NEW g \in Golds, GoldMove(g) PROVE Facts'
    BY <1>a, <1>b, <1>9, NextColType DEF Facts, TypeOK, CriticalPcs, GoldMove
  <1>10. ASSUME NEW g \in Golds, GoldCollect(g) PROVE Facts'
    BY <1>a, <1>b, <1>10, CollectStep DEF Facts, TypeOK, CriticalPcs, GoldCollect
  <1>11. ASSUME NEW g \in Golds, GoldPlace(g) PROVE Facts'
    BY <1>a, <1>b, <1>11 DEF Facts, TypeOK, CriticalPcs, GoldPlace
  <1>12. CASE Print_map
    BY <1>a, <1>b, <1>12 DEF Facts, TypeOK, CriticalPcs, Print_map
  <1>13. CASE NoKey
    BY <1>a, <1>b, <1>13 DEF Facts, TypeOK, CriticalPcs, NoKey
  <1>14. ASSUME NEW k \in Keys, Key(k) PROVE Facts'
    BY <1>a, <1>b, <1>14 DEF Facts, TypeOK, CriticalPcs, Key
  <1>15. CASE InputErase
    BY <1>a, <1>b, <1>15 DEF Facts, TypeOK, CriticalPcs, InputErase
  <1>16. CASE InputMove
    <2>1. player_x \in Rows /\ player_y \in Cols
      BY <1>a DEF TypeOK
    <2>2. player_x' \in Rows
      <3> player_x' \in {player_x, player_x - 1, player_x + 1}
          /\ (player_x' = player_x - 1 => player_x > 1)
          /\ (player_x' = player_x + 1 => player_x < ROW - 2)
        BY <1>16, <2>1, SizeAssumption DEF InputMove, Rows
      <3> QED
        BY <2>1, SizeAssumption DEF Rows
    <2>3. player_y' \in Cols
      <3> player_y' \in {player_y, player_y - 1, player_y + 1}
          /\ (player_y' = player_y - 1 => player_y > 1)
          /\ (player_y' = player_y + 1 => player_y < COLUMN - 2)
        BY <1>16, <2>1, SizeAssumption DEF InputMove, Cols
      <3> QED
        BY <2>1, SizeAssumption DEF Cols
    <2> QED
      BY <1>a, <1>b, <1>16, <2>2, <2>3 DEF Facts, TypeOK, CriticalPcs, InputMove, Keys
  <1>17. CASE InputWalls
    BY <1>a, <1>b, <1>17 DEF Facts, TypeOK, CriticalPcs, InputWalls
  <1>18. CASE InputGolds
    <2>1. idx \in Golds /\ idx' \in Golds
      <3>1. idx \in Golds
        BY <1>a DEF TypeOK
      <3>2. idx' = IF idx = NUM_GOLD THEN 1 ELSE idx + 1
        BY <1>18 DEF InputGolds
      <3> QED
        BY <3>1, <3>2, SizeAssumption DEF Golds
    <2> QED
      BY <1>a, <1>b, <1>18, <2>1, CollectStep DEF Facts, TypeOK, CriticalPcs, InputGolds
  <1>19. CASE InputPlace
    BY <1>a, <1>b, <1>19 DEF Facts, TypeOK, CriticalPcs, InputPlace
  <1>20. ASSUME NEW t \in Threads, Create(t) PROVE Facts'
    BY <1>a, <1>b, <1>20 DEF Facts, TypeOK, CriticalPcs, Create
  <1>21. CASE Join
    BY <1>a, <1>b, <1>21 DEF Facts, TypeOK, CriticalPcs, Join
  <1>22. CASE Report
    BY <1>a, <1>b, <1>22 DEF Facts, TypeOK, CriticalPcs, Report
  <1>23. CASE UNCHANGED vars
    BY <1>a, <1>b, <1>23 DEF Facts, TypeOK, CriticalPcs, vars
  <1> QED
    BY <1>1, <1>2, <1>3, <1>4, <1>5, <1>6, <1>7, <1>8, <1>9, <1>10, <1>11, <1>12, <1>13, <1>14, <1>15, <1>16, <1>17, <1>18, <1>19, <1>20, <1>21, <1>22, <1>23, <1>a
       DEF Next, WallStep, GoldStep, PrinterStep, InputStep, MainStep, Exited

-----------------------------------------------------------------------------
\* The mutex: every action that enters a section takes it, every action that
\* leaves one gives it back.
LEMMA MutexStep == TypeOK /\ MutualExclusion /\ [Next]_vars => MutualExclusion'
  <1> SUFFICES ASSUME TypeOK, MutualExclusion, [Next]_vars PROVE MutualExclusion'
    OBVIOUS
  <1> USE DEF Goto, Lock, Unlock, CriticalPcs
  <1>a. /\ pc \in [Threads -> CriticalPcs \cup {"none", "test", "kbhit", "lock", "done"}]
        /\ map_mutex \in SUBSET Threads
        /\ MutualExclusion
        /\ Printer \in Threads /\ Input \in Threads
        /\ \A i \in Walls : WallThread(i) \in Threads
        /\ \A g \in Golds : GoldThread(g) \in Threads
    BY DEF TypeOK, Threads, WallThread, GoldThread, WallThreads, GoldThreads
  <1>1. ASSUME NEW t \in Threads, LoopTest(t) PROVE MutualExclusion'
    BY <1>a, <1>1 DEF MutualExclusion, LoopTest
  <1>2. ASSUME NEW t \in Threads, Acquire(t) PROVE MutualExclusion'
    BY <1>a, <1>2 DEF MutualExclusion, Acquire
  <1>3. ASSUME NEW i \in Walls, WallErase(i) PROVE MutualExclusion'
    BY <1>a, <1>3 DEF MutualExclusion, WallErase
  <1>4. ASSUME NEW i \in Walls, WallMove(i) PROVE MutualExclusion'
    BY <1>a, <1>4 DEF MutualExclusion, WallMove
  <1>5. ASSUME NEW i \in Walls, WallDraw(i) PROVE MutualExclusion'
    BY <1>a, <1>5 DEF MutualExclusion, WallDraw
  <1>6. ASSUME NEW i \in Walls, WallCheck(i) PROVE MutualExclusion'
    BY <1>a, <1>6 DEF MutualExclusion, WallCheck
  <1>7. ASSUME NEW g \in Golds, GoldTest(g) PROVE MutualExclusion'
    BY <1>a, <1>7 DEF MutualExclusion, GoldTest
  <1>8. ASSUME NEW g \in Golds, GoldErase(g) PROVE MutualExclusion'
    BY <1>a, <1>8 DEF MutualExclusion, GoldErase
  <1>9. ASSUME NEW g \in Golds, GoldMove(g) PROVE MutualExclusion'
    BY <1>a, <1>9 DEF MutualExclusion, GoldMove
  <1>10. ASSUME NEW g \in Golds, GoldCollect(g) PROVE MutualExclusion'
    BY <1>a, <1>10 DEF MutualExclusion, GoldCollect
  <1>11. ASSUME NEW g \in Golds, GoldPlace(g) PROVE MutualExclusion'
    BY <1>a, <1>11 DEF MutualExclusion, GoldPlace
  <1>12. CASE Print_map
    BY <1>a, <1>12 DEF MutualExclusion, Print_map
  <1>13. CASE NoKey
    BY <1>a, <1>13 DEF MutualExclusion, NoKey
  <1>14. ASSUME NEW k \in Keys, Key(k) PROVE MutualExclusion'
    BY <1>a, <1>14 DEF MutualExclusion, Key
  <1>15. CASE InputErase
    BY <1>a, <1>15 DEF MutualExclusion, InputErase
  <1>16. CASE InputMove
    BY <1>a, <1>16 DEF MutualExclusion, InputMove
  <1>17. CASE InputWalls
    BY <1>a, <1>17 DEF MutualExclusion, InputWalls
  <1>18. CASE InputGolds
    <2> PICK p \in {"place", "golds"} : pc' = [pc EXCEPT ![Input] = p]
      BY <1>18 DEF InputGolds
    <2> QED
      BY <1>a, <1>18 DEF MutualExclusion, InputGolds
  <1>19. CASE InputPlace
    BY <1>a, <1>19 DEF MutualExclusion, InputPlace
  <1>20. ASSUME NEW t \in Threads, Create(t) PROVE MutualExclusion'
    BY <1>a, <1>20 DEF MutualExclusion, Create
  <1>21. CASE Join
    BY <1>a, <1>21 DEF MutualExclusion, Join
  <1>22. CASE Report
    BY <1>a, <1>22 DEF MutualExclusion, Report
  <1>23. CASE UNCHANGED vars
    BY <1>a, <1>23 DEF MutualExclusion, vars
  <1> QED
    BY <1>1, <1>2, <1>3, <1>4, <1>5, <1>6, <1>7, <1>8, <1>9, <1>10, <1>11, <1>12, <1>13, <1>14, <1>15, <1>16, <1>17, <1>18, <1>19, <1>20, <1>21, <1>22, <1>23, <1>a
       DEF Next, WallStep, GoldStep, PrinterStep, InputStep, MainStep, Exited

-----------------------------------------------------------------------------
\* A step never restarts a game that has ended and never puts a shard back.
LEMMA EndStep ==
  ASSUME TypeOK, [Next]_vars
  PROVE  /\ game_status_code # RUNNING => game_status_code' # RUNNING
         /\ \A g \in Golds : collected[g] = 1 => collected'[g] = 1
  <1> DEFINE Goal == /\ game_status_code # RUNNING => game_status_code' # RUNNING
                     /\ \A g \in Golds : collected[g] = 1 => collected'[g] = 1
  <1> USE DEF score, RUNNING, WON, LOST, QUIT
  <1>a. /\ collected \in [Golds -> {0, 1}] /\ idx \in Golds
        /\ Printer \in Threads /\ Input \in Threads
        /\ \A i \in Walls : WallThread(i) \in Threads
        /\ \A g \in Golds : GoldThread(g) \in Threads
    BY DEF TypeOK, Threads, WallThread, GoldThread, WallThreads, GoldThreads
  <1>1. ASSUME NEW t \in Threads, LoopTest(t) PROVE Goal
    BY <1>a, <1>1 DEF LoopTest
  <1>2. ASSUME NEW t \in Threads, Acquire(t) PROVE Goal
    BY <1>a, <1>2 DEF Acquire
  <1>3. ASSUME NEW i \in Walls, WallErase(i) PROVE Goal
    BY <1>a, <1>3 DEF WallErase
  <1>4. ASSUME NEW i \in Walls, WallMove(i) PROVE Goal
    BY <1>a, <1>4 DEF WallMove
  <1>5. ASSUME NEW i \in Walls, WallDraw(i) PROVE Goal
    BY <1>a, <1>5 DEF WallDraw
  <1>6. ASSUME NEW i \in Walls, WallCheck(i) PROVE Goal
    BY <1>a, <1>6 DEF WallCheck
  <1>7. ASSUME NEW g \in Golds, GoldTest(g) PROVE Goal
    BY <1>a, <1>7 DEF GoldTest
  <1>8. ASSUME NEW g \in Golds, GoldErase(g) PROVE Goal
    BY <1>a, <1>8 DEF GoldErase
  <1>9. ASSUME NEW g \in Golds, GoldMove(g) PROVE Goal
    BY <1>a, <1>9 DEF GoldMove
  <1>10. ASSUME NEW g \in Golds, GoldCollect(g) PROVE Goal
    BY <1>a, <1>10 DEF GoldCollect, Collect, Reached
  <1>11. ASSUME NEW g \in Golds, GoldPlace(g) PROVE Goal
    BY <1>a, <1>11 DEF GoldPlace
  <1>12. CASE Print_map
    BY <1>a, <1>12 DEF Print_map
  <1>13. CASE NoKey
    BY <1>a, <1>13 DEF NoKey
  <1>14. ASSUME NEW k \in Keys, Key(k) PROVE Goal
    BY <1>a, <1>14 DEF Key
  <1>15. CASE InputErase
    BY <1>a, <1>15 DEF InputErase
  <1>16. CASE InputMove
    BY <1>a, <1>16 DEF InputMove
  <1>17. CASE InputWalls
    BY <1>a, <1>17 DEF InputWalls
  <1>18. CASE InputGolds
    BY <1>a, <1>18 DEF InputGolds, Collect, Reached
  <1>19. CASE InputPlace
    BY <1>a, <1>19 DEF InputPlace
  <1>20. ASSUME NEW t \in Threads, Create(t) PROVE Goal
    BY <1>a, <1>20 DEF Create
  <1>21. CASE Join
    BY <1>a, <1>21 DEF Join
  <1>22. CASE Report
    BY <1>a, <1>22 DEF Report
  <1>23. CASE UNCHANGED vars
    BY <1>a, <1>23 DEF vars
  <1> QED
    BY <1>1, <1>2, <1>3, <1>4, <1>5, <1>6, <1>7, <1>8, <1>9, <1>10, <1>11, <1>12, <1>13, <1>14, <1>15, <1>16, <1>17, <1>18, <1>19, <1>20, <1>21, <1>22, <1>23, <1>a
       DEF Next, WallStep, GoldStep, PrinterStep, InputStep, MainStep, Exited

-----------------------------------------------------------------------------
\* A game is won by taking the last shard, and only so.
LEMMA WonStep == Facts /\ WonMeansAll /\ [Next]_vars => WonMeansAll'
  <1> SUFFICES ASSUME Facts, WonMeansAll, [Next]_vars PROVE WonMeansAll'
    OBVIOUS
  <1>0. Facts'
    BY FactsStep
  <1>1. /\ collected \in [Golds -> {0, 1}] /\ collected' \in [Golds -> {0, 1}]
        /\ game_status_code # RUNNING => game_status_code' # RUNNING
        /\ \A g \in Golds : collected[g] = 1 => collected'[g] = 1
    BY <1>0, EndStep DEF Facts, TypeOK
  <1>2. Remaining' \subseteq Remaining
    BY <1>1 DEF Remaining
  \* The status becomes WON, and the last shard goes, in Collect alone.
  <1>3. ASSUME NEW g \in Golds, Reached(g), Collect(g) PROVE WonMeansAll'
    <2>1. shards_remaining' = Cardinality(Remaining') /\ IsFiniteSet(Remaining')
      BY <1>0, <1>1, RemainingFinite DEF Facts, ShardsAccounting, Remaining
    <2>2. shards_remaining' = 0 <=> Remaining' = {}
      BY <2>1, FS_EmptySet
    <2>3. /\ shards_remaining' = 0 => game_status_code' = WON
          /\ shards_remaining' # 0 => game_status_code' = game_status_code
      BY <1>3 DEF Collect
    <2> QED
      BY <1>1, <1>2, <2>2, <2>3 DEF WonMeansAll, RUNNING, WON
  <1>4. CASE /\ UNCHANGED collected
             /\ game_status_code' \in {game_status_code, LOST, QUIT}
    BY <1>4 DEF WonMeansAll, Remaining, RUNNING, WON, LOST, QUIT
  <1>5. \/ \E g \in Golds : Reached(g) /\ Collect(g)
        \/ UNCHANGED collected /\ game_status_code' \in {game_status_code, LOST, QUIT}
    <2> idx \in Golds
      BY DEF Facts, TypeOK
    <2> QED
      BY DEF Next, WallStep, GoldStep, PrinterStep, InputStep, MainStep, Exited,
             LoopTest, Acquire, WallErase, WallMove, WallDraw, WallCheck, GoldTest,
             GoldErase, GoldMove, GoldCollect, GoldPlace, Print_map, NoKey, Key,
             InputErase, InputMove, InputWalls, InputGolds, InputPlace, Create,
             Join, Report, vars, score
  <1> QED
    BY <1>3, <1>4, <1>5

-----------------------------------------------------------------------------
\* A shard's thread leaves a running game only behind its own, taken shard.
LEMMA FrozenStep ==
  Facts /\ WonMeansAll /\ NoFrozenShard /\ [Next]_vars => NoFrozenShard'
  <1> SUFFICES ASSUME Facts, WonMeansAll, NoFrozenShard, [Next]_vars,
                      NEW g \in Golds, pc'[GoldThread(g)] = "done",
                      game_status_code' = RUNNING
               PROVE  collected'[g] = 1
    BY DEF NoFrozenShard
  <1>1. /\ collected \in [Golds -> {0, 1}]
        /\ shards_remaining \in 0..NUM_GOLD
        /\ game_status_code = RUNNING
        /\ \A h \in Golds : collected[h] = 1 => collected'[h] = 1
    BY EndStep DEF Facts, TypeOK
  <1>2. shards_remaining > 0
    <2>1. Remaining # {}
      BY <1>1 DEF WonMeansAll
    <2>2. IsFiniteSet(Remaining) /\ shards_remaining = Cardinality(Remaining)
      BY <1>1, RemainingFinite DEF Facts, ShardsAccounting, Remaining
    <2>3. shards_remaining # 0
      BY <2>1, <2>2, FS_EmptySet
    <2> QED
      BY <1>1, <2>3
  <1>3. CASE pc[GoldThread(g)] = "done"
    BY <1>1, <1>3 DEF NoFrozenShard
  <1>4. CASE GoldTest(g)
    <2>1. pc'[GoldThread(g)] = "lock" \/ collected[g] # 0
      BY <1>1, <1>2, <1>4 DEF GoldTest, Goto, Facts, TypeOK, Threads,
                             GoldThreads, GoldThread
    <2> QED
      BY <1>1, <2>1
  \* No other action ends a shard's thread.
  <1>5. pc[GoldThread(g)] = "done" \/ GoldTest(g)
    <2> SUFFICES ASSUME ~ GoldTest(g) PROVE pc[GoldThread(g)] = "done"
      OBVIOUS
    <2> DEFINE G == GoldThread(g)
    <2>0. pc \in [Threads -> CriticalPcs \cup {"none", "test", "kbhit", "lock", "done"}]
      BY DEF Facts, TypeOK
    <2>1. \A t, p : t # G /\ pc' = [pc EXCEPT ![t] = p] => pc'[G] = pc[G]
      BY <2>0
    <2>2. /\ \A i \in Walls : WallThread(i) # G
          /\ \A h \in Golds : h # g => GoldThread(h) # G
          /\ Printer # G /\ Input # G /\ G \in Threads
      BY DEF WallThread, GoldThread, Printer, Input, Threads, GoldThreads
    <2> HIDE DEF G
    <2>3. CASE \E i \in Walls : WallStep(i)
      BY <2>1, <2>2, <2>3 DEF G, WallStep, LoopTest, Acquire, WallErase, WallMove,
                              WallDraw, WallCheck, Goto
    <2>4. CASE \E h \in Golds : GoldStep(h)
      <3> PICK h \in Golds : GoldStep(h)
        BY <2>4
      <3>1. CASE h # g
        BY <2>1, <2>2, <3>1 DEF G, GoldStep, GoldTest, Acquire, GoldErase, GoldMove,
                                GoldCollect, GoldPlace, Goto
      <3>2. CASE h = g
        BY <2>0, <2>2, <3>2 DEF G, GoldStep, Acquire, GoldErase, GoldMove,
                                GoldCollect, GoldPlace, Goto
      <3> QED
        BY <3>1, <3>2
    <2>5. CASE PrinterStep \/ InputStep
      BY <2>1, <2>2, <2>5 DEF G, PrinterStep, InputStep, LoopTest, Acquire, Print_map,
             NoKey, Key, InputErase, InputMove, InputWalls, InputGolds, InputPlace, Goto
    <2>6. CASE MainStep
      BY <2>0, <2>1, <2>2, <2>6 DEF G, MainStep, Create, Join, Report, Goto
    <2>7. CASE UNCHANGED vars
      BY <2>7 DEF vars
    <2> QED
      BY <2>3, <2>4, <2>5, <2>6, <2>7 DEF Next, Exited
  <1> QED
    BY <1>3, <1>4, <1>5

-----------------------------------------------------------------------------
(* The end of the game: contact with a wall, and the way out of main.      *)

\* The threads are different threads.
LEMMA ThreadNames ==
  /\ Printer \in Threads /\ Input \in Threads /\ Printer # Input
  /\ \A i \in Walls : WallThread(i) \in Threads /\ WallThread(i) \notin {Printer, Input}
  /\ \A g \in Golds : GoldThread(g) \in Threads /\ GoldThread(g) \notin {Printer, Input}
  /\ \A i \in Walls, g \in Golds : WallThread(i) # GoldThread(g)
  /\ \A i, j \in Walls : WallThread(i) = WallThread(j) => i = j
  /\ \A g, h \in Golds : GoldThread(g) = GoldThread(h) => g = h
  /\ \A t \in Threads : \/ t = Printer \/ t = Input
                        \/ \E i \in Walls : t = WallThread(i)
                        \/ \E g \in Golds : t = GoldThread(g)
  <1>1. /\ WallThreads = {WallThread(i) : i \in Walls}
        /\ GoldThreads = {GoldThread(g) : g \in Golds}
    BY DEF WallThreads, GoldThreads, WallThread, GoldThread
  <1>2. /\ Printer # Input
        /\ \A i \in Walls : WallThread(i) \notin {Printer, Input}
        /\ \A g \in Golds : GoldThread(g) \notin {Printer, Input}
    BY DEF Printer, Input, WallThread, GoldThread
  <1>3. /\ \A i \in Walls, g \in Golds : WallThread(i) # GoldThread(g)
        /\ \A i, j \in Walls : WallThread(i) = WallThread(j) => i = j
        /\ \A g, h \in Golds : GoldThread(g) = GoldThread(h) => g = h
    BY DEF WallThread, GoldThread
  <1>4. Threads = {Printer, Input} \cup {WallThread(i) : i \in Walls}
                    \cup {GoldThread(g) : g \in Golds}
    BY <1>1 DEF Threads
  <1> QED
    BY <1>2, <1>3, <1>4

\* The adventurer is on a wall in a running game only until the thread that
\* moved one of them has looked.
Contact ==
    \A i \in Walls : hits(i) /\ game_status_code = RUNNING =>
        pc[WallThread(i)] \in {"draw", "check"} \/ pc[Input] = "walls"

\* Of the places inside a section, those after its first step.
Inside == {"move", "draw", "check", "collect", "place", "walls", "golds"}

\* A step that enters or leaves a section, tests a loop, or is one of main.
Quiet ==
    /\ UNCHANGED <<board, score, idx>>
    /\ \A t \in Threads : pc'[t] = pc[t] \/ (pc[t] \notin Inside /\ pc'[t] \notin Inside)

\* A thread that goes on leaves the others where they are.
LEMMA GotoMoves ==
  ASSUME TypeOK, NEW t \in Threads, NEW from, NEW to, Goto(t, from, to)
  PROVE  pc[t] = from /\ pc'[t] = to /\ \A s \in Threads : s # t => pc'[s] = pc[s]
  BY DEF TypeOK, Goto

\* What a step can be, from the point of view of the map.
LEMMA StepKinds ==
  ASSUME TypeOK, [Next]_vars
  PROVE  \/ Quiet
         \/ \E i \in Walls : WallErase(i) \/ WallMove(i) \/ WallDraw(i) \/ WallCheck(i)
         \/ \E g \in Golds : GoldErase(g) \/ GoldMove(g) \/ GoldCollect(g) \/ GoldPlace(g)
         \/ InputErase \/ InputMove \/ InputWalls \/ InputGolds \/ InputPlace
  <1>0. /\ pc \in [Threads -> CriticalPcs \cup {"none", "test", "kbhit", "lock", "done"}]
        /\ Printer \in Threads /\ Input \in Threads
        /\ \A i \in Walls : WallThread(i) \in Threads
        /\ \A g \in Golds : GoldThread(g) \in Threads
    BY ThreadNames DEF TypeOK
  <1>1. ASSUME NEW t \in Threads, LoopTest(t) PROVE Quiet
    BY <1>0, <1>1 DEF LoopTest, Quiet, Inside, local
  <1>2. ASSUME NEW t \in Threads, Acquire(t) PROVE Quiet
    BY <1>0, <1>2 DEF Acquire, Quiet, Inside, local
  <1>3. ASSUME NEW g \in Golds, GoldTest(g) PROVE Quiet
    <2>1. PICK l \in {"lock", "done"} : Goto(GoldThread(g), "test", l)
      BY <1>3 DEF GoldTest
    <2>2. UNCHANGED <<board, score, idx>>
      BY <1>3 DEF GoldTest, local
    <2> QED
      BY <1>0, <2>1, <2>2 DEF Goto, Quiet, Inside
  <1>4. CASE Print_map
    BY <1>0, <1>4 DEF Print_map, Goto, Quiet, Inside, local
  <1>5. CASE NoKey
    BY <1>0, <1>5 DEF NoKey, Goto, Quiet, Inside, local
  <1>6. ASSUME NEW k \in Keys, Key(k) PROVE Quiet
    BY <1>0, <1>6 DEF Key, Goto, Quiet, Inside
  <1>7. ASSUME NEW t \in Threads, Create(t) PROVE Quiet
    BY <1>0, <1>7 DEF Create, Goto, Quiet, Inside, local
  <1>8. CASE Join \/ Report \/ UNCHANGED vars
    BY <1>8 DEF Join, Report, vars, Quiet, local
  <1> QED
    BY <1>0, <1>1, <1>2, <1>3, <1>4, <1>5, <1>6, <1>7, <1>8
       DEF Next, WallStep, GoldStep, PrinterStep, InputStep, MainStep, Exited

\* A wall or the adventurer moves into the other: the thread that moved looks
\* before it leaves its section.
LEMMA ContactStep == TypeOK /\ Contact /\ [Next]_vars => Contact'
  <1> SUFFICES ASSUME TypeOK, Contact, [Next]_vars,
                      NEW i \in Walls, hits(i)', game_status_code' = RUNNING
               PROVE  pc'[WallThread(i)] \in {"draw", "check"} \/ pc'[Input] = "walls"
    BY DEF Contact
  <1>0. /\ game_status_code = RUNNING
        /\ hits(i) => pc[WallThread(i)] \in {"draw", "check"} \/ pc[Input] = "walls"
        /\ WallThread(i) \in Threads /\ Input \in Threads /\ WallThread(i) # Input
        /\ wallCol \in [Walls -> Cols]
    BY EndStep, ThreadNames DEF Contact, TypeOK
  <1> DEFINE Stay == UNCHANGED <<player_x, player_y, wallCol>>
             W == WallThread(i)
  <1>1. Stay => hits(i)
    BY DEF hits
  <1> HIDE DEF W
  <1>2. CASE Quiet
    BY <1>0, <1>1, <1>2 DEF Quiet, Inside, board, W
  <1>3. ASSUME NEW j \in Walls, WallErase(j) \/ WallDraw(j)
        PROVE  pc'[W] \in {"draw", "check"} \/ pc'[Input] = "walls"
    <2>1. PICK from \in {"erase", "draw"}, to \in {"move", "check"} :
              Goto(WallThread(j), from, to) /\ (from = "draw" => to = "check")
      BY <1>3 DEF WallErase, WallDraw
    <2>2. hits(i)
      BY <1>1, <1>3 DEF WallErase, WallDraw
    <2> QED
      BY <1>0, <2>1, <2>2, GotoMoves, ThreadNames DEF W
  <1>4. ASSUME NEW j \in Walls, WallMove(j)
        PROVE  pc'[W] \in {"draw", "check"} \/ pc'[Input] = "walls"
    <2>1. /\ pc'[WallThread(j)] = "draw"
          /\ \A s \in Threads : s # WallThread(j) => pc'[s] = pc[s]
      BY <1>4, GotoMoves, ThreadNames DEF WallMove
    <2>2. CASE j = i
      BY <2>1, <2>2 DEF W
    <2>3. CASE j # i
      <3>1. hits(i)
        BY <1>0, <1>4, <2>3 DEF WallMove, hits
      <3> QED
        BY <1>0, <2>1, <2>3, <3>1, ThreadNames DEF W
    <2> QED
      BY <2>2, <2>3
  <1>5. ASSUME NEW j \in Walls, WallCheck(j)
        PROVE  pc'[W] \in {"draw", "check"} \/ pc'[Input] = "walls"
    <2>1. hits(i)
      BY <1>1, <1>5 DEF WallCheck, board
    <2>2. j # i
      BY <1>5, <2>1 DEF WallCheck, RUNNING, LOST
    <2>3. \A s \in Threads : s # WallThread(j) => pc'[s] = pc[s]
      BY <1>5, GotoMoves, ThreadNames DEF WallCheck
    <2> QED
      BY <1>0, <2>1, <2>2, <2>3, ThreadNames DEF W
  <1>6. ASSUME NEW g \in Golds, GoldErase(g) \/ GoldMove(g) \/ GoldCollect(g) \/ GoldPlace(g)
        PROVE  pc'[W] \in {"draw", "check"} \/ pc'[Input] = "walls"
    <2>1. hits(i)
      BY <1>1, <1>6 DEF GoldErase, GoldMove, GoldCollect, GoldPlace, board
    <2>2. \E from, to : Goto(GoldThread(g), from, to)
      BY <1>6 DEF GoldErase, GoldMove, GoldCollect, GoldPlace
    <2>3. \A s \in Threads : s # GoldThread(g) => pc'[s] = pc[s]
      BY <2>2, GotoMoves, ThreadNames
    <2> QED
      BY <1>0, <2>1, <2>3, ThreadNames DEF W
  <1>7. CASE InputMove
    BY <1>7, ThreadNames, GotoMoves DEF InputMove
  <1>8. CASE InputWalls
    BY <1>1, <1>8 DEF InputWalls, board, RUNNING, LOST
  <1>9. CASE InputErase \/ InputGolds \/ InputPlace
    <2>1. hits(i)
      BY <1>1, <1>9 DEF InputErase, InputGolds, InputPlace
    <2>2. pc[Input] # "walls"
      BY <1>9 DEF InputErase, InputGolds, InputPlace, Goto
    <2>3. \E l : pc' = [pc EXCEPT ![Input] = l]
      BY <1>9 DEF InputErase, InputGolds, InputPlace, Goto
    <2> QED
      BY <1>0, <2>1, <2>2, <2>3 DEF W, TypeOK
  <1> QED
    BY <1>2, <1>3, <1>4, <1>5, <1>6, <1>7, <1>8, <1>9, StepKinds DEF W

\* The printer returns from a game that is over; main leaves its joins with every
\* thread at its end, and what it prints is how the game ended.
Ending ==
    /\ pc[Printer] = "done" => game_status_code # RUNNING
    /\ main \in {"report", "destroyed"} => \A t \in Threads : pc[t] = "done"
    /\ main = "destroyed" => /\ verdict # "none"
                             /\ verdict = "You win" => game_status_code = WON

\* A thread that has returned takes no step, and no thread returns but from its
\* loop test.
LEMMA DoneSteps ==
  ASSUME TypeOK, [Next]_vars
  PROVE  /\ \A t \in Threads : pc[t] = "done" => pc'[t] = "done"
         /\ \A t \in Threads : pc'[t] = "done" => \/ pc[t] = "done" \/ LoopTest(t)
                                                \/ \E g \in Golds : t = GoldThread(g)
         /\ (\A t \in Threads : pc[t] = "done") => UNCHANGED score
  <1>0. /\ Printer \in Threads /\ Input \in Threads
        /\ \A i \in Walls : WallThread(i) \in Threads
        /\ \A g \in Golds : GoldThread(g) \in Threads
    BY ThreadNames
  <1> DEFINE Ends(t) == LoopTest(t) \/ \E g \in Golds : t = GoldThread(g)
             Moves(t) == /\ pc[t] # "done" /\ (pc'[t] = "done" => Ends(t))
                         /\ \A s \in Threads : s # t => pc'[s] = pc[s]
             Goal == (\E t \in Threads : Moves(t)) \/ (UNCHANGED pc /\ UNCHANGED score)
  <1> SUFFICES Goal
    OBVIOUS
  <1>1. ASSUME NEW t \in Threads, NEW from, NEW to, Goto(t, from, to),
               from # "done", to # "done" \/ Ends(t)
        PROVE  Goal
    <2>1. Moves(t)
      BY <1>1, GotoMoves
    <2> QED
      BY <2>1
  <1> HIDE DEF Goal
  <1>2. ASSUME NEW t \in Threads, LoopTest(t) PROVE Goal
    <2>1. PICK l : Goto(t, "test", l)
      BY <1>2 DEF LoopTest, Goto
    <2> QED
      BY <1>1, <1>2, <2>1
  <1>3. ASSUME NEW t \in Threads, Acquire(t) PROVE Goal
    <2>1. PICK l \in {"print", "erase"} : Goto(t, "lock", l)
      BY <1>3 DEF Acquire, Goto
    <2> QED
      BY <1>1, <2>1
  <1>4. ASSUME NEW i \in Walls, WallErase(i) \/ WallMove(i) \/ WallDraw(i) \/ WallCheck(i)
        PROVE Goal
    <2>1. PICK from \in Inside \cup {"erase"}, to \in Inside \cup {"test"} :
              Goto(WallThread(i), from, to)
      BY <1>4 DEF WallErase, WallMove, WallDraw, WallCheck, Inside
    <2> QED
      BY <1>0, <1>1, <2>1 DEF Inside
  <1>5. ASSUME NEW g \in Golds,
               GoldTest(g) \/ GoldErase(g) \/ GoldMove(g) \/ GoldCollect(g) \/ GoldPlace(g)
        PROVE Goal
    <2>1. PICK from \in Inside \cup {"erase", "test"} :
              \E to : Goto(GoldThread(g), from, to)
      BY <1>5 DEF GoldTest, GoldErase, GoldMove, GoldCollect, GoldPlace, Inside
    <2> QED
      BY <1>0, <1>1, <2>1 DEF Inside
  <1>6. CASE Print_map
    BY <1>0, <1>1, <1>6 DEF Print_map
  <1>7. CASE \/ NoKey \/ (\E k \in Keys : Key(k))
             \/ InputErase \/ InputMove \/ InputWalls \/ InputGolds \/ InputPlace
    <2>1. \E from \in Inside \cup {"kbhit", "erase"}, to \in Inside \cup {"test", "lock"} :
              Goto(Input, from, to)
      BY <1>7 DEF NoKey, Key, InputErase, InputMove, InputWalls, InputGolds, InputPlace,
                  Goto, Inside
    <2> QED
      BY <1>0, <1>1, <2>1 DEF Inside
  <1>8. ASSUME NEW t \in Threads, Create(t) PROVE Goal
    BY <1>1, <1>8 DEF Create
  <1>9. CASE Join \/ Report \/ UNCHANGED vars
    BY <1>9 DEF Join, Report, vars, Goal
  <1>10. CASE PrinterStep \/ InputStep
    BY <1>0, <1>2, <1>3, <1>6, <1>7, <1>10 DEF PrinterStep, InputStep
  <1> QED
    BY <1>0, <1>2, <1>3, <1>4, <1>5, <1>8, <1>9, <1>10
       DEF Next, WallStep, GoldStep, MainStep, Exited

\* main goes on when it has created all threads, when they have returned, and when
\* it has printed the result.
LEMMA MainSteps ==
  ASSUME TypeOK, [Next]_vars
  PROVE  \/ UNCHANGED <<main, verdict>>
         \/ main = "create" /\ main' \in {"create", "join"}
         \/ Join
         \/ Report
  <1>1. \/ UNCHANGED proc
        \/ \E t \in Threads : Create(t)
        \/ Join
        \/ Report
    BY DEF Next, WallStep, GoldStep, PrinterStep, InputStep, MainStep, Exited,
           LoopTest, Acquire, WallErase, WallMove, WallDraw, WallCheck, GoldTest,
           GoldErase, GoldMove, GoldCollect, GoldPlace, Print_map, NoKey, Key,
           InputErase, InputMove, InputWalls, InputGolds, InputPlace, vars
  <1>2. ASSUME NEW t \in Threads, Create(t)
        PROVE  main = "create" /\ main' \in {"create", "join"}
    BY <1>2 DEF Create
  <1> QED
    BY <1>1, <1>2 DEF proc

\* Once main is past its joins no thread is left to change what it reports.
LEMMA EndingStep == TypeOK /\ Ending /\ [Next]_vars => Ending'
  <1> SUFFICES ASSUME TypeOK, Ending, [Next]_vars PROVE Ending'
    OBVIOUS
  <1>0. Printer \in Threads /\ \A g \in Golds : Printer # GoldThread(g)
    BY ThreadNames
  <1>1. pc'[Printer] = "done" => game_status_code' # RUNNING
    <2>1. SUFFICES ASSUME pc'[Printer] = "done" PROVE game_status_code' # RUNNING
      OBVIOUS
    <2>2. CASE pc[Printer] = "done"
      BY <2>2, EndStep DEF Ending
    <2>3. CASE LoopTest(Printer)
      BY <1>0, <2>1, <2>3 DEF LoopTest, TypeOK, score
    <2> QED
      BY <1>0, <2>1, <2>2, <2>3, DoneSteps
  <1>2. ASSUME main' \in {"report", "destroyed"} PROVE \A t \in Threads : pc[t] = "done"
    <2>1. main \in {"report", "destroyed"} \/ Join
      BY <1>2, MainSteps DEF Report
    <2> QED
      BY <2>1 DEF Ending, Join
  <1>3. main' \in {"report", "destroyed"} => \A t \in Threads : pc'[t] = "done"
    BY <1>2, DoneSteps
  <1>4. ASSUME main' = "destroyed"
        PROVE  verdict' # "none" /\ (verdict' = "You win" => game_status_code' = WON)
    <2>1. /\ \A t \in Threads : pc[t] = "done"
          /\ game_status_code' = game_status_code
          /\ game_status_code \in {WON, LOST, QUIT}
      BY <1>0, <1>2, <1>4, DoneSteps DEF score, Ending, TypeOK
    <2>2. CASE UNCHANGED <<main, verdict>>
      BY <1>4, <2>1, <2>2 DEF Ending
    <2>3. CASE Report
      BY <2>1, <2>3 DEF Report, WON, LOST, QUIT
    <2> QED
      BY <1>4, <2>2, <2>3, MainSteps DEF Join
  <1> QED
    BY <1>1, <1>3, <1>4 DEF Ending

-----------------------------------------------------------------------------
(* The map.  While a thread is in the middle of its section, what it moves *)
(* has been erased and is not drawn yet.                                   *)

WallLifted(i) == pc[WallThread(i)] \in {"move", "draw"}
GoldLifted(g) == pc[GoldThread(g)] \in {"move", "collect", "place"}
PlayerLifted  == pc[Input] \in {"move", "walls", "golds", "place"}

BorderDrawn == \A p \in Grid : map_grid[p] = BORDER <=> p \notin Rows \X Cols
WallsDrawn ==
    \A p \in Grid : map_grid[p] = WALL_CHAR =>
        \E i \in Walls : ~WallLifted(i) /\ p \in wallCells(i, wallCol[i])
PlayerDrawn ==
    \A p \in Grid : map_grid[p] = ADVENTURER => p = playerCell /\ ~PlayerLifted
GoldsDrawn ==
    \A p \in Grid : map_grid[p] = GOLD_CHAR =>
        \E g \in Remaining : ~GoldLifted(g) /\ p = goldCell(g)
GoldsThere ==
    \A g \in Remaining : ~GoldLifted(g) => map_grid[goldCell(g)] = GOLD_CHAR

\* The adventurer stands on a shard that is left only until the thread that moved
\* one of them has looked; the input thread looks at one shard after the other.
Looking ==
    /\ pc[Input] # "golds" => idx = 1
    /\ \A g \in Golds : Reached(g) =>
          \/ pc[GoldThread(g)] = "collect"
          \/ pc[Input] = "walls"
          \/ pc[Input] = "golds" /\ idx <= g

Picture ==
    BorderDrawn /\ WallsDrawn /\ PlayerDrawn /\ GoldsDrawn /\ GoldsThere /\ Looking

\* Walls, shards and the adventurer are inside the border (the drawing loop of a
\* wall wraps there), and a wall and a shard are never in one row.
LEMMA Cells ==
  /\ Rows \X Cols \subseteq Grid
  /\ \A i \in Walls, c \in Cols :
        /\ wallCells(i, c) \subseteq Rows \X Cols
        /\ \A p \in wallCells(i, c) : p[1] = wall_rows[i]
  /\ \A i, j \in Walls, c, d \in Cols : i # j => wallCells(i, c) \cap wallCells(j, d) = {}
  /\ \A g \in Golds, c \in Cols : <<gold_rows[g], c>> \in Rows \X Cols
  /\ \A g, h \in Golds, c, d \in Cols : g # h => <<gold_rows[g], c>> # <<gold_rows[h], d>>
  /\ \A i \in Walls, g \in Golds, c, d \in Cols : <<gold_rows[g], d>> \notin wallCells(i, c)
  <1>1. Rows \X Cols \subseteq Grid
    BY SizeAssumption DEF Rows, Cols, Grid
  <1>2. ASSUME NEW c \in Cols, NEW j \in 0..(WALL_LEN - 1) PROVE wrapCol(c + j) \in Cols
    BY <1>2, SizeAssumption DEF wrapCol, Cols
  <1>3. ASSUME NEW i \in Walls, NEW c \in Cols
        PROVE  /\ wallCells(i, c) \subseteq Rows \X Cols
               /\ \A p \in wallCells(i, c) : p[1] = wall_rows[i]
    <2>1. wall_rows[i] \in Rows
      BY RowAssumption
    <2>2. SUFFICES ASSUME NEW p \in wallCells(i, c)
                   PROVE  p \in Rows \X Cols /\ p[1] = wall_rows[i]
      OBVIOUS
    <2>3. PICK j \in 0..(WALL_LEN - 1) : p = <<wall_rows[i], wrapCol(c + j)>>
      BY <2>2 DEF wallCells
    <2> QED
      BY <1>2, <2>1, <2>3
  <1>4. \A i, j \in Walls, c, d \in Cols : i # j => wallCells(i, c) \cap wallCells(j, d) = {}
    BY <1>3, RowAssumption
  <1>5. \A g \in Golds, c \in Cols : <<gold_rows[g], c>> \in Rows \X Cols
    BY RowAssumption
  <1>6. \A g, h \in Golds, c, d \in Cols : g # h => <<gold_rows[g], c>> # <<gold_rows[h], d>>
    BY RowAssumption
  <1>7. ASSUME NEW i \in Walls, NEW g \in Golds, NEW c \in Cols, NEW d \in Cols,
               <<gold_rows[g], d>> \in wallCells(i, c)
        PROVE  FALSE
    <2>1. <<gold_rows[g], d>>[1] = wall_rows[i]
      BY <1>3, <1>7
    <2> QED
      BY <2>1, RowAssumption
  <1> QED
    BY <1>1, <1>3, <1>4, <1>5, <1>6, <1>7

\* The initial map shows what is there.
LEMMA PictureInit == Init => Picture
  <1> SUFFICES ASSUME Init PROVE Picture
    OBVIOUS
  <1>0. TypeOK
    BY InitRules DEF Rules, Facts
  <1>1. /\ \A t \in Threads : pc[t] = "none"
        /\ idx = 1 /\ Remaining = Golds /\ playerCell = <<START_X, START_Y>>
        /\ playerCell \in Rows \X Cols
        /\ wallCol \in [Walls -> Cols] /\ goldCol \in [Golds -> Cols]
    BY <1>0, RowAssumption DEF Init, init_golds, Remaining, playerCell, TypeOK
  <1>2. \A p \in Grid : map_grid[p] =
            IF \E i \in Walls : p \in wallCells(i, wallCol[i]) THEN WALL_CHAR
            ELSE IF \E g \in Golds : p = goldCell(g) THEN GOLD_CHAR
            ELSE IF p \in Rows \X Cols
                 THEN IF p = playerCell THEN ADVENTURER ELSE EMPTY
                 ELSE BORDER
    <2>1. SUFFICES ASSUME NEW p \in Grid
                   PROVE  map_grid[p] =
                            IF \E i \in Walls : p \in wallCells(i, wallCol[i]) THEN WALL_CHAR
                            ELSE IF \E g \in Golds : p = goldCell(g) THEN GOLD_CHAR
                            ELSE IF p \in Rows \X Cols
                                 THEN IF p = playerCell THEN ADVENTURER ELSE EMPTY
                                 ELSE BORDER
      OBVIOUS
    <2>2. init_map[p] = IF p \in Rows \X Cols
                        THEN IF p = playerCell THEN ADVENTURER ELSE EMPTY
                        ELSE BORDER
      <3>1. p = <<p[1], p[2]>>
        BY <2>1 DEF Grid
      <3>2. p \in Rows \X Cols <=> p[1] \in Rows /\ p[2] \in Cols
        BY <3>1
      <3> QED
        BY <1>1, <3>2 DEF init_map
    <2>3. map_grid = initialGrid
      BY DEF Init
    <2> QED
      BY <2>2, <2>3 DEF initialGrid, goldCell
  <1>3. \A i \in Walls : ~WallLifted(i)
    BY <1>1, ThreadNames DEF WallLifted
  <1>4. \A g \in Golds : ~GoldLifted(g)
    BY <1>1, ThreadNames DEF GoldLifted
  <1>5. ~PlayerLifted /\ pc[Input] = "none"
    BY <1>1, ThreadNames DEF PlayerLifted
  <1>6. /\ \A i \in Walls : wallCells(i, wallCol[i]) \subseteq Rows \X Cols
        /\ \A g \in Golds : goldCell(g) \in Rows \X Cols
        /\ \A i \in Walls, g \in Golds : goldCell(g) \notin wallCells(i, wallCol[i])
        /\ Rows \X Cols \subseteq Grid
    BY <1>1, Cells DEF goldCell
  <1>7. BorderDrawn
    <2> DEFINE Interior == Rows \X Cols
    <2>1. /\ \A i \in Walls : wallCells(i, wallCol[i]) \subseteq Interior
          /\ \A g \in Golds : goldCell(g) \in Interior
          /\ playerCell \in Interior
      BY <1>1, <1>6
    <2>2. ASSUME NEW p \in Grid
          PROVE  map_grid[p] \in IF p \in Interior
                                 THEN {WALL_CHAR, GOLD_CHAR, ADVENTURER, EMPTY} ELSE {BORDER}
      <3>1. CASE \E i \in Walls : p \in wallCells(i, wallCol[i])
        BY <1>2, <2>1, <3>1
      <3>2. CASE (\A i \in Walls : p \notin wallCells(i, wallCol[i]))
                 /\ \E g \in Golds : p = goldCell(g)
        BY <1>2, <2>1, <3>2
      <3>3. CASE (\A i \in Walls : p \notin wallCells(i, wallCol[i]))
                 /\ \A g \in Golds : p # goldCell(g)
        BY <1>2, <3>3
      <3> QED
        BY <3>1, <3>2, <3>3
    <2> QED
      BY <2>2 DEF BorderDrawn, BORDER, WALL_CHAR, GOLD_CHAR, ADVENTURER, EMPTY
  <1>8. WallsDrawn
    BY <1>2, <1>3 DEF WallsDrawn, BORDER, WALL_CHAR, GOLD_CHAR, ADVENTURER, EMPTY
  <1>9. PlayerDrawn
    BY <1>2, <1>5 DEF PlayerDrawn, BORDER, WALL_CHAR, GOLD_CHAR, ADVENTURER, EMPTY
  <1>10. GoldsDrawn
    BY <1>1, <1>2, <1>4 DEF GoldsDrawn, BORDER, WALL_CHAR, GOLD_CHAR, ADVENTURER, EMPTY
  <1>11. GoldsThere
    BY <1>1, <1>2, <1>6 DEF GoldsThere
  <1>12. Looking
    <2>1. \A g \in Golds : ~Reached(g)
      BY RowAssumption DEF Reached, Init
    <2> QED
      BY <1>1, <2>1 DEF Looking
  <1> QED
    BY <1>7, <1>8, <1>9, <1>10, <1>11, <1>12 DEF Picture

\* The thread is where it was, or at no place where the map depends on it.
Still(t) == pc'[t] = pc[t] \/ (pc[t] \notin Inside /\ pc'[t] \notin Inside)

\* What the steps of a thread leave alone stays as it is drawn.
LEMMA Kept ==
  ASSUME Picture
  PROVE  /\ UNCHANGED map_grid => BorderDrawn'
         /\ /\ UNCHANGED wallCol /\ \A i \in Walls : Still(WallThread(i))
            /\ \A p \in Grid : map_grid'[p] = WALL_CHAR => map_grid[p] = WALL_CHAR
            => WallsDrawn'
         /\ /\ UNCHANGED <<player_x, player_y>> /\ Still(Input)
            /\ \A p \in Grid : map_grid'[p] = ADVENTURER => map_grid[p] = ADVENTURER
            => PlayerDrawn'
         /\ /\ UNCHANGED <<goldCol, collected>> /\ \A g \in Golds : Still(GoldThread(g))
            /\ \A p \in Grid : map_grid'[p] = GOLD_CHAR => map_grid[p] = GOLD_CHAR
            => GoldsDrawn'
         /\ /\ UNCHANGED <<goldCol, collected>> /\ \A g \in Golds : Still(GoldThread(g))
            /\ \A g \in Remaining : map_grid'[goldCell(g)] = map_grid[goldCell(g)]
            => GoldsThere'
         /\ /\ UNCHANGED <<player_x, player_y, goldCol, collected, idx>>
            /\ Still(Input) /\ \A g \in Golds : Still(GoldThread(g))
            => Looking'
  <1>1. UNCHANGED map_grid => BorderDrawn'
    BY DEF Picture, BorderDrawn
  <1>2. ASSUME UNCHANGED wallCol, \A i \in Walls : Still(WallThread(i)),
               \A p \in Grid : map_grid'[p] = WALL_CHAR => map_grid[p] = WALL_CHAR
        PROVE  WallsDrawn'
    <2>1. \A i \in Walls : WallLifted(i)' <=> WallLifted(i)
      BY <1>2 DEF Still, Inside, WallLifted
    <2>2. \A i \in Walls : wallCells(i, wallCol[i])' = wallCells(i, wallCol[i])
      BY <1>2 DEF wallCells, wrapCol
    <2> QED
      BY <1>2, <2>1, <2>2 DEF Picture, WallsDrawn
  <1>3. ASSUME UNCHANGED <<player_x, player_y>>, Still(Input),
               \A p \in Grid : map_grid'[p] = ADVENTURER => map_grid[p] = ADVENTURER
        PROVE  PlayerDrawn'
    <2>1. PlayerLifted' <=> PlayerLifted
      BY <1>3 DEF Still, Inside, PlayerLifted
    <2> QED
      BY <1>3, <2>1 DEF Picture, PlayerDrawn, playerCell
  <1>4. ASSUME UNCHANGED <<goldCol, collected>>, \A g \in Golds : Still(GoldThread(g))
        PROVE  /\ \A g \in Golds : GoldLifted(g)' <=> GoldLifted(g)
               /\ \A g \in Golds : goldCell(g)' = goldCell(g)
               /\ Remaining' = Remaining
    BY <1>4 DEF Still, Inside, GoldLifted, goldCell, Remaining
  <1>5. ASSUME UNCHANGED <<goldCol, collected>>, \A g \in Golds : Still(GoldThread(g)),
               \A p \in Grid : map_grid'[p] = GOLD_CHAR => map_grid[p] = GOLD_CHAR
        PROVE  GoldsDrawn'
    BY <1>4, <1>5 DEF Picture, GoldsDrawn, Remaining
  <1>6. ASSUME UNCHANGED <<goldCol, collected>>, \A g \in Golds : Still(GoldThread(g)),
               \A g \in Remaining : map_grid'[goldCell(g)] = map_grid[goldCell(g)]
        PROVE  GoldsThere'
    BY <1>4, <1>6 DEF Picture, GoldsThere, Remaining
  <1>7. ASSUME UNCHANGED <<player_x, player_y, goldCol, collected, idx>>,
               Still(Input), \A g \in Golds : Still(GoldThread(g))
        PROVE  Looking'
    <2>1. \A g \in Golds : Reached(g)' <=> Reached(g)
      BY <1>7 DEF Reached
    <2> QED
      BY <1>7, <2>1 DEF Picture, Looking, Still, Inside
  <1> QED
    BY <1>1, <1>2, <1>3, <1>5, <1>6, <1>7

\* A step that is nobody's work on the map changes nothing of it.
LEMMA PictureQuiet == Picture /\ Quiet => Picture'
  <1> SUFFICES ASSUME Picture, Quiet PROVE Picture'
    OBVIOUS
  <1>1. \A t \in Threads : Still(t)
    BY DEF Quiet, Still
  <1>2. /\ UNCHANGED <<map_grid, player_x, player_y, wallCol, goldCol, collected, idx>>
    BY DEF Quiet, board, score
  <1>3. /\ Still(Input) /\ \A i \in Walls : Still(WallThread(i))
        /\ \A g \in Golds : Still(GoldThread(g))
    BY <1>1, ThreadNames
  <1> QED
    BY <1>2, <1>3, Kept DEF Picture

\* In a wall's step no other thread moves.
LEMMA WallGoes ==
  ASSUME TypeOK, NEW i \in Walls, NEW from, NEW to, Goto(WallThread(i), from, to)
  PROVE  /\ pc[WallThread(i)] = from /\ pc'[WallThread(i)] = to
         /\ \A j \in Walls : j # i => Still(WallThread(j)) /\ pc'[WallThread(j)] = pc[WallThread(j)]
         /\ \A g \in Golds : Still(GoldThread(g))
         /\ Still(Input)
  BY GotoMoves, ThreadNames DEF Still

\* In a shard's step no other thread moves.
LEMMA GoldGoes ==
  ASSUME TypeOK, NEW g \in Golds, NEW from, NEW to, Goto(GoldThread(g), from, to)
  PROVE  /\ pc[GoldThread(g)] = from /\ pc'[GoldThread(g)] = to
         /\ \A h \in Golds : h # g => Still(GoldThread(h)) /\ pc'[GoldThread(h)] = pc[GoldThread(h)]
         /\ \A i \in Walls : Still(WallThread(i))
         /\ Still(Input) /\ pc'[Input] = pc[Input]
  BY GotoMoves, ThreadNames DEF Still

\* In a step of the input thread no other thread moves.
LEMMA InputGoes ==
  ASSUME TypeOK, NEW from, NEW to, Goto(Input, from, to)
  PROVE  /\ pc[Input] = from /\ pc'[Input] = to
         /\ \A i \in Walls : Still(WallThread(i))
         /\ \A g \in Golds : Still(GoldThread(g)) /\ pc'[GoldThread(g)] = pc[GoldThread(g)]
  BY GotoMoves, ThreadNames DEF Still

\* What the threads have moved is where it can be drawn.
LEMMA BoardCells ==
  ASSUME TypeOK
  PROVE  /\ playerCell \in Rows \X Cols /\ Rows \X Cols \subseteq Grid
         /\ \A g \in Golds : goldCell(g) \in Rows \X Cols /\ goldCell(g) \in Grid
         /\ \A g, h \in Golds : g # h => goldCell(g) # goldCell(h)
         /\ \A i \in Walls : wallCells(i, wallCol[i]) \subseteq Rows \X Cols
         /\ \A i, j \in Walls : i # j =>
               wallCells(i, wallCol[i]) \cap wallCells(j, wallCol[j]) = {}
         /\ \A i \in Walls, g \in Golds : goldCell(g) \notin wallCells(i, wallCol[i])
  <1>1. /\ player_x \in Rows /\ player_y \in Cols
        /\ wallCol \in [Walls -> Cols] /\ goldCol \in [Golds -> Cols]
    BY DEF TypeOK
  <1> QED
    BY <1>1, Cells DEF playerCell, goldCell

\* A wall is erased.
LEMMA PictureWallErase ==
  ASSUME TypeOK, Picture, NEW i \in Walls, WallErase(i)
  PROVE  Picture'
  <1>1. /\ \A p \in Grid : map_grid'[p] = IF p \in wallCells(i, wallCol[i]) THEN EMPTY
                                          ELSE map_grid[p]
        /\ UNCHANGED <<player_x, player_y, wallCol, goldCol, collected, idx>>
    BY DEF WallErase, score, local
  <1>2. /\ pc'[WallThread(i)] = "move" /\ Still(Input)
        /\ \A j \in Walls : j # i => pc'[WallThread(j)] = pc[WallThread(j)]
        /\ \A g \in Golds : Still(GoldThread(g))
    BY WallGoes DEF WallErase
  <1>3. \A p \in Grid : /\ map_grid'[p] = ADVENTURER => map_grid[p] = ADVENTURER
                        /\ map_grid'[p] = GOLD_CHAR => map_grid[p] = GOLD_CHAR
    BY <1>1 DEF EMPTY, ADVENTURER, GOLD_CHAR
  <1>4. \A g \in Remaining : map_grid'[goldCell(g)] = map_grid[goldCell(g)]
    BY <1>1, BoardCells DEF Remaining
  <1>5. BorderDrawn'
    <2>1. \A p \in Grid : p \in wallCells(i, wallCol[i]) => p \in Rows \X Cols
      BY BoardCells
    <2>2. \A p \in Grid : map_grid'[p] = BORDER <=> map_grid[p] = BORDER
      BY <1>1, <2>1 DEF Picture, BorderDrawn, EMPTY, BORDER
    <2> QED
      BY <2>2 DEF Picture, BorderDrawn
  <1>6. WallsDrawn'
    <2>1. SUFFICES ASSUME NEW p \in Grid, map_grid'[p] = WALL_CHAR
                   PROVE  \E j \in Walls : ~WallLifted(j)' /\ p \in wallCells(j, wallCol[j])
      BY <1>1 DEF WallsDrawn, wallCells, wrapCol
    <2>2. p \notin wallCells(i, wallCol[i]) /\ map_grid[p] = WALL_CHAR
      BY <1>1, <2>1 DEF EMPTY, WALL_CHAR
    <2>3. PICK j \in Walls : ~WallLifted(j) /\ p \in wallCells(j, wallCol[j])
      BY <2>2 DEF Picture, WallsDrawn
    <2>4. j # i /\ ~WallLifted(j)'
      BY <1>2, <2>2, <2>3 DEF WallLifted
    <2> QED
      BY <2>3, <2>4
  <1> QED
    BY <1>1, <1>2, <1>3, <1>4, <1>5, <1>6, Kept DEF Picture

\* An erased wall changes its place.
LEMMA PictureWallMove ==
  ASSUME TypeOK, Picture, NEW i \in Walls, WallMove(i)
  PROVE  Picture'
  <1>1. /\ UNCHANGED <<map_grid, player_x, player_y, goldCol, collected, idx>>
        /\ \A j \in Walls : j # i => wallCol'[j] = wallCol[j]
    BY DEF WallMove, score, local, TypeOK
  <1>2. /\ pc[WallThread(i)] = "move" /\ pc'[WallThread(i)] = "draw" /\ Still(Input)
        /\ \A j \in Walls : j # i => pc'[WallThread(j)] = pc[WallThread(j)]
        /\ \A g \in Golds : Still(GoldThread(g))
    BY WallGoes DEF WallMove
  <1>3. WallsDrawn'
    <2>1. SUFFICES ASSUME NEW p \in Grid, map_grid'[p] = WALL_CHAR
                   PROVE  \E j \in Walls : ~WallLifted(j)' /\ p \in wallCells(j, wallCol'[j])
      BY <1>1 DEF WallsDrawn, wallCells, wrapCol
    <2>2. PICK j \in Walls : ~WallLifted(j) /\ p \in wallCells(j, wallCol[j])
      BY <1>1, <2>1 DEF Picture, WallsDrawn
    <2>3. j # i
      BY <1>2, <2>2 DEF WallLifted
    <2>4. ~WallLifted(j)' /\ wallCol'[j] = wallCol[j]
      BY <1>1, <1>2, <2>2, <2>3 DEF WallLifted
    <2> QED
      BY <2>2, <2>4
  <1> QED
    BY <1>1, <1>2, <1>3, Kept DEF Picture

\* A wall is drawn, over the adventurer if he is there.
LEMMA PictureWallDraw ==
  ASSUME TypeOK, Picture, NEW i \in Walls, WallDraw(i)
  PROVE  Picture'
  <1>1. /\ \A p \in Grid : map_grid'[p] = IF p \in wallCells(i, wallCol[i]) THEN WALL_CHAR
                                          ELSE map_grid[p]
        /\ UNCHANGED <<player_x, player_y, wallCol, goldCol, collected, idx>>
    BY DEF WallDraw, score, local
  <1>2. /\ pc'[WallThread(i)] = "check" /\ Still(Input)
        /\ \A j \in Walls : j # i => pc'[WallThread(j)] = pc[WallThread(j)]
        /\ \A g \in Golds : Still(GoldThread(g))
    BY WallGoes DEF WallDraw
  <1>3. \A p \in Grid : /\ map_grid'[p] = ADVENTURER => map_grid[p] = ADVENTURER
                        /\ map_grid'[p] = GOLD_CHAR => map_grid[p] = GOLD_CHAR
    BY <1>1 DEF WALL_CHAR, ADVENTURER, GOLD_CHAR
  <1>4. \A g \in Remaining : map_grid'[goldCell(g)] = map_grid[goldCell(g)]
    BY <1>1, BoardCells DEF Remaining
  <1>5. BorderDrawn'
    <2>1. \A p \in Grid : p \in wallCells(i, wallCol[i]) => p \in Rows \X Cols
      BY BoardCells
    <2>2. \A p \in Grid : map_grid'[p] = BORDER <=> map_grid[p] = BORDER
      BY <1>1, <2>1 DEF Picture, BorderDrawn, WALL_CHAR, BORDER
    <2> QED
      BY <2>2 DEF Picture, BorderDrawn
  <1>6. WallsDrawn'
    <2>1. SUFFICES ASSUME NEW p \in Grid, map_grid'[p] = WALL_CHAR
                   PROVE  \E j \in Walls : ~WallLifted(j)' /\ p \in wallCells(j, wallCol[j])
      BY <1>1 DEF WallsDrawn, wallCells, wrapCol
    <2>2. ~WallLifted(i)'
      BY <1>2 DEF WallLifted
    <2>3. CASE p \in wallCells(i, wallCol[i])
      BY <2>2, <2>3
    <2>4. CASE p \notin wallCells(i, wallCol[i])
      <3>1. map_grid[p] = WALL_CHAR
        BY <1>1, <2>1, <2>4
      <3>2. PICK j \in Walls : ~WallLifted(j) /\ p \in wallCells(j, wallCol[j])
        BY <3>1 DEF Picture, WallsDrawn
      <3>3. ~WallLifted(j)'
        BY <1>2, <2>2, <3>2 DEF WallLifted
      <3> QED
        BY <3>2, <3>3
    <2> QED
      BY <2>3, <2>4
  <1> QED
    BY <1>1, <1>2, <1>3, <1>4, <1>5, <1>6, Kept DEF Picture

\* The collision test of a wall's thread leaves the map alone.
LEMMA PictureWallCheck ==
  ASSUME TypeOK, Picture, NEW i \in Walls, WallCheck(i)
  PROVE  Picture'
  <1>1. UNCHANGED <<map_grid, player_x, player_y, wallCol, goldCol, collected, idx>>
    BY DEF WallCheck, board, local
  <1>2. /\ pc[WallThread(i)] = "check" /\ pc'[WallThread(i)] = "test" /\ Still(Input)
        /\ \A j \in Walls : j # i => pc'[WallThread(j)] = pc[WallThread(j)]
        /\ \A g \in Golds : Still(GoldThread(g))
    BY WallGoes DEF WallCheck
  <1>3. \A j \in Walls : WallLifted(j)' <=> WallLifted(j)
    BY <1>2 DEF WallLifted
  <1>4. WallsDrawn'
    BY <1>1, <1>3 DEF Picture, WallsDrawn, wallCells, wrapCol
  <1> QED
    BY <1>1, <1>2, <1>4, Kept DEF Picture

\* A shard is taken from its cell.
LEMMA PictureGoldErase ==
  ASSUME TypeOK, Picture, NEW g \in Golds, GoldErase(g)
  PROVE  Picture'
  <1>1. /\ \A p \in Grid : map_grid'[p] = IF p = goldCell(g) /\ map_grid[p] = GOLD_CHAR
                                          THEN EMPTY ELSE map_grid[p]
        /\ UNCHANGED <<player_x, player_y, wallCol, goldCol, collected, idx>>
    BY BoardCells DEF GoldErase, score, local, TypeOK
  <1>2. /\ pc[GoldThread(g)] = "erase" /\ pc'[GoldThread(g)] = "move"
        /\ \A h \in Golds : h # g => pc'[GoldThread(h)] = pc[GoldThread(h)]
        /\ \A i \in Walls : Still(WallThread(i))
        /\ Still(Input) /\ pc'[Input] = pc[Input]
    BY GoldGoes DEF GoldErase
  <1>3. \A p \in Grid : /\ map_grid'[p] = ADVENTURER => map_grid[p] = ADVENTURER
                        /\ map_grid'[p] = WALL_CHAR => map_grid[p] = WALL_CHAR
                        /\ map_grid'[p] = BORDER <=> map_grid[p] = BORDER
    BY <1>1 DEF EMPTY, ADVENTURER, WALL_CHAR, GOLD_CHAR, BORDER
  <1>4. BorderDrawn'
    BY <1>3 DEF Picture, BorderDrawn
  <1>5. GoldLifted(g)' /\ \A h \in Golds : h # g => (GoldLifted(h)' <=> GoldLifted(h))
    BY <1>2 DEF GoldLifted
  <1>6. Remaining' = Remaining /\ \A h \in Golds : goldCell(h)' = goldCell(h)
    BY <1>1 DEF Remaining, goldCell
  <1>7. GoldsDrawn'
    <2>1. SUFFICES ASSUME NEW p \in Grid, map_grid'[p] = GOLD_CHAR
                   PROVE  \E h \in Remaining : ~GoldLifted(h)' /\ p = goldCell(h)
      BY <1>6 DEF GoldsDrawn, Remaining
    <2>2. p # goldCell(g) /\ map_grid[p] = GOLD_CHAR
      BY <1>1, <2>1 DEF EMPTY, GOLD_CHAR
    <2>3. PICK h \in Remaining : ~GoldLifted(h) /\ p = goldCell(h)
      BY <2>2 DEF Picture, GoldsDrawn
    <2> QED
      BY <1>5, <2>2, <2>3 DEF Remaining
  <1>8. GoldsThere'
    <2>1. SUFFICES ASSUME NEW h \in Remaining, ~GoldLifted(h)'
                   PROVE  map_grid'[goldCell(h)] = GOLD_CHAR
      BY <1>6 DEF GoldsThere, Remaining
    <2>2. h # g /\ ~GoldLifted(h) /\ h \in Golds
      BY <1>5, <2>1 DEF Remaining
    <2>3. goldCell(h) # goldCell(g) /\ goldCell(h) \in Grid
      BY <2>2, BoardCells
    <2> QED
      BY <1>1, <2>1, <2>2, <2>3 DEF Picture, GoldsThere
  <1>9. Looking'
    <2>1. \A h \in Golds : Reached(h)' <=> Reached(h)
      BY <1>1 DEF Reached
    <2>2. \A h \in Golds : pc[GoldThread(h)] = "collect" => pc'[GoldThread(h)] = "collect"
      BY <1>2
    <2> QED
      BY <1>1, <1>2, <2>1, <2>2 DEF Picture, Looking
  <1> QED
    BY <1>1, <1>2, <1>3, <1>4, <1>7, <1>8, <1>9, Kept DEF Picture

\* A shard changes its place, perhaps to where the adventurer is.
LEMMA PictureGoldMove ==
  ASSUME TypeOK, Picture, NEW g \in Golds, GoldMove(g)
  PROVE  Picture'
  <1>1. /\ UNCHANGED <<map_grid, player_x, player_y, wallCol, collected, idx>>
        /\ \A h \in Golds : h # g => goldCol'[h] = goldCol[h]
    BY DEF GoldMove, score, local, TypeOK
  <1>2. /\ pc[GoldThread(g)] = "move" /\ pc'[GoldThread(g)] = "collect"
        /\ \A h \in Golds : h # g => pc'[GoldThread(h)] = pc[GoldThread(h)]
        /\ \A i \in Walls : Still(WallThread(i))
        /\ Still(Input) /\ pc'[Input] = pc[Input]
    BY GoldGoes DEF GoldMove
  <1>3. /\ GoldLifted(g) /\ GoldLifted(g)'
        /\ \A h \in Golds : h # g => (GoldLifted(h)' <=> GoldLifted(h))
    BY <1>2 DEF GoldLifted
  <1>4. Remaining' = Remaining /\ \A h \in Golds : h # g => goldCell(h)' = goldCell(h)
    BY <1>1 DEF Remaining, goldCell
  <1>5. GoldsDrawn'
    <2>1. SUFFICES ASSUME NEW p \in Grid, map_grid[p] = GOLD_CHAR
                   PROVE  \E h \in Remaining : ~GoldLifted(h)' /\ p = goldCell(h)'
      BY <1>1, <1>4 DEF GoldsDrawn
    <2>2. PICK h \in Remaining : ~GoldLifted(h) /\ p = goldCell(h)
      BY <2>1 DEF Picture, GoldsDrawn
    <2>3. h \in Golds /\ h # g
      BY <1>3, <2>2 DEF Remaining
    <2> QED
      BY <1>3, <1>4, <2>2, <2>3
  <1>6. GoldsThere'
    <2>1. SUFFICES ASSUME NEW h \in Remaining, ~GoldLifted(h)'
                   PROVE  map_grid[goldCell(h)'] = GOLD_CHAR
      BY <1>1, <1>4 DEF GoldsThere
    <2>2. h \in Golds /\ h # g
      BY <1>3, <2>1 DEF Remaining
    <2> QED
      BY <1>3, <1>4, <2>1, <2>2 DEF Picture, GoldsThere
  <1>7. Looking'
    <2>1. \A h \in Golds : h # g => (Reached(h)' <=> Reached(h))
      BY <1>1 DEF Reached
    <2> QED
      BY <1>1, <1>2, <2>1 DEF Picture, Looking
  <1> QED
    BY <1>1, <1>2, <1>5, <1>6, <1>7, Kept DEF Picture

\* The adventurer takes the shard that came to him, which is erased.
LEMMA PictureGoldCollect ==
  ASSUME TypeOK, Picture, NEW g \in Golds, GoldCollect(g)
  PROVE  Picture'
  <1>1. /\ UNCHANGED <<map_grid, player_x, player_y, wallCol, goldCol, idx>>
        /\ \A h \in Golds : collected'[h] = IF h = g /\ Reached(g) THEN 1 ELSE collected[h]
    BY DEF GoldCollect, Collect, board, score, local, TypeOK
  <1>2. /\ pc[GoldThread(g)] = "collect" /\ pc'[GoldThread(g)] = "place"
        /\ \A h \in Golds : h # g => pc'[GoldThread(h)] = pc[GoldThread(h)]
        /\ \A i \in Walls : Still(WallThread(i))
        /\ Still(Input) /\ pc'[Input] = pc[Input]
    BY GoldGoes DEF GoldCollect
  <1>3. /\ GoldLifted(g) /\ GoldLifted(g)'
        /\ \A h \in Golds : h # g => (GoldLifted(h)' <=> GoldLifted(h))
    BY <1>2 DEF GoldLifted
  <1>4. /\ \A h \in Golds : h # g => (h \in Remaining' <=> h \in Remaining)
        /\ \A h \in Golds : goldCell(h)' = goldCell(h)
        /\ Remaining \subseteq Golds /\ Remaining' \subseteq Golds
    BY <1>1 DEF Remaining, goldCell
  <1>5. GoldsDrawn'
    BY <1>1, <1>3, <1>4 DEF Picture, GoldsDrawn
  <1>6. GoldsThere'
    BY <1>1, <1>3, <1>4 DEF Picture, GoldsThere
  <1>7. Looking'
    <2>1. \A h \in Golds : Reached(h)' => h # g /\ Reached(h)
      BY <1>1 DEF Reached
    <2> QED
      BY <1>1, <1>2, <2>1 DEF Picture, Looking
  <1> QED
    BY <1>1, <1>2, <1>5, <1>6, <1>7, Kept DEF Picture

\* When the thread that moved the adventurer or a shard has looked, he is on none.
LEMMA NotReached ==
  ASSUME TypeOK, MutualExclusion, Picture
  PROVE  /\ pc[Input] \in {"erase", "place"} => \A g \in Golds : ~Reached(g)
         /\ \A g \in Golds : pc[GoldThread(g)] = "place" => ~Reached(g)
  <1>1. \A s, t \in Threads : pc[s] \in CriticalPcs /\ pc[t] \in CriticalPcs => s = t
    BY DEF MutualExclusion
  <1>2. ASSUME pc[Input] \in {"erase", "place"}, NEW g \in Golds PROVE ~Reached(g)
    <2>1. pc[GoldThread(g)] # "collect"
      BY <1>1, <1>2, ThreadNames DEF CriticalPcs
    <2> QED
      BY <1>2, <2>1 DEF Picture, Looking
  <1>3. ASSUME NEW g \in Golds, pc[GoldThread(g)] = "place" PROVE ~Reached(g)
    <2>1. pc[Input] \notin {"walls", "golds"}
      BY <1>1, <1>3, ThreadNames DEF CriticalPcs
    <2> QED
      BY <1>3, <2>1 DEF Picture, Looking
  <1> QED
    BY <1>2, <1>3

\* A shard that is left is drawn: nothing else is in its cell.
LEMMA PictureGoldPlace ==
  ASSUME TypeOK, MutualExclusion, Picture, NEW g \in Golds, GoldPlace(g)
  PROVE  Picture'
  <1>1. /\ \A p \in Grid : map_grid'[p] =
               IF p = goldCell(g) /\ collected[g] = 0 /\ map_grid[p] = EMPTY
               THEN GOLD_CHAR ELSE map_grid[p]
        /\ UNCHANGED <<player_x, player_y, wallCol, goldCol, collected, idx>>
    BY BoardCells DEF GoldPlace, score, local, TypeOK
  <1>2. /\ pc[GoldThread(g)] = "place" /\ pc'[GoldThread(g)] = "test"
        /\ \A h \in Golds : h # g => pc'[GoldThread(h)] = pc[GoldThread(h)]
        /\ \A i \in Walls : Still(WallThread(i))
        /\ Still(Input) /\ pc'[Input] = pc[Input]
    BY GoldGoes DEF GoldPlace
  <1>3. \A p \in Grid : /\ map_grid'[p] = ADVENTURER => map_grid[p] = ADVENTURER
                        /\ map_grid'[p] = WALL_CHAR => map_grid[p] = WALL_CHAR
                        /\ map_grid'[p] = BORDER <=> map_grid[p] = BORDER
    BY <1>1 DEF EMPTY, ADVENTURER, WALL_CHAR, GOLD_CHAR, BORDER
  <1>4. BorderDrawn'
    BY <1>3 DEF Picture, BorderDrawn
  <1>5. ~GoldLifted(g)' /\ \A h \in Golds : h # g => (GoldLifted(h)' <=> GoldLifted(h))
    BY <1>2 DEF GoldLifted
  <1>6. /\ Remaining' = Remaining /\ \A h \in Golds : goldCell(h)' = goldCell(h)
        /\ Remaining \subseteq Golds /\ (g \in Remaining <=> collected[g] = 0)
    BY <1>1 DEF Remaining, goldCell
  <1>7. GoldsDrawn'
    <2>1. SUFFICES ASSUME NEW p \in Grid, map_grid'[p] = GOLD_CHAR
                   PROVE  \E h \in Remaining : ~GoldLifted(h)' /\ p = goldCell(h)
      BY <1>6 DEF GoldsDrawn
    <2>2. CASE p = goldCell(g) /\ collected[g] = 0
      BY <1>5, <1>6, <2>2
    <2>3. CASE ~(p = goldCell(g) /\ collected[g] = 0)
      <3>1. map_grid[p] = GOLD_CHAR
        BY <1>1, <2>1, <2>3
      <3>2. PICK h \in Remaining : ~GoldLifted(h) /\ p = goldCell(h)
        BY <3>1 DEF Picture, GoldsDrawn
      <3> QED
        BY <1>5, <1>6, <3>2
    <2> QED
      BY <2>2, <2>3
  <1>8. collected[g] = 0 => map_grid'[goldCell(g)] = GOLD_CHAR
    <2>1. SUFFICES ASSUME collected[g] = 0 PROVE map_grid'[goldCell(g)] = GOLD_CHAR
      OBVIOUS
    <2>2. goldCell(g) \in Grid /\ goldCell(g) \in Rows \X Cols
      BY BoardCells
    <2>3. map_grid[goldCell(g)] # BORDER
      BY <2>2 DEF Picture, BorderDrawn
    <2>4. map_grid[goldCell(g)] # WALL_CHAR
      BY <2>2, BoardCells DEF Picture, WallsDrawn
    <2>5. map_grid[goldCell(g)] # ADVENTURER
      <3>1. ~Reached(g)
        BY <1>2, NotReached
      <3>2. goldCell(g) # playerCell
        BY <2>1, <3>1 DEF Reached, goldCell, playerCell
      <3> QED
        BY <2>2, <3>2 DEF Picture, PlayerDrawn
    <2>6. map_grid[goldCell(g)] \in Chars
      BY <2>2 DEF TypeOK
    <2> QED
      BY <1>1, <2>1, <2>2, <2>3, <2>4, <2>5, <2>6 DEF Chars
  <1>9. GoldsThere'
    <2>1. SUFFICES ASSUME NEW h \in Remaining, ~GoldLifted(h)'
                   PROVE  map_grid'[goldCell(h)] = GOLD_CHAR
      BY <1>6 DEF GoldsThere
    <2>2. CASE h = g
      BY <1>6, <1>8, <2>2
    <2>3. CASE h # g
      <3>1. h \in Golds /\ ~GoldLifted(h)
        BY <1>5, <1>6, <2>1, <2>3
      <3>2. goldCell(h) # goldCell(g) /\ goldCell(h) \in Grid
        BY <2>3, <3>1, BoardCells
      <3> QED
        BY <1>1, <2>1, <3>1, <3>2 DEF Picture, GoldsThere
    <2> QED
      BY <2>2, <2>3
  <1>10. Looking'
    <2>1. \A h \in Golds : Reached(h)' <=> Reached(h)
      BY <1>1 DEF Reached
    <2>2. \A h \in Golds : pc[GoldThread(h)] = "collect" => pc'[GoldThread(h)] = "collect"
      BY <1>2
    <2> QED
      BY <1>1, <1>2, <2>1, <2>2 DEF Picture, Looking
  <1> QED
    BY <1>1, <1>2, <1>3, <1>4, <1>7, <1>9, <1>10, Kept DEF Picture

\* The adventurer is erased: no shard that is left is in his cell.
LEMMA PictureInputErase ==
  ASSUME TypeOK, MutualExclusion, Picture, InputErase
  PROVE  Picture'
  <1>1. /\ \A p \in Grid : map_grid'[p] = IF p = playerCell THEN EMPTY ELSE map_grid[p]
        /\ UNCHANGED <<player_x, player_y, wallCol, goldCol, collected, idx>>
    BY BoardCells DEF InputErase, score, local, TypeOK
  <1>2. /\ pc[Input] = "erase" /\ pc'[Input] = "move"
        /\ \A i \in Walls : Still(WallThread(i))
        /\ \A g \in Golds : Still(GoldThread(g)) /\ pc'[GoldThread(g)] = pc[GoldThread(g)]
    BY InputGoes DEF InputErase
  <1>3. \A p \in Grid : /\ map_grid'[p] = GOLD_CHAR => map_grid[p] = GOLD_CHAR
                        /\ map_grid'[p] = WALL_CHAR => map_grid[p] = WALL_CHAR
    BY <1>1 DEF EMPTY, WALL_CHAR, GOLD_CHAR
  <1>4. BorderDrawn'
    <2>1. playerCell \in Rows \X Cols
      BY BoardCells
    <2>2. \A p \in Grid : map_grid'[p] = BORDER <=> map_grid[p] = BORDER
      BY <1>1, <2>1 DEF Picture, BorderDrawn, EMPTY, BORDER
    <2> QED
      BY <2>2 DEF Picture, BorderDrawn
  <1>5. \A g \in Golds : ~Reached(g)
    BY <1>2, NotReached
  <1>6. \A g \in Remaining : map_grid'[goldCell(g)] = map_grid[goldCell(g)]
    <2>1. SUFFICES ASSUME NEW g \in Remaining
                   PROVE  goldCell(g) # playerCell /\ goldCell(g) \in Grid
      BY <1>1
    <2>2. g \in Golds /\ collected[g] = 0
      BY DEF Remaining
    <2> QED
      BY <1>5, <2>2, BoardCells DEF Reached, goldCell, playerCell
  <1>7. PlayerDrawn'
    <2>1. \A p \in Grid : map_grid'[p] # ADVENTURER
      BY <1>1 DEF Picture, PlayerDrawn, EMPTY, ADVENTURER
    <2> QED
      BY <2>1 DEF PlayerDrawn
  <1>8. Looking'
    <2>1. \A g \in Golds : ~Reached(g)'
      BY <1>1, <1>5 DEF Reached
    <2> QED
      BY <1>1, <1>2, <2>1 DEF Picture, Looking
  <1> QED
    BY <1>1, <1>2, <1>3, <1>4, <1>6, <1>7, <1>8, Kept DEF Picture

\* The erased adventurer changes his place.
LEMMA PictureInputMove ==
  ASSUME TypeOK, Picture, InputMove
  PROVE  Picture'
  <1>1. UNCHANGED <<map_grid, wallCol, goldCol, collected, idx>>
    BY DEF InputMove
  <1>2. /\ pc[Input] = "move" /\ pc'[Input] = "walls"
        /\ \A i \in Walls : Still(WallThread(i))
        /\ \A g \in Golds : Still(GoldThread(g)) /\ pc'[GoldThread(g)] = pc[GoldThread(g)]
    BY InputGoes DEF InputMove
  <1>3. PlayerDrawn'
    BY <1>1, <1>2 DEF Picture, PlayerDrawn, PlayerLifted
  <1>4. Looking'
    BY <1>1, <1>2 DEF Picture, Looking
  <1> QED
    BY <1>1, <1>2, <1>3, <1>4, Kept DEF Picture

\* The input thread has looked for walls and begins with the first shard.
LEMMA PictureInputWalls ==
  ASSUME TypeOK, Picture, InputWalls
  PROVE  Picture'
  <1>1. UNCHANGED <<map_grid, player_x, player_y, wallCol, goldCol, collected, idx>>
    BY DEF InputWalls, board, local
  <1>2. /\ pc[Input] = "walls" /\ pc'[Input] = "golds"
        /\ \A i \in Walls : Still(WallThread(i))
        /\ \A g \in Golds : Still(GoldThread(g)) /\ pc'[GoldThread(g)] = pc[GoldThread(g)]
    BY InputGoes DEF InputWalls
  <1>3. PlayerDrawn'
    BY <1>1, <1>2 DEF Picture, PlayerDrawn, PlayerLifted, playerCell
  <1>4. Looking'
    <2>1. idx' = 1 /\ \A g \in Golds : 1 <= g
      BY <1>1, <1>2 DEF Picture, Looking, Golds
    <2> QED
      BY <1>2, <2>1 DEF Looking
  <1> QED
    BY <1>1, <1>2, <1>3, <1>4, Kept DEF Picture

\* The input thread looks at one shard, and takes it and its character.
LEMMA PictureInputGolds ==
  ASSUME TypeOK, Picture, InputGolds
  PROVE  Picture'
  <1>0. idx \in Golds /\ idx \in Nat /\ NUM_GOLD \in Nat /\ Golds \subseteq Nat
    <2>1. idx \in Golds
      BY DEF TypeOK
    <2>2. NUM_GOLD \in Nat /\ Golds \subseteq Nat
      BY SizeAssumption DEF Golds
    <2> QED
      BY <2>1, <2>2
  <1>1. /\ \A p \in Grid : map_grid'[p] = IF p = goldCell(idx) /\ Reached(idx) THEN EMPTY
                                          ELSE map_grid[p]
        /\ \A h \in Golds : collected'[h] = IF h = idx /\ Reached(idx) THEN 1 ELSE collected[h]
        /\ UNCHANGED <<player_x, player_y, wallCol, goldCol>>
        /\ idx' = IF idx = NUM_GOLD THEN 1 ELSE idx + 1
    <2>1. CASE Reached(idx)
      BY <1>0, <2>1, BoardCells DEF InputGolds, Collect, TypeOK
    <2>2. CASE ~Reached(idx)
      BY <2>2 DEF InputGolds, score
    <2> QED
      BY <2>1, <2>2
  <1>2. /\ pc[Input] = "golds"
        /\ pc'[Input] = IF idx = NUM_GOLD THEN "place" ELSE "golds"
        /\ \A i \in Walls : Still(WallThread(i))
        /\ \A g \in Golds : Still(GoldThread(g)) /\ pc'[GoldThread(g)] = pc[GoldThread(g)]
    <2>1. Goto(Input, "golds", IF idx = NUM_GOLD THEN "place" ELSE "golds")
      BY DEF InputGolds, Goto
    <2> QED
      BY <2>1, InputGoes
  <1>3. \A p \in Grid : /\ map_grid'[p] = GOLD_CHAR => map_grid[p] = GOLD_CHAR
                        /\ map_grid'[p] = WALL_CHAR => map_grid[p] = WALL_CHAR
                        /\ map_grid'[p] = ADVENTURER => map_grid[p] = ADVENTURER
    BY <1>1 DEF EMPTY, WALL_CHAR, GOLD_CHAR, ADVENTURER
  <1>4. BorderDrawn'
    <2>1. goldCell(idx) \in Rows \X Cols
      BY <1>0, BoardCells
    <2>2. \A p \in Grid : map_grid'[p] = BORDER <=> map_grid[p] = BORDER
      BY <1>1, <2>1 DEF Picture, BorderDrawn, EMPTY, BORDER
    <2> QED
      BY <2>2 DEF Picture, BorderDrawn
  <1>5. /\ Remaining \subseteq Golds /\ Remaining' \subseteq Remaining
        /\ \A h \in Remaining : h # idx \/ ~Reached(idx) => h \in Remaining'
        /\ idx \in Remaining' => ~Reached(idx)
        /\ \A h \in Golds : goldCell(h)' = goldCell(h) /\ (GoldLifted(h)' <=> GoldLifted(h))
    <2>1. \A h \in Golds : h \in Remaining <=> collected[h] = 0
      BY DEF Remaining
    <2>2. \A h \in Golds : h \in Remaining' <=> collected'[h] = 0
      BY DEF Remaining
    <2>3. Remaining \subseteq Golds /\ Remaining' \subseteq Golds
      BY DEF Remaining
    <2>4. \A h \in Golds : goldCell(h)' = goldCell(h)
      BY <1>1 DEF goldCell
    <2>5. \A h \in Golds : GoldLifted(h)' <=> GoldLifted(h)
      BY <1>2 DEF GoldLifted
    <2>6. Remaining' \subseteq Remaining
      BY <1>1, <2>1, <2>2, <2>3
    <2>7. \A h \in Remaining : h # idx \/ ~Reached(idx) => h \in Remaining'
      BY <1>1, <2>1, <2>2, <2>3
    <2>8. idx \in Remaining' => ~Reached(idx)
      BY <1>0, <1>1, <2>2
    <2> QED
      BY <2>3, <2>4, <2>5, <2>6, <2>7, <2>8
  <1>6. GoldsDrawn'
    <2>1. SUFFICES ASSUME NEW p \in Grid, map_grid'[p] = GOLD_CHAR
                   PROVE  \E h \in Remaining' : ~GoldLifted(h) /\ p = goldCell(h)
      BY <1>5 DEF GoldsDrawn
    <2>2. PICK h \in Remaining : ~GoldLifted(h) /\ p = goldCell(h)
      BY <1>3, <2>1 DEF Picture, GoldsDrawn
    <2>3. h # idx \/ ~Reached(idx)
      BY <1>1, <2>1, <2>2 DEF EMPTY, GOLD_CHAR
    <2> QED
      BY <1>5, <2>2, <2>3
  <1>7. GoldsThere'
    <2>1. SUFFICES ASSUME NEW h \in Remaining', ~GoldLifted(h)
                   PROVE  map_grid'[goldCell(h)] = GOLD_CHAR
      BY <1>5 DEF GoldsThere
    <2>2. h \in Golds /\ h \in Remaining /\ (h # idx \/ ~Reached(idx))
      BY <1>5, <2>1
    <2>3. goldCell(h) \in Grid /\ (h # idx => goldCell(h) # goldCell(idx))
      BY <1>0, <2>2, BoardCells
    <2> QED
      BY <1>1, <2>1, <2>2, <2>3 DEF Picture, GoldsThere
  <1>8. PlayerDrawn'
    BY <1>1, <1>2, <1>3 DEF Picture, PlayerDrawn, PlayerLifted, playerCell
  <1>9. Looking'
    <2>1. pc'[Input] # "golds" => idx' = 1
      BY <1>1, <1>2
    <2>2. ASSUME NEW h \in Golds, Reached(h)'
          PROVE  pc'[GoldThread(h)] = "collect" \/ (pc'[Input] = "golds" /\ idx' <= h)
      <3>1. Reached(h) /\ h # idx
        BY <1>1, <2>2 DEF Reached
      <3>2. CASE pc[GoldThread(h)] = "collect"
        BY <1>2, <3>2
      <3>3. CASE idx <= h
        <4>1. h \in Nat /\ h <= NUM_GOLD
          BY <1>0 DEF Golds
        <4>2. idx # NUM_GOLD /\ idx + 1 <= h
          BY <1>0, <3>1, <3>3, <4>1
        <4> QED
          BY <1>1, <1>2, <4>2
      <3> QED
        BY <1>2, <3>1, <3>2, <3>3 DEF Picture, Looking
    <2> QED
      BY <2>1, <2>2 DEF Looking
  <1> QED
    BY <1>1, <1>2, <1>3, <1>4, <1>6, <1>7, <1>8, <1>9, Kept DEF Picture

\* The adventurer is drawn: no shard that is left is in his cell.
LEMMA PictureInputPlace ==
  ASSUME TypeOK, MutualExclusion, Picture, InputPlace
  PROVE  Picture'
  <1>1. /\ \A p \in Grid : map_grid'[p] = IF p = playerCell THEN ADVENTURER ELSE map_grid[p]
        /\ UNCHANGED <<player_x, player_y, wallCol, goldCol, collected, idx>>
    BY BoardCells DEF InputPlace, score, local, TypeOK
  <1>2. /\ pc[Input] = "place" /\ pc'[Input] = "test"
        /\ \A i \in Walls : Still(WallThread(i))
        /\ \A g \in Golds : Still(GoldThread(g)) /\ pc'[GoldThread(g)] = pc[GoldThread(g)]
    BY InputGoes DEF InputPlace
  <1>3. \A p \in Grid : /\ map_grid'[p] = GOLD_CHAR => map_grid[p] = GOLD_CHAR
                        /\ map_grid'[p] = WALL_CHAR => map_grid[p] = WALL_CHAR
    BY <1>1 DEF ADVENTURER, WALL_CHAR, GOLD_CHAR
  <1>4. BorderDrawn'
    <2>1. playerCell \in Rows \X Cols
      BY BoardCells
    <2>2. \A p \in Grid : map_grid'[p] = BORDER <=> map_grid[p] = BORDER
      BY <1>1, <2>1 DEF Picture, BorderDrawn, ADVENTURER, BORDER
    <2> QED
      BY <2>2 DEF Picture, BorderDrawn
  <1>5. \A g \in Golds : ~Reached(g)
    BY <1>2, NotReached
  <1>6. \A g \in Remaining : map_grid'[goldCell(g)] = map_grid[goldCell(g)]
    <2>1. SUFFICES ASSUME NEW g \in Remaining
                   PROVE  goldCell(g) # playerCell /\ goldCell(g) \in Grid
      BY <1>1
    <2>2. g \in Golds /\ collected[g] = 0
      BY DEF Remaining
    <2> QED
      BY <1>5, <2>2, BoardCells DEF Reached, goldCell, playerCell
  <1>7. PlayerDrawn'
    <2>1. \A p \in Grid : map_grid'[p] = ADVENTURER => p = playerCell
      BY <1>1 DEF Picture, PlayerDrawn
    <2>2. playerCell' = playerCell /\ ~PlayerLifted'
      BY <1>1, <1>2 DEF playerCell, PlayerLifted
    <2> QED
      BY <2>1, <2>2 DEF PlayerDrawn
  <1>8. Looking'
    <2>1. \A g \in Golds : ~Reached(g)'
      BY <1>1, <1>5 DEF Reached
    <2> QED
      BY <1>1, <1>2, <2>1 DEF Picture, Looking
  <1> QED
    BY <1>1, <1>2, <1>3, <1>4, <1>6, <1>7, <1>8, Kept DEF Picture

\* Every step keeps the map in order.
LEMMA PictureStep == TypeOK /\ MutualExclusion /\ Picture /\ [Next]_vars => Picture'
  BY StepKinds, PictureQuiet, PictureWallErase, PictureWallMove, PictureWallDraw,
     PictureWallCheck, PictureGoldErase, PictureGoldMove, PictureGoldCollect,
     PictureGoldPlace, PictureInputErase, PictureInputMove, PictureInputWalls,
     PictureInputGolds, PictureInputPlace

-----------------------------------------------------------------------------
(* The theorems.                                                           *)

IInv == Rules /\ Contact /\ Ending /\ Picture

\* IInv is an invariant of the game.
LEMMA Invariance == Spec => []IInv
  <1>1. Init => Contact /\ Ending
    <2> SUFFICES ASSUME Init PROVE Contact /\ Ending
      OBVIOUS
    <2>1. Contact
      BY RowAssumption DEF Contact, Init, hits
    <2>2. Ending
      BY ThreadNames DEF Ending, Init
    <2> QED
      BY <2>1, <2>2
  <1>2. Init => IInv
    BY <1>1, InitRules, PictureInit DEF IInv
  <1>3. IInv /\ [Next]_vars => IInv'
    <2> SUFFICES ASSUME IInv, [Next]_vars PROVE IInv'
      OBVIOUS
    <2>1. Rules'
      BY FactsStep, MutexStep, WonStep, FrozenStep DEF IInv, Rules, Facts
    <2>2. Contact' /\ Ending' /\ Picture'
      BY ContactStep, EndingStep, PictureStep DEF IInv, Rules, Facts
    <2> QED
      BY <2>1, <2>2 DEF IInv
  <1> QED
    BY <1>2, <1>3, PTL DEF Spec

\* Every variable of hw2.cpp keeps its type; the adventurer, the walls and the
\* shards stay inside the border.
THEOREM TypeCorrect == Spec => []TypeOK
  <1>1. IInv => TypeOK
    BY DEF IInv, Rules, Facts
  <1> QED
    BY <1>1, Invariance, PTL

\* map_mutex keeps the sections of all the threads apart.
THEOREM MutexCorrect == Spec => []MutualExclusion
  <1>1. IInv => MutualExclusion
    BY DEF IInv, Rules
  <1> QED
    BY <1>1, Invariance, PTL

\* shards_remaining is the number of shards left, although the shard threads
\* and the input thread both collect.
THEOREM AccountingCorrect == Spec => []ShardsAccounting
  <1>1. IInv => ShardsAccounting
    BY DEF IInv, Rules, Facts
  <1> QED
    BY <1>1, Invariance, PTL

\* WON is set with no shard left, and a game with none left does not go on.
THEOREM WonCorrect == Spec => []WonMeansAll
  <1>1. IInv => WonMeansAll
    BY DEF IInv, Rules
  <1> QED
    BY <1>1, Invariance, PTL

\* No shard stands still in a running game because its thread has returned.
THEOREM ShardsKeepMoving == Spec => []NoFrozenShard
  <1>1. IInv => NoFrozenShard
    BY DEF IInv, Rules
  <1> QED
    BY <1>1, Invariance, PTL

\* No step restarts a finished game or puts a shard back.
THEOREM EndFinal == Spec => EndIsFinal
  <1> DEFINE Final == /\ game_status_code # RUNNING => game_status_code' # RUNNING
                      /\ \A g \in Golds : collected[g] = 1 => collected'[g] = 1
  <1>1. TypeOK /\ [Next]_vars => [Final]_vars
    BY EndStep
  <1> QED
    BY <1>1, TypeCorrect, PTL DEF Spec, EndIsFinal

\* An adventurer on a wall has ended the game by the time that the thread that
\* moved one of them gives map_mutex back.
THEOREM ContactCorrect == Spec => []ContactEndsGame
  <1>1. ASSUME IInv PROVE ContactEndsGame
    <2>1. SUFFICES ASSUME map_mutex = {}, NEW i \in Walls, hits(i), game_status_code = RUNNING
                   PROVE  FALSE
      BY DEF ContactEndsGame
    <2>2. pc[WallThread(i)] \in CriticalPcs \/ pc[Input] \in CriticalPcs
      BY <1>1, <2>1 DEF IInv, Contact, CriticalPcs
    <2> QED
      BY <1>1, <2>1, <2>2, ThreadNames DEF IInv, Rules, MutualExclusion
  <1> QED
    BY <1>1, Invariance, PTL

\* What the printer prints is what is there: all the shards that are left and no
\* other, one adventurer at most, no piece of a wall where there is none.
THEOREM FrameCorrect == Spec => []FrameConsistent
  <1>1. ASSUME IInv PROVE FrameConsistent
    <2>1. SUFFICES ASSUME pc[Printer] = "print"
                   PROVE  /\ \A p \in Grid : map_grid[p] = GOLD_CHAR
                                              <=> \E g \in Remaining : p = goldCell(g)
                          /\ \A p \in Grid : map_grid[p] = ADVENTURER => p = playerCell
                          /\ \A p \in Grid : map_grid[p] = WALL_CHAR
                                => \E i \in Walls : p \in wallCells(i, wallCol[i])
                          /\ \A p \in Grid : map_grid[p] = BORDER <=> p \notin Rows \X Cols
      BY DEF FrameConsistent
    <2>2. \A t \in Threads : pc[t] \in CriticalPcs => t = Printer
      BY <1>1, <2>1, ThreadNames DEF IInv, Rules, MutualExclusion, CriticalPcs
    <2>3. \A g \in Golds : ~GoldLifted(g)
      BY <2>2, ThreadNames DEF GoldLifted, CriticalPcs
    <2>4. /\ Remaining \subseteq Golds
          /\ BorderDrawn /\ WallsDrawn /\ PlayerDrawn /\ GoldsDrawn /\ GoldsThere
      BY <1>1 DEF IInv, Picture, Remaining
    <2>5. \A p \in Grid : map_grid[p] = GOLD_CHAR <=> \E g \in Remaining : p = goldCell(g)
      BY <2>3, <2>4 DEF GoldsDrawn, GoldsThere
    <2> QED
      BY <2>4, <2>5 DEF BorderDrawn, WallsDrawn, PlayerDrawn
  <1> QED
    BY <1>1, Invariance, PTL

\* main destroys map_mutex when nobody can use it, with a result printed, and
\* "You win" only for a game that was won.
THEOREM ExitCorrect == Spec => []CleanExit
  <1>1. ASSUME IInv PROVE CleanExit
    <2>1. SUFFICES ASSUME main = "destroyed"
                   PROVE  /\ map_mutex = {} /\ \A t \in Threads : pc[t] = "done"
                          /\ verdict # "none" /\ (verdict = "You win" => Remaining = {})
      BY DEF CleanExit
    <2>2. \A t \in Threads : pc[t] = "done"
      BY <1>1, <2>1 DEF IInv, Ending
    <2>3. map_mutex = {}
      <3>1. \A t \in Threads : t \notin map_mutex
        BY <1>1, <2>2 DEF IInv, Rules, MutualExclusion, CriticalPcs
      <3>2. map_mutex \subseteq Threads
        BY <1>1 DEF IInv, Rules, Facts, TypeOK
      <3> QED
        BY <3>1, <3>2
    <2>4. verdict # "none" /\ (verdict = "You win" => Remaining = {})
      BY <1>1, <2>1 DEF IInv, Ending, Rules, WonMeansAll
    <2> QED
      BY <2>2, <2>3, <2>4
  <1> QED
    BY <1>1, Invariance, PTL
=============================================================================
