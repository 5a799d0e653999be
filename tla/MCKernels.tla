------------------------------ MODULE MCKernels ------------------------------
(****************************************************************************)
(* The parallel parts of canneal, streamcluster, fluidanimate, ferret and   *)
(* freqmine on small instances: the lockstep of the annealing threads and of *)
(* the annealing farm, the three parts of streamcluster, the frames of      *)
(* fluidanimate, the pipelines of ferret, and the mining loops of freqmine.  A *)
(* behaviour runs one of them.  The annealing farm is that of CannealFarm    *)
(* itself, with its bounds in the configuration.                            *)
(****************************************************************************)
EXTENDS CannealFarm

VARIABLES
  on,  \* the key of the instance that runs
  \* CannealThreads
  cth_pc, cth_accepted_good_moves, cth_accepted_bad_moves,
  cth_temp_steps_completed, cth_begun, cth_keep_going_global_flag,
  cth_arrived,
  \* StreamSpeedy
  spd_at, spd_bar, spd_call, spd_i, spd_open, spd_kcenter, spd_costs,
  spd_totalcost, spd_opened, spd_seen, spd_returned,
  \* StreamGain
  gain_coord, gain_z, gain_xs, gain_step, gain_cost, gain_assign,
  gain_is_center, gain_numcenters, gain_center_table, gain_switch_membership,
  gain_work_mem, gain_gl_cost, gain_gl_close, gain_mine, gain_returned,
  gain_before,
  \* StreamMedian
  med_main, med_chunk, med_num, med_centers, med_at, med_bar, med_k,
  med_gain, med_hizs, med_feasible, med_kfinal, med_i, med_steps, med_change,
  med_sped, med_gained,
  \* FluidGrid
  flu_at, flu_cells, flu_cnumPars, flu_cells2, flu_cnumPars2, flu_density,
  flu_a, flu_collided, flu_phase, flu_todo, flu_reg,
  \* FerretThreads
  ft_q, ft_held, ft_left, ft_cnt_enqueue, ft_cnt_dequeue, ft_printed,
  \* FerretFarms
  ff_inq, ff_outq, ff_nextw, ff_loading, ff_nw, ff_cnt_enqueue,
  ff_cnt_dequeue, ff_printed,
  \* FreqMine
  frq_file, frq_loop, frq_next, frq_tiled, frq_content, frq_merged, frq_tree,
  frq_work, frq_round, frq_bounds, frq_pc, frq_begun, frq_released_pos,
  frq_found

\* Four points on a line: apart, in clusters, and with two of them equal.
Lines == {[i \in 0..3 |-> <<0, 1, 3, 6>>[i + 1]],
          [i \in 0..3 |-> <<3, 0, 4, 1>>[i + 1]],
          [i \in 0..3 |-> <<2, 5, 2, 0>>[i + 1]]}

\* Files for freqmine: chunks of transactions.
Small == {<<<<{1, 2}>>, <<{1, 2, 3}>>, <<c>>>> : c \in SUBSET {1, 2, 3} \ {{}}}
           \cup {<<<<{1, 2, 3, 4, 5}>>, <<{1, 2, 3, 6, 7}>>, <<{1}>>>>}
Large == LET Any == SUBSET {1, 2, 3, 4} \ {{}}
         IN  {<<<<a, b, c>>, <<{1, 2, 3, 4}>>>> :
                a \in Any, b \in Any, c \in {{1, 2, 3, 4}, {1, 3, 4}, {2}, {3, 4}}}
               \cup {<<<<{1, 2, 3, 4, 5}, a, b>>, <<{1, 2, 3, 4, 5}>>>> :
                       a \in {{2, 4, 5}, {1, 3, 4, 5}}, b \in Any}

\* Three threads and a fixed number of temperature steps.
Pthreads == INSTANCE CannealThreads WITH
  Threads <- {"t1", "t2", "t3"}, Moves <- 1, Converging <- FALSE,
  number_temp_steps <- 2, MaxSteps <- 2, pc <- cth_pc,
  accepted_good_moves <- cth_accepted_good_moves,
  accepted_bad_moves <- cth_accepted_bad_moves,
  temp_steps_completed <- cth_temp_steps_completed, begun <- cth_begun,
  keep_going_global_flag <- cth_keep_going_global_flag,
  arrived <- cth_arrived

\* The workers of the farm may converge; these do a fixed number of temperature
\* steps.
Fixed == INSTANCE CannealFarm WITH
  NWorkers <- 3, Moves <- 1, Converging <- FALSE, _number_temp_steps <- 2,
  MaxSteps <- 2

\* Two calls of three threads over four points.
Speedy == INSTANCE StreamSpeedy WITH
  nproc <- 3, num <- 4, Calls <- 2, at <- spd_at, bar <- spd_bar,
  call <- spd_call, i <- spd_i, open <- spd_open, kcenter <- spd_kcenter,
  costs <- spd_costs, totalcost <- spd_totalcost, opened <- spd_opened,
  seen <- spd_seen, returned <- spd_returned

\* Two threads, two calls for any two points.
Gain == INSTANCE StreamGain WITH
  nproc <- 2, num <- 4, Positions <- Lines, Costs <- {2, 7}, Calls <- 2,
  Line <- 2, coord <- gain_coord, z <- gain_z, xs <- gain_xs,
  step <- gain_step, cost <- gain_cost, assign <- gain_assign,
  is_center <- gain_is_center, numcenters <- gain_numcenters,
  center_table <- gain_center_table,
  switch_membership <- gain_switch_membership, work_mem <- gain_work_mem,
  gl_cost <- gain_gl_cost, gl_close <- gain_gl_close, mine <- gain_mine,
  returned <- gain_returned, before <- gain_before

\* Three threads, one call.
GainThree == INSTANCE StreamGain WITH
  nproc <- 3, num <- 4, Positions <- Lines, Costs <- {2, 7}, Calls <- 1,
  Line <- 2, coord <- gain_coord, z <- gain_z, xs <- gain_xs,
  step <- gain_step, cost <- gain_cost, assign <- gain_assign,
  is_center <- gain_is_center, numcenters <- gain_numcenters,
  center_table <- gain_center_table,
  switch_membership <- gain_switch_membership, work_mem <- gain_work_mem,
  gl_cost <- gain_gl_cost, gl_close <- gain_gl_close, mine <- gain_mine,
  returned <- gain_returned, before <- gain_before

\* Two chunks, each with more points than the centers allowed; a search that
\* gets stuck may leave 2 (too few), 3 (right) or 7 (too many, and no room).
Median == INSTANCE StreamMedian WITH
  nproc <- 3, Chunks <- 2, chunksize <- 7, Sizes <- {7}, kmin <- 3,
  kmax <- 3, centersize <- 12, Counts <- {2, 3, 7}, SP <- 1, MaxSpeedy <- 2,
  MaxGains <- 1, MaxSteps <- 2, main <- med_main, chunk <- med_chunk,
  num <- med_num, centers <- med_centers, at <- med_at, bar <- med_bar,
  k <- med_k, gain <- med_gain, hizs <- med_hizs, feasible <- med_feasible,
  kfinal <- med_kfinal, i <- med_i, steps <- med_steps, change <- med_change,
  sped <- med_sped, gained <- med_gained

\* A last chunk of few points or many; what is left for the last search may be
\* few points.
Few == INSTANCE StreamMedian WITH
  nproc <- 3, Chunks <- 2, chunksize <- 8, Sizes <- {3, 8}, kmin <- 2,
  kmax <- 3, centersize <- 12, Counts <- {1, 2, 8}, SP <- 1, MaxSpeedy <- 2,
  MaxGains <- 1, MaxSteps <- 2, main <- med_main, chunk <- med_chunk,
  num <- med_num, centers <- med_centers, at <- med_at, bar <- med_bar,
  k <- med_k, gain <- med_gain, hizs <- med_hizs, feasible <- med_feasible,
  kfinal <- med_kfinal, i <- med_i, steps <- med_steps, change <- med_change,
  sped <- med_sped, gained <- med_gained

\* Three cells in a row, two blocks, and cells that overflow.
Row == INSTANCE FluidGrid WITH
  NX <- 3, NY <- 1, NZ <- 1, XDIVS <- 2, ZDIVS <- 1, Particles <- {1, 2, 3},
  PARTICLES_PER_CELL <- 1, Frames <- 1, at <- flu_at, cells <- flu_cells,
  cnumPars <- flu_cnumPars, cells2 <- flu_cells2, cnumPars2 <- flu_cnumPars2,
  density <- flu_density, a <- flu_a, collided <- flu_collided,
  phase <- flu_phase, todo <- flu_todo, reg <- flu_reg

\* Two frames of two particles.
Again == INSTANCE FluidGrid WITH
  NX <- 1, NY <- 1, NZ <- 3, XDIVS <- 1, ZDIVS <- 2, Particles <- {1, 2},
  PARTICLES_PER_CELL <- 1, Frames <- 2, at <- flu_at, cells <- flu_cells,
  cnumPars <- flu_cnumPars, cells2 <- flu_cells2, cnumPars2 <- flu_cnumPars2,
  density <- flu_density, a <- flu_a, collided <- flu_collided,
  phase <- flu_phase, todo <- flu_todo, reg <- flu_reg

\* Three images, two threads a pool, queues of one.
Ferret == INSTANCE FerretThreads WITH
  Images <- 3, N <- 2, DEPTH <- 1, q <- ft_q, held <- ft_held,
  left <- ft_left, cnt_enqueue <- ft_cnt_enqueue,
  cnt_dequeue <- ft_cnt_dequeue, printed <- ft_printed

\* One farm of two workers.
One == INSTANCE FerretFarms WITH
  Shape <- "farm", Images <- 3, NW <- 2, inq <- ff_inq, outq <- ff_outq,
  nextw <- ff_nextw, loading <- ff_loading, nw <- ff_nw,
  cnt_enqueue <- ff_cnt_enqueue, cnt_dequeue <- ff_cnt_dequeue,
  printed <- ff_printed

\* A farm of two pipelines.
Pipes == INSTANCE FerretFarms WITH
  Shape <- "farmofpipes", Images <- 3, NW <- 2, inq <- ff_inq,
  outq <- ff_outq, nextw <- ff_nextw, loading <- ff_loading, nw <- ff_nw,
  cnt_enqueue <- ff_cnt_enqueue, cnt_dequeue <- ff_cnt_dequeue,
  printed <- ff_printed

\* A farm of two workers for each stage.
Farms == INSTANCE FerretFarms WITH
  Shape <- "pipeoffarms", Images <- 3, NW <- 2, inq <- ff_inq,
  outq <- ff_outq, nextw <- ff_nextw, loading <- ff_loading, nw <- ff_nw,
  cnt_enqueue <- ff_cnt_enqueue, cnt_dequeue <- ff_cnt_dequeue,
  printed <- ff_printed

\* Two threads, three chunks of a transaction each, one hot item.
Mine == INSTANCE FreqMine WITH
  Threads <- {0, 1}, Files <- Small, hot_item_num <- 1, FastTable <- 1,
  WorkShare <- 512, THRESHOLD <- 1, hot_item_num1 <- 1, HotShare <- 2,
  W1 <- 2, W2 <- 4, W3 <- 8, file <- frq_file, loop <- frq_loop,
  next <- frq_next, tiled <- frq_tiled, content <- frq_content,
  merged <- frq_merged, tree <- frq_tree, work <- frq_work,
  round <- frq_round, bounds <- frq_bounds, pc <- frq_pc, begun <- frq_begun,
  released_pos <- frq_released_pos, found <- frq_found

\* One thread, up to five items, two of them hot: arrays of all three types.
Wide == INSTANCE FreqMine WITH
  Threads <- {0}, Files <- Large, hot_item_num <- 2, FastTable <- 2,
  WorkShare <- 2, THRESHOLD <- 2, hot_item_num1 <- 2, HotShare <- 2, W1 <- 2,
  W2 <- 4, W3 <- 8, file <- frq_file, loop <- frq_loop, next <- frq_next,
  tiled <- frq_tiled, content <- frq_content, merged <- frq_merged,
  tree <- frq_tree, work <- frq_work, round <- frq_round,
  bounds <- frq_bounds, pc <- frq_pc, begun <- frq_begun,
  released_pos <- frq_released_pos, found <- frq_found

ASSUME /\ Pthreads!ThreadsAssumption /\ Pthreads!StepsAssumption
       /\ WorkersAssumption /\ StepsAssumption
       /\ Fixed!WorkersAssumption /\ Fixed!StepsAssumption
       /\ Speedy!SpeedyAssumption
       /\ Gain!GainAssumption /\ GainThree!GainAssumption
       /\ Median!MedianAssumption /\ Few!MedianAssumption
       /\ Row!GridAssumption /\ Again!GridAssumption
       /\ Mine!FreqMineAssumption /\ Wide!FreqMineAssumption
       /\ Ferret!FerretAssumption /\ One!FerretFarmsAssumption
       /\ Pipes!FerretFarmsAssumption /\ Farms!FerretFarmsAssumption

cthVars == <<cth_pc, cth_accepted_good_moves, cth_accepted_bad_moves,
  cth_temp_steps_completed, cth_begun, cth_keep_going_global_flag,
  cth_arrived>>
spdVars == <<spd_at, spd_bar, spd_call, spd_i, spd_open, spd_kcenter,
  spd_costs, spd_totalcost, spd_opened, spd_seen, spd_returned>>
gainVars == <<gain_coord, gain_z, gain_xs, gain_step, gain_cost, gain_assign,
  gain_is_center, gain_numcenters, gain_center_table, gain_switch_membership,
  gain_work_mem, gain_gl_cost, gain_gl_close, gain_mine, gain_returned,
  gain_before>>
medVars == <<med_main, med_chunk, med_num, med_centers, med_at, med_bar,
  med_k, med_gain, med_hizs, med_feasible, med_kfinal, med_i, med_steps,
  med_change, med_sped, med_gained>>
fluVars == <<flu_at, flu_cells, flu_cnumPars, flu_cells2, flu_cnumPars2,
  flu_density, flu_a, flu_collided, flu_phase, flu_todo, flu_reg>>
ftVars == <<ft_q, ft_held, ft_left, ft_cnt_enqueue, ft_cnt_dequeue,
  ft_printed>>
ffVars == <<ff_inq, ff_outq, ff_nextw, ff_loading, ff_nw, ff_cnt_enqueue,
  ff_cnt_dequeue, ff_printed>>
frqVars == <<frq_file, frq_loop, frq_next, frq_tiled, frq_content,
  frq_merged, frq_tree, frq_work, frq_round, frq_bounds, frq_pc, frq_begun,
  frq_released_pos, frq_found>>
kernelsVars == <<on, cthVars, vars, spdVars, gainVars, medVars, fluVars, ftVars, ffVars,
          frqVars>>

\* One of them is chosen; the others stay as they begin.
KernelsInit ==
  /\ on \in {"threads", "farm", "fixed", "speedy", "gain", "gainThree",
           "median", "few", "row", "frames", "ferret", "one", "pipes",
           "farms", "mine", "wide"}
  /\ Pthreads!Init
  /\ IF on = "fixed" THEN Fixed!Init ELSE Init
  /\ Speedy!Init
  /\ IF on = "gainThree" THEN GainThree!Init ELSE Gain!Init
  /\ (on \notin {"gain", "gainThree"} => /\ gain_coord = [i \in 0..3 |-> <<0, 1, 3, 6>>[i + 1]] /\ gain_z = 2
                                     /\ gain_xs = [c \in 0..1 |-> 0] /\ gain_numcenters = 1)
  /\ IF on = "few" THEN Few!Init ELSE Median!Init
  /\ (on \notin {"median", "few"} => med_kfinal = 0)
  /\ IF on = "frames" THEN Again!Init ELSE Row!Init
  /\ (on \notin {"row", "frames"} => flu_at = [p \in {1, 2, 3} |-> <<0, 0, 0>>])
  /\ Ferret!Init
  /\ IF on = "pipes" THEN Pipes!Init ELSE
     IF on = "farms" THEN Farms!Init ELSE One!Init
  /\ IF on = "wide" THEN Wide!Init ELSE Mine!Init
  /\ (on \notin {"mine", "wide"} => frq_file = <<<<{1, 2}>>, <<{1, 2, 3}>>, <<{1}>>>>)

KernelsNext ==
  \/ on = "threads" /\ Pthreads!Next /\ UNCHANGED <<on, vars, spdVars,
       gainVars, medVars, fluVars, ftVars, ffVars, frqVars>>
  \/ on = "farm" /\ Next /\ UNCHANGED <<on, cthVars, spdVars, gainVars,
       medVars, fluVars, ftVars, ffVars, frqVars>>
  \/ on = "fixed" /\ Fixed!Next /\ UNCHANGED <<on, cthVars, spdVars,
       gainVars, medVars, fluVars, ftVars, ffVars, frqVars>>
  \/ on = "speedy" /\ Speedy!Next /\ UNCHANGED <<on, cthVars, vars,
       gainVars, medVars, fluVars, ftVars, ffVars, frqVars>>
  \/ on = "gain" /\ Gain!Next /\ UNCHANGED <<on, cthVars, vars, spdVars,
       medVars, fluVars, ftVars, ffVars, frqVars>>
  \/ on = "gainThree" /\ GainThree!Next /\ UNCHANGED <<on, cthVars, vars,
       spdVars, medVars, fluVars, ftVars, ffVars, frqVars>>
  \/ on = "median" /\ Median!Next /\ UNCHANGED <<on, cthVars, vars,
       spdVars, gainVars, fluVars, ftVars, ffVars, frqVars>>
  \/ on = "few" /\ Few!Next /\ UNCHANGED <<on, cthVars, vars, spdVars,
       gainVars, fluVars, ftVars, ffVars, frqVars>>
  \/ on = "row" /\ Row!Next /\ UNCHANGED <<on, cthVars, vars, spdVars,
       gainVars, medVars, ftVars, ffVars, frqVars>>
  \/ on = "frames" /\ Again!Next /\ UNCHANGED <<on, cthVars, vars,
       spdVars, gainVars, medVars, ftVars, ffVars, frqVars>>
  \/ on = "ferret" /\ Ferret!Next /\ UNCHANGED <<on, cthVars, vars,
       spdVars, gainVars, medVars, fluVars, ffVars, frqVars>>
  \/ on = "one" /\ One!Next /\ UNCHANGED <<on, cthVars, vars, spdVars,
       gainVars, medVars, fluVars, ftVars, frqVars>>
  \/ on = "pipes" /\ Pipes!Next /\ UNCHANGED <<on, cthVars, vars, spdVars,
       gainVars, medVars, fluVars, ftVars, frqVars>>
  \/ on = "farms" /\ Farms!Next /\ UNCHANGED <<on, cthVars, vars, spdVars,
       gainVars, medVars, fluVars, ftVars, frqVars>>
  \/ on = "mine" /\ Mine!Next /\ UNCHANGED <<on, cthVars, vars, spdVars,
       gainVars, medVars, fluVars, ftVars, ffVars>>
  \/ on = "wide" /\ Wide!Next /\ UNCHANGED <<on, cthVars, vars, spdVars,
       gainVars, medVars, fluVars, ftVars, ffVars>>

FarmedFerret ==
  \/ on = "one" /\ One!Next
  \/ on = "pipes" /\ Pipes!Next
  \/ on = "farms" /\ Farms!Next

\* The fairness of each instance (its own module says why).
KernelsSpec ==
  /\ KernelsInit /\ [][KernelsNext]_kernelsVars
  /\ \A t \in {"t1", "t2", "t3"} : WF_cthVars(on = "threads" /\ Pthreads!Thread(t))
  /\ WF_vars(on = "farm" /\ Balancer)
  /\ \A w \in Workers : WF_vars(on = "farm" /\ Worker(w))
  /\ \A p \in Speedy!Pid : WF_spdVars(on = "speedy" /\ Speedy!Step(p))
  /\ WF_medVars(on = "few" /\ (Few!Join \/ Few!Copy))
  /\ \A p \in Few!Pid : WF_medVars(on = "few" /\ Few!Thread(p))
  /\ WF_fluVars(on = "row" /\ Row!Next)
  /\ WF_fluVars(on = "frames" /\ Again!Next)
  /\ WF_ftVars(on = "ferret" /\ Ferret!Next)
  /\ WF_ffVars(FarmedFerret)

------------------------------------------------------------------------------
\* canneal: no thread begins a temperature step that another one has not come to,
\* and none begins one after another has left; who is asked for a number of steps
\* does that many.  The barrier of the pthreads version does this as the feedback
\* of the farm does (ImplementsAnnealing).
AnnealsInLockstep == /\ Pthreads!ImplementsAnnealing
                     /\ [](Pthreads!TypeOK /\ Pthreads!AsManySteps)
                     /\ [](on = "fixed" => Fixed!JudgedAtRest)

\* streamcluster: in pspeedy each decision and each total takes every center opened
\* so far into account, and no thread uses the shares of another call; what the
\* threads of pgain do to the shared solution leaves a solution, and saves just what
\* the call returns, and the sums that decide about it are those of the whole
\* solution.
CostsAreExact ==
  /\ on = "speedy" => /\ Speedy!TypeOK /\ Speedy!DecidesOnFreshCosts
                      /\ Speedy!SameCenters /\ Speedy!SharesComplete /\ Speedy!OwnTotal
  /\ on = "gain" => /\ Gain!Solution /\ Gain!SavingIsReturned
                    /\ Gain!SumIsCost /\ Gain!OneFieldPerCenter
  /\ on = "gainThree" => /\ GainThree!Solution /\ GainThree!SavingIsReturned
                         /\ GainThree!SumIsCost /\ GainThree!OneFieldPerCenter

\* streamcluster, pkmedian: the threads agree at every barrier and on the answer,
\* and use no memory that one of them has freed (when there are few points, one
\* does: then only the agreement is claimed).
SearchesAgree ==
  IF on = "few" THEN Few!TypeOK /\ Few!Lockstep
  ELSE /\ Median!TypeOK /\ Median!SharedAlive /\ Median!SameAnswer /\ Median!RoomIsChecked

\* fluidanimate: threads that lock the cells where blocks touch, and no others, lose
\* no particle and no contribution of one particle to another.
FluidExact ==
  /\ on = "row" => Row!TypeOK /\ Row!GridHolds /\ Row!SumsComplete
  /\ on = "frames" => Again!TypeOK /\ Again!GridHolds /\ Again!SumsComplete

\* ferret: when the last stage has met the end of the stream, of all that it reads
\* from, every image has been printed once; in the farms the end is the last thing
\* in every channel.
QueriesMatched ==
  /\ on = "ferret" => Ferret!QueriesMatched
  /\ on = "one" => One!QueriesMatched
  /\ on = "pipes" => Pipes!QueriesMatched
  /\ on = "farms" => Farms!QueriesMatched

\* freqmine: what is printed are the frequent sets of items, each once and with its
\* support, whatever the uninitialized pointer of FP_tree::scan2_DB holds; the counts
\* made while a tree is built are the room that its array takes; and no thread frees
\* the nodes of an item that another one still mines or that is still to be mined,
\* though it reads the others' progress as it changes.
MiningIsExact ==
  /\ on = "mine" => Mine!MinesExactly /\ Mine!ArraysFit /\ Mine!NodesAlive
  /\ on = "wide" => Wide!MinesExactly /\ Wide!ArraysFit

\* All threads end: canneal's leave their loop, also when only one worker says
\* that the design has converged, streamcluster's and fluidanimate's are left at
\* no barrier, and every node of ferret meets the end of the stream.
KernelsEnd ==
  <>CASE on = "threads" -> Pthreads!Ended
      [] on = "farm" -> Ended
      [] on = "speedy" -> Speedy!Returned
      [] on = "few" -> Few!Ended
      [] on = "row" -> Row!Joined
      [] on = "frames" -> Again!Joined
      [] on = "ferret" -> Ferret!Joined
      [] on = "one" -> One!Joined
      [] on = "pipes" -> Pipes!Joined
      [] on = "farms" -> Farms!Joined
      [] OTHER -> TRUE
==============================================================================
