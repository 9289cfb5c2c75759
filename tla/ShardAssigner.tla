--------------------------- MODULE ShardAssigner ---------------------------
(***************************************************************************)
(* Parameter partitioning in main() of src/new_models/ps/training_sgd.py   *)
(* (over ps_num parameter servers) and, identically, of                    *)
(* src/new_models/all_reduce/training_sgd_allreduce.py (over wrk_num ring  *)
(* slices).  The parameters are sorted by numel, largest first (Python's   *)
(* sort is stable, so equal sizes keep named_parameters order), and each   *)
(* in turn goes to the shard with the least load so far, np.argmin taking  *)
(* the lowest index on a tie.  A parameter's place is recorded as          *)
(* (param_ps_idx, param_loc_idx), which workers and parameter servers use  *)
(* to index their lists.                                                   *)
(*                                                                         *)
(* A parameter is its position 1..n in named_parameters; the model is any *)
(* sequence of numel values, chosen by Init.                               *)
(***************************************************************************)
EXTENDS Naturals, FiniteSets, Sequences, FiniteSetsExt, Functions

CONSTANTS
  NumShards,   \* ps_num (or wrk_num)
  MaxParams,   \* the most parameters a model of the runs has
  MaxNumel     \* the largest numel of the runs

ASSUME ShardAssumption ==
  /\ NumShards \in Nat \ {0}
  /\ MaxParams \in Nat \ {0}
  /\ MaxNumel \in Nat \ {0}

Shards == 0..NumShards-1

\* param_ps_idx of a parameter not yet placed.
NoShard == NumShards

VARIABLES
  numel,    \* param.numel() of each parameter, in named_parameters order
  done,     \* how many parameters of the sorted list the loop has placed
  nums,     \* ps_param_nums: the load (total numel) of each shard
  lists,    \* ps_param_lists: the parameters of each shard, in order
  psIdx,    \* param_ps_idx
  locIdx    \* param_loc_idx

vars == <<numel, done, nums, lists, psIdx, locIdx>>

Keys == DOMAIN numel

TypeOK ==
  /\ numel \in Seq(1..MaxNumel)
  /\ Len(numel) \in 1..MaxParams
  /\ done \in 0..Len(numel)
  /\ nums \in [Shards -> Nat]
  /\ lists \in [Shards -> Seq(Keys)]
  /\ psIdx \in [Keys -> Shards \cup {NoShard}]
  /\ locIdx \in [Keys -> Nat]

(* sorted(param_numel.items(), key=numel, reverse=True): parameter j comes  *)
(* before k when it is larger, or as large and earlier.                     *)
SortedBefore(j, k) == numel[j] > numel[k] \/ (numel[j] = numel[k] /\ j < k)

\* The position of parameter k in the sorted list.
Rank(k) == Cardinality({j \in Keys : SortedBefore(j, k)}) + 1

\* Mutant: np.argmax instead of np.argmin.
IsArgMax(s) ==
  \A t \in Shards : nums[s] > nums[t] \/ (nums[s] = nums[t] /\ s <= t)

\* np.argmin(ps_param_nums): the first shard of least load.
IsArgMin(s) ==
  \A t \in Shards : nums[s] < nums[t] \/ (nums[s] = nums[t] /\ s <= t)

-----------------------------------------------------------------------------
(* The dictionaries and lists are empty and every load is 0; the model's    *)
(* parameters are whatever model_name built.                                *)
Init ==
  /\ numel \in UNION {[1..n -> 1..MaxNumel] : n \in 1..MaxParams}
  /\ done = 0
  /\ nums = [s \in Shards |-> 0]
  /\ lists = [s \in Shards |-> <<>>]
  /\ psIdx = [k \in Keys |-> NoShard]
  /\ locIdx = [k \in Keys |-> 0]

(* The body of the loop for parameter k and shard s: param_ps_idx,         *)
(* param_loc_idx = loc, the load of s and the list of s.                    *)
Assign(k, s, loc) ==
  /\ psIdx' = [psIdx EXCEPT ![k] = s]
  /\ locIdx' = [locIdx EXCEPT ![k] = loc]
  /\ nums' = [nums EXCEPT ![s] = @ + numel[k]]
  /\ lists' = [lists EXCEPT ![s] = Append(@, k)]
  /\ done' = done + 1
  /\ UNCHANGED numel

\* Mutant: param_loc_idx is taken after the parameter was appended.
PlaceLate(k, s) ==
  done < Len(numel) /\ Rank(k) = done + 1 /\ IsArgMin(s) /\ Assign(k, s, Len(lists[s]) + 1)

\* Mutant: param_loc_idx is the index of the last element, len - 1.
PlaceLastIndex(k, s) ==
  done < Len(numel) /\ Rank(k) = done + 1 /\ IsArgMin(s) /\ Assign(k, s, Len(lists[s]) - 1)

\* Mutant: the parameters are placed in named_parameters order, unsorted.
PlaceUnsorted(k, s) ==
  done < Len(numel) /\ k = done + 1 /\ IsArgMin(s) /\ Assign(k, s, Len(lists[s]))

\* Mutant: the shard is np.argmax(ps_param_nums).
PlaceOnMax(k, s) ==
  done < Len(numel) /\ Rank(k) = done + 1 /\ IsArgMax(s) /\ Assign(k, s, Len(lists[s]))

(* One iteration of the loop: the next parameter k of the sorted list goes  *)
(* to shard s = np.argmin(ps_param_nums), at the end of its list.           *)
Place(k, s) ==
  /\ done < Len(numel)
  /\ Rank(k) = done + 1
  /\ IsArgMin(s)
  /\ Assign(k, s, Len(lists[s]))

\* The loop is over: "Parameter partitioning done".
Partitioned ==
  /\ done = Len(numel)
  /\ UNCHANGED vars

Next == (\E k \in Keys, s \in Shards : Place(k, s)) \/ Partitioned

Spec == Init /\ [][Next]_vars

-----------------------------------------------------------------------------
(* Every placed parameter is found where the workers and parameter servers  *)
(* look for it, grad_lists[param_ps_idx[key]][param_loc_idx[key]], and      *)
(* every slot of a shard's list holds a placed parameter that points back   *)
(* to it: the two indices and the lists agree.                              *)
SlotsAgree ==
  /\ \A k \in Keys : psIdx[k] # NoShard =>
       /\ locIdx[k] < Len(lists[psIdx[k]])
       /\ lists[psIdx[k]][locIdx[k] + 1] = k
  /\ \A s \in Shards : \A p \in 1..Len(lists[s]) :
       psIdx[lists[s][p]] = s /\ locIdx[lists[s][p]] = p - 1

(* The greedy placement keeps the shards balanced: at every iteration two   *)
(* shards' loads differ by at most the numel of some parameter.             *)
Balanced ==
  \A s, t \in Shards : \E k \in Keys : nums[s] <= nums[t] + numel[k]

\* The load of shard s under an assignment f of parameters to shards.
LoadOf(f, s) == SumFunctionOnSet(numel, {k \in Keys : f[k] = s})

\* The least greatest load of any assignment of the parameters to the shards.
OptLoad == Min({Max({LoadOf(f, s) : s \in Shards}) : f \in [Keys -> Shards]})

(* Largest-first greedy placement is Graham's LPT rule: when the loop is    *)
(* over, the most loaded shard carries at most 4/3 - 1/(3 NumShards) times  *)
(* the least possible greatest load.  The sort is what gives the bound.     *)
LPTBound ==
  done = Len(numel) =>
    3 * NumShards * Max(Range(nums)) <= (4 * NumShards - 1) * OptLoad
=============================================================================
