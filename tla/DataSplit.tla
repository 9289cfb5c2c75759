----------------------------- MODULE DataSplit -----------------------------
(***************************************************************************)
(* How main() divides the training set among the workers and how many      *)
(* iterations each worker's run_worker loop then runs.  main computes       *)
(*   share    = int((L + n) / n)                                           *)
(*   len_list = [share] * (n - 1) + [L - (n - 1) * share]                  *)
(* and gives worker k a DataLoader over random_split(...)[k]; run_worker    *)
(* iterates over that loader once per epoch.  The loaders of the bert/gpt   *)
(* path use batch_size=2 and drop_last=True; the CIFAR loaders keep the     *)
(* last, partial batch.                                                    *)
(*                                                                         *)
(* MCParamServer derives the workers' loop bounds Iters from these          *)
(* operators.                                                              *)
(***************************************************************************)
EXTENDS Naturals, TLAPS

\* int((L + n) / n): Python's true division truncated, for L, n >= 0.
Share(L, n) == (L + n) \div n

\* len_list[k]: the n-1 first workers get a share, the last the remainder.
PartLen(L, n, k) == IF k < n - 1 THEN Share(L, n) ELSE L - (n - 1) * Share(L, n)

\* len(DataLoader(part, batch_size=b, drop_last=d)).
Batches(len, b, dropLast) ==
  IF dropLast THEN len \div b ELSE (len + b - 1) \div b

\* The iterations of worker k's loop: epoch_num passes over its loader.
LoaderIters(E, L, n, k, b, dropLast) == E * Batches(PartLen(L, n, k), b, dropLast)

-----------------------------------------------------------------------------
(* Python's floor division: L = n * (L \div n) + (L % n) with the remainder  *)
(* in 0..n-1, and adding n to L adds one to the quotient.                   *)
LEMMA ShareIsQuotientPlusOne ==
  ASSUME NEW L \in Nat, NEW n \in Nat \ {0}
  PROVE  /\ Share(L, n) = L \div n + 1
         /\ L = n * (L \div n) + (L % n)
         /\ L % n \in 0 .. n - 1
BY DEF Share

(* The split is never even: whatever the dataset size L and the number of   *)
(* workers n > 1, every worker but the last gets exactly n - (L % n) samples *)
(* more than the last (between 1 and n more), even when n divides L.  With *)
(* drop_last=True this costs the last worker whole batches, which is the   *)
(* short partition that stalls synchronous training.                        *)
THEOREM LastPartShorter ==
  \A L \in Nat, n \in Nat \ {0, 1} : \A k \in 0 .. n - 2 :
     /\ PartLen(L, n, k) - PartLen(L, n, n - 1) = n - (L % n)
     /\ n - (L % n) \in 1 .. n
<1> SUFFICES ASSUME NEW L \in Nat, NEW n \in Nat \ {0, 1}, NEW k \in 0 .. n - 2
             PROVE  /\ PartLen(L, n, k) - PartLen(L, n, n - 1) = n - (L % n)
                    /\ n - (L % n) \in 1 .. n
  OBVIOUS
<1>1. /\ Share(L, n) = L \div n + 1
      /\ L = n * (L \div n) + (L % n)
      /\ L % n \in 0 .. n - 1
  BY ShareIsQuotientPlusOne
<1>2. PartLen(L, n, k) = Share(L, n) /\ PartLen(L, n, n - 1) = L - (n - 1) * Share(L, n)
  BY DEF PartLen
<1> DEFINE q == L \div n  s == Share(L, n)  r == L % n
<1>3. q \in Nat /\ r \in Nat
  BY <1>1
<1>4. (n - 1) * s = n * q + n - q - 1
  BY <1>1, <1>3
<1>5. n * s = n * q + n
  BY <1>1, <1>3
<1>6. PartLen(L, n, k) - PartLen(L, n, n - 1) = n * s - L
  BY <1>1, <1>2, <1>3, <1>4, <1>5
<1>7. n * s - L = n - r
  BY <1>1, <1>3
<1>8. QED
  BY <1>1, <1>6, <1>7
=============================================================================
