------------------------ MODULE ClusterControlProofs ------------------------
(***************************************************************************)
(* Safety of the two ledgers of the cluster's control plane: the worker    *)
(* queue (ClusterJobs) and the fleet's deployments (FleetDeployments).     *)
(*                                                                         *)
(* The queue, for every set of jobs, workers and grants, every capacity,   *)
(* cost and budget, every lease and amount of interference: the argument   *)
(* has three layers.  RowMoves names what one step may do to the row of a  *)
(* job and to its reservation; StepMovesRow shows that every step moves    *)
(* every row so.  From it follow what holds of a row by itself (RowOK),    *)
(* what the attempts, receipts and calls in flight may say of it           *)
(* (Vouched), and, with lemmas on finite sums, the accounts that span the  *)
(* rows, the grants and the workers (BudgetOK, RoomOK).  IInv is their     *)
(* conjunction.  The refinement of FencedQueue reads the same moves.       *)
(*                                                                         *)
(* The deployments, for every fleet, order of hosts and set of deployers,  *)
(* and any number of lost calls, failing commands, crashes and             *)
(* cancellations: FleetSound joins what holds of the ledger by itself      *)
(* (Ledger: rows, locks, approvals and fences), what its rows say of the   *)
(* hosts and of the switches left behind on them, which may change a host  *)
(* at any later time (Truth), what a deployer knows as long as its fence   *)
(* is current and how little it may do once it is not (Team), and what a   *)
(* receipt on disk may claim (ReceiptsFit).                                *)
(***************************************************************************)
EXTENDS ClusterJobs, FleetDeployments, FiniteSetTheorems, TLAPS

\* A family of sets that holds the empty set, and a set whenever it holds those with one
\* element less, holds every finite set.
LEMMA SubsetsByOne ==
    ASSUME NEW S, IsFiniteSet(S), NEW P,
           \A T \in SUBSET S : (\A x \in T : T \ {x} \in P) => T \in P
    PROVE  SUBSET S \subseteq P
  <1> DEFINE Bad == (SUBSET S) \ P
  <1>1. SUFFICES ASSUME Bad # {} PROVE FALSE OBVIOUS
  <1>2. IsWellFoundedOn(StrictSubsetOrdering(S), SUBSET S)
    BY FS_StrictSubsetOrderingWellFounded, FS_FiniteSubsetsOfFinite
  <1>3. PICK T \in Bad : \A U \in Bad : <<U, T>> \notin StrictSubsetOrdering(S)
    <2> HIDE DEF Bad
    <2>1. Bad \subseteq SUBSET S BY DEF Bad
    <2> QED BY <1>1, <1>2, <2>1, WFMin, Zenon
  <1>4. PICK x \in T : T \ {x} \notin P OBVIOUS
  <1>5. T \ {x} \in Bad /\ T \ {x} # T /\ T \ {x} \subseteq T BY <1>4
  <1>6. <<T \ {x}, T>> \in StrictSubsetOrdering(S) BY <1>3, <1>5 DEF StrictSubsetOrdering
  <1> QED BY <1>3, <1>5, <1>6

AnyOf(s) == CHOOSE x \in s : TRUE

\* g sums f over the subsets of T: the recursion that the community module's fold writes.
Sums(g, f, T) ==
    g = [s \in SUBSET T |-> IF s = {} THEN 0 ELSE f[AnyOf(s)] + g[s \ {AnyOf(s)}]]

SumBy(f, T) == CHOOSE g : Sums(g, f, T)

LEMMA SumIsFold ==
    ASSUME NEW f, NEW S
    PROVE  SumFunctionOnSet(f, S) = SumBy(f, S)[S]
  BY DEF SumFunctionOnSet, FoldFunctionOnSet, MapThenFoldSet, SumBy, Sums, AnyOf

LEMMA SumsUnique ==
    ASSUME NEW f, NEW S, IsFiniteSet(S), NEW T, NEW g, NEW h, Sums(g, f, S), Sums(h, f, T)
    PROVE  \A V \in SUBSET S : V \subseteq T => g[V] = h[V]
  <1> DEFINE P == {V \in SUBSET S : V \subseteq T => g[V] = h[V]}
  <1>1. ASSUME NEW V \in SUBSET S, \A x \in V : V \ {x} \in P, V \subseteq T PROVE g[V] = h[V]
    <2>1. /\ g[V] = IF V = {} THEN 0 ELSE f[AnyOf(V)] + g[V \ {AnyOf(V)}]
          /\ h[V] = IF V = {} THEN 0 ELSE f[AnyOf(V)] + h[V \ {AnyOf(V)}]
      BY <1>1 DEF Sums
    <2>2. V # {} => AnyOf(V) \in V BY DEF AnyOf
    <2>3. V # {} => g[V \ {AnyOf(V)}] = h[V \ {AnyOf(V)}] BY <1>1, <2>2
    <2> QED BY <2>1, <2>3
  <1>2. \A V \in SUBSET S : (\A x \in V : V \ {x} \in P) => V \in P BY <1>1
  <1> HIDE DEF P
  <1>3. SUBSET S \subseteq P BY <1>2, SubsetsByOne
  <1> QED BY <1>3 DEF P

LEMMA SumsExist ==
    ASSUME NEW f, NEW S, IsFiniteSet(S)
    PROVE  \A T \in SUBSET S : Sums(SumBy(f, T), f, T)
  <1> DEFINE P == {T \in SUBSET S : \A U \in SUBSET T : Sums(SumBy(f, U), f, U)}
  <1>1. ASSUME NEW T \in SUBSET S, \A x \in T : T \ {x} \in P PROVE Sums(SumBy(f, T), f, T)
    <2> DEFINE H(U) == SumBy(f, U)[U]
               G == [s \in SUBSET T |-> IF s = {} THEN 0 ELSE f[AnyOf(s)] + H(s \ {AnyOf(s)})]
    <2>1. ASSUME NEW U \in SUBSET T, U # T PROVE Sums(SumBy(f, U), f, U)
      <3>1. PICK x \in T : x \notin U BY <2>1
      <3>2. U \in SUBSET (T \ {x}) BY <3>1
      <3> QED BY <1>1, <3>1, <3>2
    <2>2. ASSUME NEW U \in SUBSET T, U # T PROVE G[U] = H(U)
      <3>1. H(U) = IF U = {} THEN 0 ELSE f[AnyOf(U)] + SumBy(f, U)[U \ {AnyOf(U)}]
        BY <2>1, <2>2 DEF Sums
      <3>2. CASE U = {} BY <3>1, <3>2
      <3>3. CASE U # {}
        <4> DEFINE V == U \ {AnyOf(U)}
        <4>1. V \in SUBSET T /\ V # T BY <2>2
        <4>2. IsFiniteSet(U) BY FS_Subset
        <4> HIDE DEF V
        <4>3. V \subseteq U BY DEF V
        <4>4. SumBy(f, U)[V] = SumBy(f, V)[V]
          BY <2>1, <2>2, <4>1, <4>2, <4>3, SumsUnique
        <4> QED BY <3>1, <3>3, <4>4 DEF V
      <3> QED BY <3>2, <3>3
    <2>3. ASSUME NEW s \in SUBSET T, s # {} PROVE G[s \ {AnyOf(s)}] = H(s \ {AnyOf(s)})
      <3>1. AnyOf(s) \in s BY <2>3 DEF AnyOf
      <3> HIDE DEF G, H
      <3>2. s \ {AnyOf(s)} \in SUBSET T /\ s \ {AnyOf(s)} # T BY <3>1
      <3> QED BY <2>2, <3>2
    <2>4. G = [s \in SUBSET T |-> IF s = {} THEN 0 ELSE f[AnyOf(s)] + G[s \ {AnyOf(s)}]]
      <3>1. \A s \in SUBSET T : (IF s = {} THEN 0 ELSE f[AnyOf(s)] + H(s \ {AnyOf(s)}))
                                = (IF s = {} THEN 0 ELSE f[AnyOf(s)] + G[s \ {AnyOf(s)}])
        <4> HIDE DEF G, H
        <4> QED BY <2>3
      <3> DEFINE I(s) == IF s = {} THEN 0 ELSE f[AnyOf(s)] + G[s \ {AnyOf(s)}]
                 J(s) == IF s = {} THEN 0 ELSE f[AnyOf(s)] + H(s \ {AnyOf(s)})
      <3>2. \A s \in SUBSET T : J(s) = I(s) BY <3>1
      <3>3. G = [s \in SUBSET T |-> J(s)] OBVIOUS
      <3> HIDE DEF I, J, G
      <3>4. G = [s \in SUBSET T |-> I(s)] BY <3>2, <3>3
      <3> QED BY <3>4 DEF I
    <2> HIDE DEF G
    <2>5. Sums(G, f, T) BY <2>4 DEF Sums
    <2>6. \E g : Sums(g, f, T) BY <2>5
    <2> QED BY <2>6 DEF SumBy
  <1>2. ASSUME NEW T \in SUBSET S, \A x \in T : T \ {x} \in P PROVE T \in P
    <2>1. ASSUME NEW U \in SUBSET T PROVE Sums(SumBy(f, U), f, U)
      <3>1. CASE U = T BY <1>1, <1>2, <3>1
      <3>2. CASE U # T
        <4>1. PICK x \in T : x \notin U BY <3>2
        <4>2. U \in SUBSET (T \ {x}) BY <4>1
        <4> QED BY <1>2, <4>1, <4>2
      <3> QED BY <3>1, <3>2
    <2> QED BY <2>1
  <1>3. SUBSET S \subseteq P
    <2> HIDE DEF P
    <2> QED BY <1>2, SubsetsByOne
  <1> QED BY <1>3

\* The community module's sum, unfolded once.
LEMMA SumUnfolds ==
    ASSUME NEW f, NEW S, IsFiniteSet(S)
    PROVE  /\ S = {} => SumFunctionOnSet(f, S) = 0
           /\ S # {} => /\ AnyOf(S) \in S
                        /\ SumFunctionOnSet(f, S) = f[AnyOf(S)] + SumFunctionOnSet(f, S \ {AnyOf(S)})
  <1> DEFINE V == S \ {AnyOf(S)}
  <1>1. Sums(SumBy(f, S), f, S) /\ Sums(SumBy(f, V), f, V) BY SumsExist
  <1>2. SumBy(f, S)[S] = IF S = {} THEN 0 ELSE f[AnyOf(S)] + SumBy(f, S)[V]
    BY <1>1 DEF Sums
  <1>3. SumBy(f, S)[V] = SumBy(f, V)[V]
    <2>1. V \in SUBSET S OBVIOUS
    <2> HIDE DEF V
    <2> QED BY <1>1, <2>1, SumsUnique
  <1>4. S # {} => AnyOf(S) \in S BY DEF AnyOf
  <1> QED BY <1>2, <1>3, <1>4, SumIsFold

-----------------------------------------------------------------------------
LEMMA SumNat ==
    ASSUME NEW D, NEW f \in [D -> Nat], NEW S, IsFiniteSet(S), S \subseteq D
    PROVE  \A T \in SUBSET S : SumFunctionOnSet(f, T) \in Nat
  <1> DEFINE P == {T \in SUBSET S : SumFunctionOnSet(f, T) \in Nat}
  <1>1. ASSUME NEW T \in SUBSET S, \A x \in T : T \ {x} \in P
        PROVE  SumFunctionOnSet(f, T) \in Nat
    <2>1. IsFiniteSet(T) BY FS_Subset
    <2>2. CASE T = {}
      <3>1. SumFunctionOnSet(f, T) = 0 BY <2>1, <2>2, SumUnfolds, Zenon
      <3> QED BY <3>1
    <2>3. CASE T # {}
      <3>1. AnyOf(T) \in T /\ SumFunctionOnSet(f, T) = f[AnyOf(T)] + SumFunctionOnSet(f, T \ {AnyOf(T)})
        BY <2>1, <2>3, SumUnfolds
      <3>2. SumFunctionOnSet(f, T \ {AnyOf(T)}) \in Nat BY <1>1, <3>1
      <3>3. f[AnyOf(T)] \in Nat BY <3>1
      <3> QED BY <3>1, <3>2, <3>3
    <2> QED BY <2>2, <2>3
  <1>2. SUBSET S \subseteq P
    <2>1. \A T \in SUBSET S : (\A x \in T : T \ {x} \in P) => T \in P BY <1>1
    <2> HIDE DEF P
    <2> QED BY <2>1, SubsetsByOne
  <1> QED BY <1>2

\* Any element may be taken out first.
LEMMA SumTakeOut ==
    ASSUME NEW D, NEW f \in [D -> Nat], NEW S, IsFiniteSet(S), S \subseteq D
    PROVE  \A T \in SUBSET S : \A y \in T :
              SumFunctionOnSet(f, T) = f[y] + SumFunctionOnSet(f, T \ {y})
  <1> DEFINE P == {T \in SUBSET S : \A y \in T :
                     SumFunctionOnSet(f, T) = f[y] + SumFunctionOnSet(f, T \ {y})}
  <1>1. ASSUME NEW T \in SUBSET S, \A x \in T : T \ {x} \in P, NEW y \in T
        PROVE  SumFunctionOnSet(f, T) = f[y] + SumFunctionOnSet(f, T \ {y})
    <2> DEFINE c == AnyOf(T)
               N(U) == SumFunctionOnSet(f, U)
    <2>1. IsFiniteSet(T) BY FS_Subset
    <2>2. c \in T /\ N(T) = f[c] + N(T \ {c}) BY <2>1, SumUnfolds
    <2>3. CASE y = c BY <2>2, <2>3
    <2>4. CASE y # c
      <3>1. N(T \ {c}) = f[y] + N((T \ {c}) \ {y})
        <4>1. T \ {c} \in P BY <1>1, <2>2
        <4>2. y \in T \ {c} BY <2>4
        <4> QED BY <4>1, <4>2
      <3>2. N(T \ {y}) = f[c] + N((T \ {y}) \ {c})
        <4>1. T \ {y} \in P BY <1>1
        <4>2. c \in T \ {y} BY <2>4, <2>2
        <4> QED BY <4>1, <4>2
      <3>3. (T \ {c}) \ {y} = (T \ {y}) \ {c} OBVIOUS
      <3>4. N((T \ {c}) \ {y}) \in Nat BY SumNat
      <3>5. f[c] \in Nat /\ f[y] \in Nat BY <2>2
      <3>6. N((T \ {y}) \ {c}) \in Nat BY <3>3, <3>4, Zenon
      <3>7. N(T \ {c}) = f[y] + N((T \ {y}) \ {c}) BY <3>1, <3>3, Zenon
      <3> HIDE DEF N, c
      <3>8. N(T) = f[y] + N(T \ {y}) BY <2>2, <3>2, <3>5, <3>6, <3>7
      <3> QED BY <3>8 DEF N
    <2> QED BY <2>3, <2>4
  <1>2. SUBSET S \subseteq P
    <2>1. \A T \in SUBSET S : (\A x \in T : T \ {x} \in P) => T \in P BY <1>1
    <2> HIDE DEF P
    <2> QED BY <2>1, SubsetsByOne
  <1> QED BY <1>2

\* A sum over a set is that over a part of it and that over the rest.
LEMMA SumSplits ==
    ASSUME NEW D, NEW f \in [D -> Nat], NEW S, IsFiniteSet(S), S \subseteq D, NEW T \in SUBSET S
    PROVE  /\ SumFunctionOnSet(f, S) = SumFunctionOnSet(f, T) + SumFunctionOnSet(f, S \ T)
           /\ SumFunctionOnSet(f, T) \in Nat /\ SumFunctionOnSet(f, S \ T) \in Nat
           /\ SumFunctionOnSet(f, T) <= SumFunctionOnSet(f, S)
  <1> DEFINE N(U) == SumFunctionOnSet(f, U)
             P == {U \in SUBSET S : N(S) = N(U) + N(S \ U)}
  <1>0. \A U \in SUBSET S : N(U) \in Nat BY SumNat
  <1>1. ASSUME NEW U \in SUBSET S, \A x \in U : U \ {x} \in P PROVE N(S) = N(U) + N(S \ U)
    <2>1. CASE U = {}
      <3>1. N(U) = 0 BY <2>1, FS_EmptySet, SumUnfolds
      <3>2. S \ U = S BY <2>1
      <3> QED BY <1>0, <3>1, <3>2
    <2>2. CASE U # {}
      <3>1. PICK y \in U : TRUE BY <2>2
      <3>2. N(S) = N(U \ {y}) + N(S \ (U \ {y})) BY <1>1
      <3>3. N(U) = f[y] + N(U \ {y}) BY SumTakeOut
      <3>4. N(S \ (U \ {y})) = f[y] + N(S \ U)
        <4>1. y \in S \ (U \ {y}) /\ (S \ (U \ {y})) \ {y} = S \ U OBVIOUS
        <4> QED BY <4>1, SumTakeOut
      <3>5. f[y] \in Nat /\ N(U \ {y}) \in Nat /\ N(S \ U) \in Nat BY <1>0
      <3> HIDE DEF N
      <3> QED BY <3>2, <3>3, <3>4, <3>5
    <2> QED BY <2>1, <2>2
  <1>2. SUBSET S \subseteq P
    <2>1. \A U \in SUBSET S : (\A x \in U : U \ {x} \in P) => U \in P BY <1>1
    <2> HIDE DEF P
    <2> QED BY <2>1, SubsetsByOne
  <1>3. N(S) = N(T) + N(S \ T) BY <1>2
  <1>4. N(T) \in Nat /\ N(S \ T) \in Nat BY <1>0
  <1> HIDE DEF N
  <1>5. N(T) <= N(S) BY <1>3, <1>4
  <1> QED BY <1>3, <1>4, <1>5 DEF N

\* A sum depends on the values it adds up only.
LEMMA SumSame ==
    ASSUME NEW f, NEW g, NEW S, IsFiniteSet(S), \A x \in S : f[x] = g[x]
    PROVE  SumFunctionOnSet(f, S) = SumFunctionOnSet(g, S)
  <1> DEFINE P == {T \in SUBSET S : SumFunctionOnSet(f, T) = SumFunctionOnSet(g, T)}
  <1>1. ASSUME NEW T \in SUBSET S, \A x \in T : T \ {x} \in P
        PROVE  SumFunctionOnSet(f, T) = SumFunctionOnSet(g, T)
    <2>1. IsFiniteSet(T) BY FS_Subset
    <2>2. CASE T = {} BY <2>1, <2>2, SumUnfolds
    <2>3. CASE T # {}
      <3>1. /\ AnyOf(T) \in T
            /\ SumFunctionOnSet(f, T) = f[AnyOf(T)] + SumFunctionOnSet(f, T \ {AnyOf(T)})
            /\ SumFunctionOnSet(g, T) = g[AnyOf(T)] + SumFunctionOnSet(g, T \ {AnyOf(T)})
        BY <2>1, <2>3, SumUnfolds
      <3>2. T \ {AnyOf(T)} \in P BY <1>1, <3>1
      <3> QED BY <3>1, <3>2
    <2> QED BY <2>2, <2>3
  <1>2. SUBSET S \subseteq P
    <2>1. \A T \in SUBSET S : (\A x \in T : T \ {x} \in P) => T \in P BY <1>1
    <2> HIDE DEF P
    <2> QED BY <2>1, SubsetsByOne
  <1> QED BY <1>2
\* A sum of zeros.
LEMMA SumOfZeros ==
    ASSUME NEW f, NEW S, IsFiniteSet(S), \A x \in S : f[x] = 0
    PROVE  SumFunctionOnSet(f, S) = 0
  <1> DEFINE P == {T \in SUBSET S : SumFunctionOnSet(f, T) = 0}
  <1>1. ASSUME NEW T \in SUBSET S, \A x \in T : T \ {x} \in P
        PROVE  SumFunctionOnSet(f, T) = 0
    <2>1. IsFiniteSet(T) BY FS_Subset
    <2>2. CASE T = {} BY <2>1, <2>2, SumUnfolds
    <2>3. CASE T # {}
      <3>1. /\ AnyOf(T) \in T
            /\ SumFunctionOnSet(f, T) = f[AnyOf(T)] + SumFunctionOnSet(f, T \ {AnyOf(T)})
        BY <2>1, <2>3, SumUnfolds
      <3>2. SumFunctionOnSet(f, T \ {AnyOf(T)}) = 0 BY <1>1, <3>1
      <3> QED BY <3>1, <3>2
    <2> QED BY <2>2, <2>3
  <1>2. SUBSET S \subseteq P
    <2>1. \A T \in SUBSET S : (\A x \in T : T \ {x} \in P) => T \in P BY <1>1
    <2> HIDE DEF P
    <2> QED BY <2>1, SubsetsByOne
  <1> QED BY <1>2

\* One value changes.
LEMMA SumChanges ==
    ASSUME NEW D, IsFiniteSet(D), NEW f \in [D -> Nat], NEW h \in [D -> Nat], NEW y \in D,
           \A x \in D : x # y => f[x] = h[x]
    PROVE  SumFunctionOnSet(h, D) + f[y] = SumFunctionOnSet(f, D) + h[y]
  <1>1. IsFiniteSet(D \ {y}) BY FS_Subset
  <1>2. SumFunctionOnSet(f, D) = f[y] + SumFunctionOnSet(f, D \ {y}) BY SumTakeOut
  <1>3. SumFunctionOnSet(h, D) = h[y] + SumFunctionOnSet(h, D \ {y}) BY SumTakeOut
  <1>4. SumFunctionOnSet(f, D \ {y}) = SumFunctionOnSet(h, D \ {y}) BY <1>1, SumSame
  <1>5. SumFunctionOnSet(f, D \ {y}) \in Nat BY SumNat
  <1>6. f[y] \in Nat /\ h[y] \in Nat OBVIOUS
  <1> QED BY <1>2, <1>3, <1>4, <1>5, <1>6

\* The values of a part are taken away.
LEMMA SumVanishes ==
    ASSUME NEW D, IsFiniteSet(D), NEW f \in [D -> Nat], NEW h \in [D -> Nat], NEW T \in SUBSET D,
           \A x \in T : h[x] = 0, \A x \in D \ T : h[x] = f[x]
    PROVE  /\ SumFunctionOnSet(h, D) = SumFunctionOnSet(f, D) - SumFunctionOnSet(f, T)
           /\ SumFunctionOnSet(f, T) \in Nat /\ SumFunctionOnSet(f, D) \in Nat
           /\ SumFunctionOnSet(f, T) <= SumFunctionOnSet(f, D)
  <1>1. IsFiniteSet(T) /\ IsFiniteSet(D \ T) BY FS_Subset
  <1>2. SumFunctionOnSet(h, T) = 0 BY <1>1, SumOfZeros
  <1>3. SumFunctionOnSet(h, D \ T) = SumFunctionOnSet(f, D \ T) BY <1>1, SumSame
  <1>4. SumFunctionOnSet(h, D) = SumFunctionOnSet(h, T) + SumFunctionOnSet(h, D \ T)
    BY SumSplits
  <1>5. /\ SumFunctionOnSet(f, D) = SumFunctionOnSet(f, T) + SumFunctionOnSet(f, D \ T)
        /\ SumFunctionOnSet(f, T) \in Nat /\ SumFunctionOnSet(f, D \ T) \in Nat
        /\ SumFunctionOnSet(f, T) <= SumFunctionOnSet(f, D)
    BY SumSplits
  <1>6. SumFunctionOnSet(f, D) \in Nat BY SumNat
  <1> QED BY <1>2, <1>3, <1>4, <1>5, <1>6

-----------------------------------------------------------------------------
(* The inductive invariant.                                                *)

\* The active reservation that a row stands for.
Mirror(row) ==
    IF row.status \in Owned
    THEN [worker |-> row.worker, fence |-> row.fence, lease |-> row.lease] ELSE Idle

\* What holds of a row by itself.  A fence is at most the ticks begun, because a lease
\* spans one and a row is not given again before its lease is over.
RowOK(j) ==
    LET row == rows[j]
    IN  /\ resv[j] = Mirror(row)
        /\ row.status \in Owned => row.worker \in Workers /\ row.fence >= 1
        /\ row.reserved = IF row.status \in Owned /\ row.grant # None THEN Cost[j] ELSE 0
        /\ row.status \in {"absent", "queued"} => row.grant = None /\ row.fence <= clock
        /\ row.status = "running" => row.fence <= row.lease
        /\ row.fence <= clock + 1
        /\ row.saved <= row.fence
        /\ IF row.status = "succeeded" THEN row.result \in 1 .. row.fence ELSE row.result = 0

\* A word about turn fence of job j: it is a turn that was given, a result is that of an
\* attempt so far, and for the turn the row is in it is the committed result, if there is one.
Vouched(j, fence, ok, by) ==
    /\ fence \in 1 .. rows[j].fence
    /\ ok => /\ by \in 1 .. fence
             /\ j \notin Previews /\ fence = rows[j].fence =>
                   by = IF rows[j].saved = 0 THEN fence ELSE rows[j].saved

\* An attempt of the turn the row is in works on from the checkpoint that is committed, or
\* there was none and it can only be its own.
AttemptOK(a) ==
    /\ Vouched(a.job, a.fence, a.ok, a.by)
    /\ a.ok => a.at = "report"
    /\ a.resumed <= a.fence
    /\ a.at = "exec" /\ a.job \notin Previews /\ a.fence = rows[a.job].fence =>
          IF a.resumed # 0 THEN rows[a.job].saved = a.resumed
          ELSE rows[a.job].saved \in {0, a.fence}

ReceiptOK(j, r) == r = NoReceipt \/ Vouched(j, r.fence, r.ok, r.by)

WordsOK ==
    /\ \A a \in attempts : AttemptOK(a)
    /\ \A w \in Workers, j \in Jobs : ReceiptOK(j, receipts[w][j])
    /\ \A c \in calls : Vouched(c.job, c.fence, c.ok, c.by)

BudgetOK ==
    \A g \in Grants : /\ grants[g].reserved = HeldOf(g, Jobs)
                      /\ grants[g].reserved + grants[g].spent <= Budget[g]

\* A running job whose lease has lapsed may still renew it, so its room stays booked until
\* a poll has settled it; a cancelling job is never renewed.
Booked(w) == {j \in Jobs : /\ resv[j].worker = w
                           /\ rows[j].status = "running" \/ resv[j].lease > clock}

RoomOK == \A w \in Workers : Load(Booked(w)) <= Capacity[w]

IInv ==
    /\ TypeOK
    /\ \A j \in Jobs : RowOK(j)
    /\ WordsOK
    /\ BudgetOK
    /\ RoomOK
    /\ PreviewFollowsJob

-----------------------------------------------------------------------------
(* What a step may do to one row and its reservation.                      *)

SameRow(j) == rows'[j] = rows[j] /\ resv'[j] = resv[j]

Submitted(j) ==
    /\ rows[j].status = "absent"
    /\ rows'[j] = [rows[j] EXCEPT !.status = "queued"]
    /\ resv'[j] = resv[j]

Withdrawn(j) ==
    /\ rows[j].status = "queued"
    /\ rows'[j] = [rows[j] EXCEPT !.status = "cancelled", !.grant = None, !.reserved = 0]
    /\ resv'[j] = Idle

Cancelled(j) ==
    /\ rows[j].status \in Owned
    /\ rows'[j] = [rows[j] EXCEPT !.status = "cancelling"]
    /\ resv'[j] = resv[j]

Expired(j) ==
    /\ j \in Overdue
    /\ rows'[j] = [rows[j] EXCEPT !.status = "failed"]
    /\ resv'[j] = resv[j]

Returned(j) ==
    /\ j \in Lapsed
    /\ rows'[j] = [rows[j] EXCEPT !.status = "queued", !.worker = None, !.lease = 0,
                                  !.grant = None, !.reserved = 0]
    /\ resv'[j] = Idle

Given(j) ==
    \E w \in Workers, g \in Grants \cup {None} :
        /\ Claim(w)
        /\ rows[j].status = "queued" \/ j \in Lapsed
        /\ clock < Deadline[j]
        /\ rows'[j] = [rows[j] EXCEPT !.status = "running", !.worker = w, !.fence = @ + 1,
                                      !.lease = LeaseFrom(j), !.grant = g,
                                      !.reserved = IF g = None THEN 0 ELSE Cost[j]]
        /\ resv'[j] = [worker |-> w, fence |-> rows[j].fence + 1, lease |-> LeaseFrom(j)]

Renewed(j) ==
    /\ rows[j].status = "running" /\ clock < Deadline[j]
    /\ rows'[j] = [rows[j] EXCEPT !.lease = LeaseFrom(j)]
    /\ resv'[j] = [resv[j] EXCEPT !.lease = LeaseFrom(j)]

\* What an attempt reports if it does not raise.
ByOf(a) == IF a.resumed # 0 /\ a.job \notin Previews THEN a.resumed ELSE a.fence

Saved(j) ==
    \E a \in attempts :
        /\ a.job = j /\ a.at = "exec" /\ a.fence = rows[j].fence
        /\ rows[j].status = "running" /\ rows[j].saved = 0
        /\ rows'[j] = [rows[j] EXCEPT !.saved = ByOf(a)]
        /\ resv'[j] = resv[j]

Finished(j) ==
    \E c \in calls, cost \in Nat :
        /\ c.job = j /\ c.fence = rows[j].fence
        /\ rows[j].status \in Owned
        /\ rows'[j] = [rows[j] EXCEPT !.status = StatusOf(c, cost), !.lease = 0, !.reserved = 0,
                           !.result = IF StatusOf(c, cost) = "succeeded" THEN c.by ELSE 0]
        /\ resv'[j] = Idle

RowMoves(j) ==
    \/ SameRow(j) \/ Submitted(j) \/ Withdrawn(j) \/ Cancelled(j) \/ Expired(j)
    \/ Returned(j) \/ Given(j) \/ Renewed(j) \/ Saved(j) \/ Finished(j)

AttemptType == [job : Jobs, worker : Workers, fence : Fences, ok : BOOLEAN, by : Fences,
                at : {"exec", "report"}, resumed : Fences, cancelSeen : BOOLEAN, renewing : BOOLEAN]
CallType == [worker : Workers, job : Jobs, fence : Fences, ok : BOOLEAN, by : Fences]

\* What the other lemmas need to know of the constants and of the types.
LEMMA Basics ==
    ASSUME TypeOK
    PROVE  /\ IsFiniteSet(Jobs) /\ Need \in [Jobs -> Nat] /\ Cost \in [Jobs -> Nat]
           /\ Deadline \in [Jobs -> Nat] /\ Ttl \in [Jobs -> Nat] /\ Capacity \in [Workers -> Nat]
           /\ Budget \in [Grants -> Nat]
           /\ Lease \in Nat \ {0} /\ MaxClock \in Nat /\ MaxFaults \in Nat
           /\ None \notin Workers /\ None \notin Grants
           /\ \A j \in Jobs : Cost[j] > 0 => j \in NeedsGrant
           /\ clock \in Nat /\ clock <= MaxClock
           /\ rows \in [Jobs -> Row]
           /\ resv \in [Jobs -> [worker : Workers \cup {None}, fence : Fences, lease : 0 .. MaxClock + Lease]]
           /\ grants \in [Grants -> [open : BOOLEAN, reserved : Nat, spent : Nat]]
           /\ attempts \subseteq AttemptType /\ calls \subseteq CallType
           /\ receipts \in [Workers -> [Jobs -> [fence : Fences, ok : BOOLEAN, by : Fences]]]
           /\ Fences \subseteq Nat
           /\ \A j \in Jobs : LeaseFrom(j) \in Nat
           /\ \A j \in Jobs : clock < Deadline[j] => LeaseFrom(j) >= clock + 1
           /\ \A j \in Jobs : LeaseFrom(j) \in 0 .. MaxClock + Lease
  <1>1. /\ MaxClock \in Nat /\ Lease \in Nat \ {0} /\ Deadline \in [Jobs -> Nat]
        /\ clock \in 0 .. MaxClock
    BY ClusterAssumption DEF TypeOK
  <1>2. clock \in Nat /\ clock <= MaxClock BY <1>1
  <1>3. Fences \subseteq Nat BY <1>1 DEF Fences
  <1>4. ASSUME NEW j \in Jobs
        PROVE  /\ LeaseFrom(j) \in Nat /\ LeaseFrom(j) \in 0 .. MaxClock + Lease
               /\ clock < Deadline[j] => LeaseFrom(j) >= clock + 1
    <2>1. Deadline[j] \in Nat BY <1>1
    <2> QED BY <1>1, <1>2, <2>1 DEF LeaseFrom, Least
  <1>5. /\ IsFiniteSet(Jobs) /\ Need \in [Jobs -> Nat] /\ Cost \in [Jobs -> Nat]
        /\ Ttl \in [Jobs -> Nat] /\ Capacity \in [Workers -> Nat] /\ Budget \in [Grants -> Nat]
        /\ MaxFaults \in Nat /\ None \notin Workers /\ None \notin Grants
        /\ \A j \in Jobs : Cost[j] > 0 => j \in NeedsGrant
    BY ClusterAssumption
  <1> QED BY <1>1, <1>2, <1>3, <1>4, <1>5 DEF TypeOK, AttemptType, CallType

-----------------------------------------------------------------------------
(* The type of a row that was changed.                                     *)

Statuses == {"absent", "queued", "running", "cancelling"} \cup Ended
Leases == 0 .. MaxClock + Lease

LEMMA WithdrawnRowType ==
    ASSUME NEW row \in Row, NEW s \in Statuses, NEW g \in Grants \cup {None}, NEW r \in Nat
    PROVE  [row EXCEPT !.status = s, !.grant = g, !.reserved = r] \in Row
  BY DEF Row, Statuses

LEMMA GivenRowType ==
    ASSUME NEW row \in Row, NEW s \in Statuses, NEW w \in Workers \cup {None}, NEW f \in Fences,
           NEW l \in Leases, NEW g \in Grants \cup {None}, NEW r \in Nat
    PROVE  [row EXCEPT !.status = s, !.worker = w, !.fence = f, !.lease = l,
                       !.grant = g, !.reserved = r] \in Row
  BY DEF Row, Statuses, Leases

LEMMA FinishedRowType ==
    ASSUME NEW row \in Row, NEW s \in Statuses, NEW l \in Leases, NEW r \in Nat, NEW b \in Fences
    PROVE  [row EXCEPT !.status = s, !.lease = l, !.reserved = r, !.result = b] \in Row
  BY DEF Row, Statuses, Leases

LEMMA Zeros ==
    /\ 0 \in Leases /\ 0 \in Fences /\ 0 \in Nat
    /\ None \in Workers \cup {None} /\ None \in Grants \cup {None}
  BY ClusterAssumption DEF Leases, Fences

LEMMA ReturnedRowType ==
    ASSUME NEW row \in Row
    PROVE  [row EXCEPT !.status = "queued", !.worker = None, !.lease = 0,
                       !.grant = None, !.reserved = 0] \in Row
  <1>1. "queued" \in Statuses BY DEF Statuses
  <1>2. row.fence \in Fences BY DEF Row
  <1>3. [row EXCEPT !.status = "queued", !.worker = None, !.fence = row.fence, !.lease = 0,
                    !.grant = None, !.reserved = 0] \in Row
    BY <1>1, <1>2, Zeros, GivenRowType
  <1>4. [row EXCEPT !.status = "queued", !.worker = None, !.fence = row.fence, !.lease = 0,
                    !.grant = None, !.reserved = 0]
        = [row EXCEPT !.status = "queued", !.worker = None, !.lease = 0,
                      !.grant = None, !.reserved = 0]
    BY DEF Row
  <1> QED BY <1>3, <1>4

LEMMA RowFields ==
    ASSUME TypeOK, NEW j \in Jobs
    PROVE  /\ rows[j].fence \in Nat /\ rows[j].lease \in Nat /\ rows[j].saved \in Nat
           /\ rows[j].result \in Nat /\ rows[j].reserved \in Nat
           /\ rows[j].worker \in Workers \cup {None} /\ rows[j].grant \in Grants \cup {None}
           /\ rows[j].status \in Statuses
  <1>1. rows[j] \in Row BY Basics
  <1>2. Fences \subseteq Nat /\ MaxClock \in Nat /\ Lease \in Nat BY Basics
  <1>3. rows[j].lease \in 0 .. MaxClock + Lease BY <1>1 DEF Row
  <1>4. rows[j].lease \in Nat BY <1>2, <1>3
  <1> QED BY <1>1, <1>2, <1>4 DEF Row, Statuses

-----------------------------------------------------------------------------
\* claim_job's settling moves every row as it may.
LEMMA ReapMovesRow ==
    ASSUME TypeOK, NEW j \in Jobs
    PROVE  /\ ReapedRows[j] \in Row /\ ReapedRows[j].fence = rows[j].fence
           /\ rows'[j] = ReapedRows[j] /\ resv'[j] = ReapedResv[j] => RowMoves(j)
           /\ ReapedRows[j].status = "queued" => rows[j].status = "queued" \/ j \in Lapsed
           /\ ReapedRows[j].status = "running" => j \notin Lapsed /\ ReapedRows[j] = rows[j]
  <1>1. rows[j] \in Row BY Basics
  <1>2. /\ ReapedRows[j] = IF j \in Overdue THEN [rows[j] EXCEPT !.status = "failed"]
                           ELSE IF j \in Lapsed
                           THEN [rows[j] EXCEPT !.status = "queued", !.worker = None, !.lease = 0,
                                                !.grant = None, !.reserved = 0]
                           ELSE rows[j]
        /\ ReapedResv[j] = IF j \in Lapsed THEN Idle ELSE resv[j]
    BY DEF ReapedRows, ReapedResv
  <1>3. Lease \in Nat /\ MaxClock \in Nat BY Basics
  <1>4. CASE j \in Overdue
    <2>1. j \notin Lapsed BY <1>4 DEF Overdue, Lapsed
    <2>2. rows[j].status = "queued" BY <1>4 DEF Overdue
    <2> QED BY <1>1, <1>2, <1>4, <2>1, <2>2 DEF RowMoves, Expired, Row, Ended
  <1>5. CASE j \notin Overdue /\ j \in Lapsed
    <2>1. rows'[j] = ReapedRows[j] /\ resv'[j] = ReapedResv[j] => RowMoves(j)
      BY <1>2, <1>5 DEF RowMoves, Returned
    <2>2. /\ ReapedRows[j] = [rows[j] EXCEPT !.status = "queued", !.worker = None, !.lease = 0,
                                             !.grant = None, !.reserved = 0]
      BY <1>2, <1>5
    <2>3. ReapedRows[j] \in Row BY <1>1, <2>2, ReturnedRowType
    <2>4. ReapedRows[j].fence = rows[j].fence /\ ReapedRows[j].status = "queued"
      BY <1>1, <2>2 DEF Row
    <2> QED BY <1>5, <2>1, <2>3, <2>4
  <1>6. CASE j \notin Overdue /\ j \notin Lapsed
    BY <1>1, <1>2, <1>6 DEF RowMoves, SameRow
  <1> QED BY <1>4, <1>5, <1>6

\* claim_job moves every row as it may.
LEMMA GiveMovesRow ==
    ASSUME TypeOK, NEW w \in Workers, Claim(w), NEW j \in Candidates(w), NEW g \in Offers(w, j),
           Give(w, j, g), NEW k \in Jobs
    PROVE  RowMoves(k)
  <1>1. j \in Jobs /\ ReapedRows[j].status = "queued" /\ clock < Deadline[j] BY DEF Candidates
  <1>2. g \in Grants \cup {None} BY DEF Offers
  <1>3. rows \in [Jobs -> Row] BY Basics
  <1>4. CASE k # j
    <2>1. rows'[k] = ReapedRows[k] /\ resv'[k] = ReapedResv[k]
      BY <1>4 DEF Give, ReapedRows, ReapedResv
    <2> QED BY <2>1, ReapMovesRow
  <1>5. CASE k = j
    <2> DEFINE fence == rows[j].fence + 1
               reserved == IF g = None THEN 0 ELSE Cost[j]
    <2>1. /\ rows'[j] = [ReapedRows[j] EXCEPT !.status = "running", !.worker = w, !.fence = fence,
                             !.lease = LeaseFrom(j), !.grant = g, !.reserved = reserved]
          /\ resv'[j] = [worker |-> w, fence |-> fence, lease |-> LeaseFrom(j)]
      BY <1>1 DEF Give, ReapedRows, ReapedResv
    <2>2. ReapedRows[j] = rows[j] \/ ReapedRows[j] =
             [rows[j] EXCEPT !.status = "queued", !.worker = None, !.lease = 0,
                             !.grant = None, !.reserved = 0]
      <3>1. j \notin Overdue
        <4>1. j \in Overdue => ReapedRows[j] = [rows[j] EXCEPT !.status = "failed"]
          BY <1>1 DEF ReapedRows
        <4>2. rows[j] \in Row BY <1>1, <1>3
        <4> QED BY <1>1, <4>1, <4>2 DEF Row
      <3> QED BY <1>1, <3>1 DEF ReapedRows
    <2>3. rows[j] \in Row BY <1>1, <1>3
    <2>4. rows'[j] = [rows[j] EXCEPT !.status = "running", !.worker = w, !.fence = fence,
                          !.lease = LeaseFrom(j), !.grant = g, !.reserved = reserved]
      BY <2>1, <2>2, <2>3 DEF Row
    <2>5. rows[j].status = "queued" \/ j \in Lapsed BY <1>1, ReapMovesRow
    <2> QED BY <1>1, <1>2, <1>5, <2>1, <2>4, <2>5 DEF RowMoves, Given
  <1> QED BY <1>4, <1>5

\* Every step moves every row as it may.
LEMMA StepMovesRow ==
    ASSUME TypeOK, \A j \in Jobs : RowOK(j), [Next]_vars, NEW k \in Jobs
    PROVE  RowMoves(k)
  <1>0. /\ rows \in [Jobs -> Row] /\ rows[k] \in Row
        /\ resv \in [Jobs -> [worker : Workers \cup {None}, fence : Fences, lease : 0 .. MaxClock + Lease]]
        /\ attempts \subseteq AttemptType /\ calls \subseteq CallType
    BY Basics
  <1>1. ASSUME UNCHANGED <<rows, resv>> PROVE RowMoves(k) BY <1>1 DEF RowMoves, SameRow
  <1>2. ASSUME NEW j \in Jobs, Submit(j) PROVE RowMoves(k)
    <2>1. CASE j = k BY <1>0, <1>2, <2>1 DEF Submit, RowMoves, Submitted
    <2>2. CASE j # k BY <1>0, <1>2, <2>2 DEF Submit, RowMoves, SameRow
    <2> QED BY <2>1, <2>2
  <1>3. ASSUME NEW j \in Jobs, CancelJob(j) PROVE RowMoves(k)
    <2>1. CASE j # k BY <1>0, <1>3, <2>1 DEF CancelJob, RowMoves, SameRow
    <2>2. CASE j = k /\ rows[j].status = "queued"
      <3>1. rows'[j] = [rows[j] EXCEPT !.status = "cancelled", !.grant = None, !.reserved = 0]
        BY <1>0, <1>3, <2>2 DEF CancelJob, Row
      <3>2. resv'[j] = Idle BY <1>0, <1>3, <2>2 DEF CancelJob
      <3> QED BY <2>2, <3>1, <3>2 DEF RowMoves, Withdrawn
    <2>3. CASE j = k /\ rows[j].status # "queued"
      <3>1. rows[j].status \in Owned BY <1>0, <1>3, <2>3 DEF CancelJob, Row, Owned, Ended
      <3>2. rows'[j] = [rows[j] EXCEPT !.status = "cancelling"] /\ resv' = resv
        BY <1>0, <1>3, <2>3 DEF CancelJob, Row
      <3> QED BY <2>3, <3>1, <3>2 DEF RowMoves, Cancelled
    <2> QED BY <2>1, <2>2, <2>3
  <1>4. ASSUME NEW w \in Workers, PollInVain(w) PROVE RowMoves(k)
    BY <1>4, ReapMovesRow DEF PollInVain, Reap
  <1>5. ASSUME NEW w \in Workers, Claim(w) PROVE RowMoves(k)
    BY <1>5, GiveMovesRow DEF Claim
  <1>6. ASSUME NEW a \in attempts, Renew(a) PROVE RowMoves(k)
    <2>1. CASE UNCHANGED <<rows, resv>> BY <1>1, <2>1
    <2>2. CASE ~ UNCHANGED <<rows, resv>>
      <3>1. /\ Holds(a.job, a.worker, a.fence) /\ rows[a.job].status = "running"
            /\ clock < Deadline[a.job]
            /\ rows' = [rows EXCEPT ![a.job].lease = LeaseFrom(a.job)]
            /\ resv' = IF resv[a.job].fence = a.fence
                       THEN [resv EXCEPT ![a.job].lease = LeaseFrom(a.job)] ELSE resv
        BY <1>6, <2>2 DEF Renew
      <3>2. a.job \in Jobs BY <1>0 DEF AttemptType
      <3>3. resv[a.job].fence = a.fence
        <4>1. resv[a.job] = Mirror(rows[a.job]) BY <3>2 DEF RowOK
        <4> QED BY <3>1, <4>1 DEF Mirror, Owned, Holds
      <3>4. resv' = [resv EXCEPT ![a.job].lease = LeaseFrom(a.job)] BY <3>1, <3>3
      <3>5. CASE a.job = k BY <1>0, <3>1, <3>2, <3>4, <3>5 DEF RowMoves, Renewed
      <3>6. CASE a.job # k BY <1>0, <3>1, <3>2, <3>4, <3>6 DEF RowMoves, SameRow
      <3> QED BY <3>5, <3>6
    <2> QED BY <2>1, <2>2
  <1>7. ASSUME NEW a \in attempts, Execute(a) PROVE RowMoves(k)
    <2>1. CASE rows' = rows BY <1>1, <1>7, <2>1 DEF Execute
    <2>2. CASE rows' # rows
      <3>1. /\ a.at = "exec" /\ rows[a.job].status = "running" /\ a.fence = rows[a.job].fence
            /\ rows[a.job].saved = 0 /\ rows' = [rows EXCEPT ![a.job].saved = ByOf(a)] /\ resv' = resv
        BY <1>7, <2>2 DEF Execute, SaveCheckpoint, ByOf, Holds
      <3>2. a.job \in Jobs BY <1>0 DEF AttemptType
      <3>3. CASE a.job = k BY <1>0, <3>1, <3>2, <3>3 DEF RowMoves, Saved
      <3>4. CASE a.job # k BY <1>0, <3>1, <3>2, <3>4 DEF RowMoves, SameRow
      <3> QED BY <3>3, <3>4
    <2> QED BY <2>1, <2>2
  <1>8. ASSUME NEW c \in calls, NEW cost \in 0 .. Cost[c.job] + 1, CompleteJob(c, cost)
        PROVE  RowMoves(k)
    <2>1. c.job \in Jobs BY <1>0 DEF CallType
    <2>2. CASE ~(Holds(c.job, c.worker, c.fence) /\ rows[c.job].status \in Owned)
      <3>1. UNCHANGED <<rows, resv>> BY <1>8, <2>2 DEF CompleteJob
      <3> QED BY <1>1, <3>1
    <2>3. CASE Holds(c.job, c.worker, c.fence) /\ rows[c.job].status \in Owned
      <3>1. Finish(c, cost) BY <1>8, <2>3 DEF CompleteJob
      <3>2. c.fence = rows[c.job].fence /\ resv[c.job].fence = c.fence
        <4>1. resv[c.job] = Mirror(rows[c.job]) BY <2>1 DEF RowOK
        <4> QED BY <2>3, <4>1 DEF Mirror, Holds
      <3>3. cost \in Nat BY <2>1, Basics
      <3>4. resv' = [resv EXCEPT ![c.job] = Idle] BY <3>1, <3>2 DEF Finish
      <3>5. rows' = [rows EXCEPT ![c.job].status = StatusOf(c, cost), ![c.job].lease = 0,
                         ![c.job].reserved = 0,
                         ![c.job].result = IF StatusOf(c, cost) = "succeeded" THEN c.by ELSE 0]
        BY <3>1 DEF Finish
      <3>6. CASE c.job = k
        <4>1. rows'[k] = [rows[k] EXCEPT !.status = StatusOf(c, cost), !.lease = 0, !.reserved = 0,
                           !.result = IF StatusOf(c, cost) = "succeeded" THEN c.by ELSE 0]
          BY <1>0, <3>5, <3>6
        <4>2. resv'[k] = Idle BY <1>0, <3>4, <3>6
        <4> QED BY <2>3, <3>2, <3>3, <3>6, <4>1, <4>2 DEF RowMoves, Finished
      <3>7. CASE c.job # k BY <1>0, <2>1, <3>4, <3>5, <3>7 DEF RowMoves, SameRow
      <3> QED BY <3>6, <3>7
    <2> QED BY <2>2, <2>3
  <1>9. CASE ListPreviews \/ Tick \/ UNCHANGED vars
    BY <1>1, <1>9 DEF ListPreviews, Tick, vars, store
  <1>10. ASSUME NEW w \in Workers, SetWorkerAvailability(w) \/ Crash(w) PROVE RowMoves(k)
    BY <1>1, <1>10 DEF SetWorkerAvailability, Crash, store
  <1>11. ASSUME NEW g \in Grants, SetGrantStatus(g) PROVE RowMoves(k)
    BY <1>1, <1>11 DEF SetGrantStatus
  <1>12. ASSUME NEW a \in attempts, Raise(a) \/ SaveReceipt(a) PROVE RowMoves(k)
    BY <1>1, <1>12 DEF Raise, SaveReceipt, store
  <1>13. ASSUME NEW w \in Workers, NEW j \in Jobs, SendReceipt(w, j) PROVE RowMoves(k)
    BY <1>1, <1>13 DEF SendReceipt
  <1> QED
    BY <1>2, <1>3, <1>4, <1>5, <1>6, <1>7, <1>8, <1>9, <1>10, <1>11, <1>12, <1>13
       DEF Next, Clients, Poll, Work, Answer, Busy

-----------------------------------------------------------------------------
(* What holds of a row by itself is kept by every move.                    *)

LEMMA MovedRowType ==
    ASSUME TypeOK, NEW j \in Jobs, RowOK(j), RowMoves(j)
    PROVE  /\ rows'[j] \in Row
           /\ resv'[j] \in [worker : Workers \cup {None}, fence : Fences, lease : Leases]
  <1> DEFINE RT == [worker : Workers \cup {None}, fence : Fences, lease : Leases]
  <1>0. /\ rows[j] \in Row /\ resv[j] \in RT /\ LeaseFrom(j) \in Leases
        /\ Cost[j] \in Nat /\ Fences \subseteq Nat /\ clock \in Nat /\ clock <= MaxClock
        /\ MaxClock \in Nat
    BY Basics DEF Leases
  <1>a. Idle \in RT BY Zeros DEF Idle
  <1>b. /\ rows[j].fence \in Nat /\ rows[j].lease \in Nat
        /\ rows[j].worker \in Workers \cup {None} /\ rows[j].grant \in Grants \cup {None}
        /\ rows[j].status \in Statuses
    BY RowFields
  <1>1. CASE SameRow(j) BY <1>0, <1>1 DEF SameRow
  <1>2. CASE Submitted(j) BY <1>0, <1>2 DEF Submitted, Row
  <1>3. CASE Withdrawn(j)
    <2>1. "cancelled" \in Statuses BY DEF Statuses, Ended
    <2>2. [rows[j] EXCEPT !.status = "cancelled", !.grant = None, !.reserved = 0] \in Row
      BY <1>0, <2>1, Zeros, WithdrawnRowType
    <2> QED BY <1>a, <1>3, <2>2 DEF Withdrawn
  <1>4. CASE Cancelled(j) BY <1>0, <1>4 DEF Cancelled, Row
  <1>5. CASE Expired(j) BY <1>0, <1>5 DEF Expired, Row, Ended
  <1>6. CASE Returned(j) BY <1>0, <1>a, <1>6, ReturnedRowType DEF Returned
  <1>7. CASE Given(j)
    <2>1. PICK w \in Workers, g \in Grants \cup {None} :
            /\ rows[j].status = "queued" \/ j \in Lapsed
            /\ rows'[j] = [rows[j] EXCEPT !.status = "running", !.worker = w, !.fence = @ + 1,
                                      !.lease = LeaseFrom(j), !.grant = g,
                                      !.reserved = IF g = None THEN 0 ELSE Cost[j]]
            /\ resv'[j] = [worker |-> w, fence |-> rows[j].fence + 1, lease |-> LeaseFrom(j)]
      BY <1>7 DEF Given
    <2>2. rows[j].fence <= clock
      BY <1>0, <1>b, <2>1 DEF RowOK, Lapsed
    <2>3. rows[j].fence + 1 \in Fences BY <1>0, <1>b, <2>2 DEF Fences
    <2>4. "running" \in Statuses /\ (IF g = None THEN 0 ELSE Cost[j]) \in Nat
          /\ w \in Workers \cup {None}
      BY <1>0 DEF Statuses
    <2>5. rows'[j] = [rows[j] EXCEPT !.status = "running", !.worker = w, !.fence = rows[j].fence + 1,
                                      !.lease = LeaseFrom(j), !.grant = g,
                                      !.reserved = IF g = None THEN 0 ELSE Cost[j]]
      BY <2>1
    <2> DEFINE r == IF g = None THEN 0 ELSE Cost[j]
               f == rows[j].fence + 1
    <2>6. r \in Nat /\ f \in Fences BY <2>3, <2>4
    <2>7. rows'[j] = [rows[j] EXCEPT !.status = "running", !.worker = w, !.fence = f,
                                     !.lease = LeaseFrom(j), !.grant = g, !.reserved = r]
      BY <2>5
    <2> HIDE DEF r, f
    <2>8. [rows[j] EXCEPT !.status = "running", !.worker = w, !.fence = f,
                          !.lease = LeaseFrom(j), !.grant = g, !.reserved = r] \in Row
      BY <1>0, <2>4, <2>6, GivenRowType
    <2> QED BY <1>0, <2>1, <2>3, <2>4, <2>7, <2>8
  <1>8. CASE Renewed(j)
    <2>1. rows'[j] \in Row BY <1>0, <1>8 DEF Renewed, Row, Leases
    <2> QED BY <1>0, <1>8, <2>1 DEF Renewed
  <1>9. CASE Saved(j)
    <2>1. PICK a \in attempts : rows'[j] = [rows[j] EXCEPT !.saved = ByOf(a)] BY <1>9 DEF Saved
    <2>2. ByOf(a) \in Fences BY Basics DEF AttemptType, ByOf
    <2>3. rows'[j] \in Row BY <1>0, <2>1, <2>2 DEF Row
    <2> QED BY <1>0, <1>9, <2>3 DEF Saved
  <1>10. CASE Finished(j)
    <2>1. PICK c \in calls, cost \in Nat :
            rows'[j] = [rows[j] EXCEPT !.status = StatusOf(c, cost), !.lease = 0, !.reserved = 0,
                           !.result = IF StatusOf(c, cost) = "succeeded" THEN c.by ELSE 0]
      BY <1>10 DEF Finished
    <2>2. StatusOf(c, cost) \in Statuses BY DEF StatusOf, Statuses, Ended
    <2>3. (IF StatusOf(c, cost) = "succeeded" THEN c.by ELSE 0) \in Fences
      BY Basics, Zeros DEF CallType
    <2> DEFINE s == StatusOf(c, cost)
               b == IF StatusOf(c, cost) = "succeeded" THEN c.by ELSE 0
    <2>4. rows'[j] = [rows[j] EXCEPT !.status = s, !.lease = 0, !.reserved = 0, !.result = b]
      BY <2>1
    <2>5. s \in Statuses /\ b \in Fences BY <2>2, <2>3
    <2> HIDE DEF s, b
    <2>6. [rows[j] EXCEPT !.status = s, !.lease = 0, !.reserved = 0, !.result = b] \in Row
      BY <1>0, <2>5, Zeros, FinishedRowType
    <2> QED BY <1>a, <1>10, <2>4, <2>6 DEF Finished
  <1> QED BY <1>1, <1>2, <1>3, <1>4, <1>5, <1>6, <1>7, <1>8, <1>9, <1>10 DEF RowMoves

\* Only Tick moves the clock.
LEMMA OnlyTick ==
    ASSUME [Next]_vars, ~Tick
    PROVE  clock' = clock
  <1>1. ASSUME NEW j \in Jobs, Submit(j) \/ CancelJob(j) PROVE clock' = clock
    BY <1>1 DEF Submit, CancelJob
  <1>2. CASE ListPreviews \/ UNCHANGED vars BY <1>2 DEF ListPreviews, vars
  <1>3. ASSUME NEW w \in Workers, SetWorkerAvailability(w) \/ PollInVain(w) \/ Claim(w) \/ Crash(w)
        PROVE  clock' = clock
    BY <1>3 DEF SetWorkerAvailability, PollInVain, Claim, Crash
  <1>4. ASSUME NEW g \in Grants, SetGrantStatus(g) PROVE clock' = clock
    BY <1>4 DEF SetGrantStatus
  <1>5. ASSUME NEW a, Execute(a) \/ Raise(a) \/ SaveReceipt(a) \/ Renew(a) PROVE clock' = clock
    BY <1>5 DEF Execute, Raise, SaveReceipt, Renew
  <1>6. ASSUME NEW w \in Workers, NEW j \in Jobs, SendReceipt(w, j) PROVE clock' = clock
    BY <1>6 DEF SendReceipt
  <1>7. ASSUME NEW c, NEW cost, CompleteJob(c, cost) PROVE clock' = clock
    BY <1>7 DEF CompleteJob
  <1> QED BY <1>1, <1>2, <1>3, <1>4, <1>5, <1>6, <1>7 DEF Next, Clients, Poll, Work, Answer

\* The clock moves only when no row does.
LEMMA ClockSteps ==
    ASSUME TypeOK, [Next]_vars
    PROVE  /\ clock' \in Nat /\ clock' >= clock
           /\ clock' = clock \/ (rows' = rows /\ resv' = resv)
  <1>1. clock \in Nat BY Basics
  <1>2. CASE Tick BY <1>1, <1>2 DEF Tick, store
  <1> QED BY <1>1, <1>2, OnlyTick

\* What an attempt reports is the turn it was given or the checkpoint of an earlier one.
LEMMA ReportedTurn ==
    ASSUME TypeOK, WordsOK, NEW a \in attempts
    PROVE  ByOf(a) \in 1 .. a.fence /\ a.fence \in 1 .. rows[a.job].fence
  <1>1. AttemptOK(a) BY DEF WordsOK
  <1>2. a.fence \in Nat /\ a.resumed \in Nat BY Basics DEF AttemptType
  <1> QED BY <1>1, <1>2 DEF AttemptOK, Vouched, ByOf

LEMMA MovedRowOK ==
    ASSUME TypeOK, WordsOK, NEW j \in Jobs, RowOK(j), RowMoves(j),
           clock' \in Nat /\ clock' >= clock,
           clock' = clock \/ (rows' = rows /\ resv' = resv)
    PROVE  RowOK(j)'
  <1>0. /\ rows[j] \in Row /\ Cost[j] \in Nat /\ Fences \subseteq Nat
        /\ clock \in Nat /\ LeaseFrom(j) \in Nat
        /\ clock < Deadline[j] => LeaseFrom(j) >= clock + 1
        /\ None \notin Workers
    BY Basics
  <1>b. /\ rows[j].fence \in Nat /\ rows[j].lease \in Nat /\ rows[j].saved \in Nat
        /\ rows[j].result \in Nat
        /\ rows[j].worker \in Workers \cup {None} /\ rows[j].grant \in Grants \cup {None}
        /\ rows[j].status \in Statuses
    BY RowFields
  <1> DEFINE row == rows[j]
             new == rows'[j]
             OK(r, v, k) ==
               /\ v = Mirror(r)
               /\ r.status \in Owned => r.worker \in Workers /\ r.fence >= 1
               /\ r.reserved = IF r.status \in Owned /\ r.grant # None THEN Cost[j] ELSE 0
               /\ r.status \in {"absent", "queued"} => r.grant = None /\ r.fence <= k
               /\ r.status = "running" => r.fence <= r.lease
               /\ r.fence <= k + 1
               /\ r.saved <= r.fence
               /\ IF r.status = "succeeded" THEN r.result \in 1 .. r.fence ELSE r.result = 0
  <1>c. OK(row, resv[j], clock) BY DEF RowOK
  <1>d. OK(new, resv'[j], clock') => RowOK(j)' BY DEF RowOK, Mirror, Owned
  <1>1. CASE SameRow(j)
    <2>1. OK(row, resv[j], clock') BY <1>0, <1>b, <1>c
    <2> QED BY <1>1, <1>d, <2>1 DEF SameRow
  <1>2. CASE Submitted(j)
    <2>1. OK(new, resv'[j], clock') BY <1>0, <1>b, <1>c, <1>2 DEF Submitted, Row, Mirror, Owned
    <2> QED BY <1>d, <2>1
  <1>3. CASE Withdrawn(j)
    <2>1. OK(new, resv'[j], clock') BY <1>0, <1>b, <1>c, <1>3 DEF Withdrawn, Row, Mirror, Owned
    <2> QED BY <1>d, <2>1
  <1>4. CASE Cancelled(j)
    <2>1. OK(new, resv'[j], clock') BY <1>0, <1>b, <1>c, <1>4 DEF Cancelled, Row, Mirror, Owned
    <2> QED BY <1>d, <2>1
  <1>5. CASE Expired(j)
    <2>1. OK(new, resv'[j], clock') BY <1>0, <1>b, <1>c, <1>5 DEF Expired, Row, Mirror, Owned, Overdue
    <2> QED BY <1>d, <2>1
  <1>6. CASE Returned(j)
    <2>1. row.status = "running" /\ row.lease <= clock BY <1>6 DEF Returned, Lapsed
    <2>2. row.fence <= clock BY <1>0, <1>b, <1>c, <2>1
    <2>3. OK(new, resv'[j], clock') BY <1>0, <1>b, <1>c, <1>6, <2>1, <2>2 DEF Returned, Row, Mirror, Owned
    <2> QED BY <1>d, <2>3
  <1>7. CASE Given(j)
    <2>1. PICK w \in Workers, g \in Grants \cup {None} :
            /\ row.status = "queued" \/ j \in Lapsed
            /\ clock < Deadline[j]
            /\ new = [row EXCEPT !.status = "running", !.worker = w, !.fence = @ + 1,
                                      !.lease = LeaseFrom(j), !.grant = g,
                                      !.reserved = IF g = None THEN 0 ELSE Cost[j]]
            /\ resv'[j] = [worker |-> w, fence |-> row.fence + 1, lease |-> LeaseFrom(j)]
      BY <1>7 DEF Given
    <2>2. row.fence <= clock BY <1>0, <1>b, <1>c, <2>1 DEF Lapsed
    <2>3. row.status \in {"queued", "running"} BY <2>1 DEF Lapsed
    <2>4. clock' >= clock /\ clock' \in Nat OBVIOUS
    <2>5. /\ new.status = "running" /\ new.worker = w /\ new.fence = row.fence + 1
          /\ new.lease = LeaseFrom(j) /\ new.grant = g
          /\ new.reserved = IF g = None THEN 0 ELSE Cost[j]
          /\ new.saved = row.saved /\ new.result = row.result
      BY <1>0, <2>1 DEF Row
    <2>6. OK(new, resv'[j], clock')
      BY <1>0, <1>b, <1>c, <2>1, <2>2, <2>3, <2>4, <2>5 DEF Mirror, Owned
    <2> QED BY <1>d, <2>6
  <1>8. CASE Renewed(j)
    <2>1. OK(new, resv'[j], clock') BY <1>0, <1>b, <1>c, <1>8 DEF Renewed, Row, Mirror, Owned
    <2> QED BY <1>d, <2>1
  <1>9. CASE Saved(j)
    <2>1. PICK a \in attempts : /\ a.job = j /\ a.fence = row.fence /\ row.status = "running"
                                /\ new = [row EXCEPT !.saved = ByOf(a)] /\ resv'[j] = resv[j]
      BY <1>9 DEF Saved
    <2>2. ByOf(a) \in 1 .. row.fence BY <2>1, ReportedTurn
    <2>3. OK(new, resv'[j], clock') BY <1>0, <1>b, <1>c, <2>1, <2>2 DEF Row, Mirror, Owned
    <2> QED BY <1>d, <2>3
  <1>10. CASE Finished(j)
    <2>1. PICK c \in calls, cost \in Nat :
            /\ c.job = j /\ c.fence = row.fence /\ row.status \in Owned
            /\ new = [row EXCEPT !.status = StatusOf(c, cost), !.lease = 0, !.reserved = 0,
                           !.result = IF StatusOf(c, cost) = "succeeded" THEN c.by ELSE 0]
            /\ resv'[j] = Idle
      BY <1>10 DEF Finished
    <2>2. StatusOf(c, cost) \in Ended BY DEF StatusOf, Ended
    <2>3. StatusOf(c, cost) = "succeeded" => c.by \in 1 .. row.fence
      <3>1. StatusOf(c, cost) = "succeeded" => c.ok BY DEF StatusOf
      <3>2. Vouched(c.job, c.fence, c.ok, c.by) BY DEF WordsOK
      <3> QED BY <2>1, <3>1, <3>2 DEF Vouched
    <2> DEFINE s == StatusOf(c, cost)
    <2>4. /\ new.status = s /\ new.fence = row.fence /\ new.saved = row.saved /\ new.grant = row.grant
          /\ new.reserved = 0 /\ new.result = IF s = "succeeded" THEN c.by ELSE 0
      BY <1>0, <2>1 DEF Row
    <2> HIDE DEF s
    <2>5. OK(new, resv'[j], clock') BY <1>0, <1>b, <1>c, <2>1, <2>2, <2>3, <2>4 DEF Mirror, Owned, Ended, s
    <2> QED BY <1>d, <2>5
  <1> QED BY <1>1, <1>2, <1>3, <1>4, <1>5, <1>6, <1>7, <1>8, <1>9, <1>10 DEF RowMoves

-----------------------------------------------------------------------------
(* What was said of a row stays true of it.                                *)

\* A row is given a new turn, or keeps its turn and its checkpoint, or gets its only one.
Grows(j) ==
    \/ rows'[j].fence = rows[j].fence + 1
    \/ rows'[j].fence = rows[j].fence /\ rows'[j].saved = rows[j].saved
    \/ /\ rows'[j].fence = rows[j].fence /\ rows[j].saved = 0
       /\ j \notin Previews => rows'[j].saved = rows[j].fence

LEMMA MovedRowGrows ==
    ASSUME TypeOK, WordsOK, NEW j \in Jobs, RowMoves(j)
    PROVE  Grows(j)
  <1>0. rows[j] \in Row BY Basics
  <1>1. CASE SameRow(j) \/ Submitted(j) \/ Withdrawn(j) \/ Cancelled(j) \/ Expired(j)
    BY <1>0, <1>1 DEF SameRow, Submitted, Withdrawn, Cancelled, Expired, Grows, Row
  <1>2. CASE Returned(j) \/ Renewed(j) BY <1>0, <1>2 DEF Returned, Renewed, Grows, Row
  <1>3. CASE Given(j) BY <1>0, <1>3 DEF Given, Grows, Row
  <1>4. CASE Saved(j)
    <2>1. PICK a \in attempts : /\ a.job = j /\ a.at = "exec" /\ a.fence = rows[j].fence
                                /\ rows[j].saved = 0
                                /\ rows'[j] = [rows[j] EXCEPT !.saved = ByOf(a)]
      BY <1>4 DEF Saved
    <2>2. rows'[j].fence = rows[j].fence /\ rows'[j].saved = ByOf(a) BY <1>0, <2>1 DEF Row
    <2>3. j \notin Previews => a.resumed = 0
      <3>1. AttemptOK(a) BY DEF WordsOK
      <3> QED BY <2>1, <3>1 DEF AttemptOK
    <2> QED BY <2>1, <2>2, <2>3 DEF Grows, ByOf
  <1>5. CASE Finished(j) BY <1>0, <1>5 DEF Finished, Grows, Row
  <1> QED BY <1>1, <1>2, <1>3, <1>4, <1>5 DEF RowMoves

LEMMA VouchedStays ==
    ASSUME NEW j, NEW fence, NEW ok, NEW by, Vouched(j, fence, ok, by),
           rows[j].fence \in Nat, Grows(j)
    PROVE  Vouched(j, fence, ok, by)'
  <1>1. fence \in 1 .. rows'[j].fence BY DEF Vouched, Grows
  <1>2. ASSUME ok PROVE by \in 1 .. fence BY <1>2 DEF Vouched
  <1>3. ASSUME ok, j \notin Previews, fence = rows'[j].fence
        PROVE  by = IF rows'[j].saved = 0 THEN fence ELSE rows'[j].saved
    BY <1>3 DEF Vouched, Grows
  <1> QED BY <1>1, <1>2, <1>3 DEF Vouched

LEMMA AttemptStaysOK ==
    ASSUME NEW a, AttemptOK(a), rows[a.job].fence \in Nat, Grows(a.job)
    PROVE  AttemptOK(a)'
  <1>1. Vouched(a.job, a.fence, a.ok, a.by)' BY VouchedStays DEF AttemptOK
  <1>2. ASSUME a.at = "exec", a.job \notin Previews, a.fence = rows'[a.job].fence
        PROVE  IF a.resumed # 0 THEN rows'[a.job].saved = a.resumed
               ELSE rows'[a.job].saved \in {0, a.fence}
    <2>1. a.fence \in 1 .. rows[a.job].fence BY DEF AttemptOK, Vouched
    <2>2. a.fence = rows[a.job].fence /\ rows'[a.job].fence = rows[a.job].fence
      BY <1>2, <2>1 DEF Grows
    <2> QED BY <1>2, <2>2 DEF AttemptOK, Grows
  <1> QED BY <1>1, <1>2 DEF AttemptOK

LEMMA WordsStay ==
    ASSUME TypeOK, WordsOK, \A j \in Jobs : RowOK(j), [Next]_vars
    PROVE  /\ \A a \in attempts : AttemptOK(a)'
           /\ \A w \in Workers, j \in Jobs : \A r : r = receipts[w][j] => ReceiptOK(j, r)'
           /\ \A c \in calls : Vouched(c.job, c.fence, c.ok, c.by)'
  <1>1. ASSUME NEW j \in Jobs PROVE Grows(j) /\ rows[j].fence \in Nat
    BY StepMovesRow, MovedRowGrows, RowFields
  <1>2. ASSUME NEW a \in attempts PROVE AttemptOK(a)'
    <2>1. a.job \in Jobs BY Basics DEF AttemptType
    <2>2. AttemptOK(a) BY DEF WordsOK
    <2> QED BY <1>1, <2>1, <2>2, AttemptStaysOK
  <1>3. ASSUME NEW w \in Workers, NEW j \in Jobs, NEW r, r = receipts[w][j]
        PROVE  ReceiptOK(j, r)'
    <2>1. ReceiptOK(j, r) BY <1>3 DEF WordsOK
    <2>2. CASE r = NoReceipt BY <2>2 DEF ReceiptOK
    <2>3. CASE r # NoReceipt
      <3>1. Vouched(j, r.fence, r.ok, r.by) BY <2>1, <2>3 DEF ReceiptOK
      <3>2. Vouched(j, r.fence, r.ok, r.by)' BY <1>1, <3>1, VouchedStays
      <3> QED BY <3>2 DEF ReceiptOK
    <2> QED BY <2>2, <2>3
  <1>4. ASSUME NEW c \in calls PROVE Vouched(c.job, c.fence, c.ok, c.by)'
    <2>1. c.job \in Jobs BY Basics DEF CallType
    <2>2. Vouched(c.job, c.fence, c.ok, c.by) BY DEF WordsOK
    <2> QED BY <1>1, <2>1, <2>2, VouchedStays
  <1> QED BY <1>2, <1>3, <1>4

\* The words a step adds: those of an attempt that was given, goes on, or ends.
LEMMA WordsStep ==
    ASSUME TypeOK, WordsOK, \A j \in Jobs : RowOK(j), [Next]_vars
    PROVE  WordsOK'
  <1> DEFINE A == \A a \in attempts' : AttemptOK(a)'
             R == \A w \in Workers, j \in Jobs : \A r : r = receipts'[w][j] => ReceiptOK(j, r)'
             C == \A c \in calls' : Vouched(c.job, c.fence, c.ok, c.by)'
  <1>a. \A a \in attempts : AttemptOK(a)' BY WordsStay
  <1>b. \A w \in Workers, j \in Jobs : \A r : r = receipts[w][j] => ReceiptOK(j, r)' BY WordsStay
  <1>c. \A c \in calls : Vouched(c.job, c.fence, c.ok, c.by)' BY WordsStay
  <1>d. attempts' \subseteq attempts => A BY <1>a
  <1>e. receipts' = receipts => R BY <1>b
  <1>f. calls' \subseteq calls => C BY <1>c
  <1>g. A /\ R /\ C => WordsOK'
    <2> SUFFICES ASSUME A, R, C PROVE WordsOK' OBVIOUS
    <2>1. ASSUME NEW w \in Workers, NEW j \in Jobs PROVE ReceiptOK(j, receipts[w][j])'
      <3>1. PICK r : r = receipts'[w][j] OBVIOUS
      <3>2. ReceiptOK(j, r)' BY <3>1
      <3> QED BY <3>1, <3>2 DEF ReceiptOK, Vouched
    <2> HIDE DEF R
    <2> QED BY <2>1 DEF WordsOK
  <1>h. /\ rows \in [Jobs -> Row] /\ attempts \subseteq AttemptType /\ calls \subseteq CallType
        /\ receipts \in [Workers -> [Jobs -> [fence : Fences, ok : BOOLEAN, by : Fences]]]
        /\ Fences \subseteq Nat
    BY Basics
  <1> HIDE DEF A, R, C
  \* An attempt that goes on with the same turn, result and state says nothing new.
  <1>i. ASSUME NEW a \in attempts, NEW b, Becomes(a, b), AttemptOK(b)' PROVE A
    BY <1>a, <1>i DEF A, Becomes
  <1>1. CASE UNCHANGED worker /\ UNCHANGED calls
    BY <1>1, <1>d, <1>e, <1>f, <1>g DEF worker
  <1>2. ASSUME NEW w \in Workers, Claim(w) PROVE WordsOK'
    <2>0. PICK j \in Candidates(w), delivered \in BOOLEAN : \E g \in Offers(w, j) :
             /\ Give(w, j, g)
             /\ attempts' = IF delivered THEN attempts \cup {Attempt(j, w, rows[j].fence + 1)}
                            ELSE attempts
      BY <1>2 DEF Claim
    <2>1. PICK g \in Offers(w, j) :
             /\ Give(w, j, g)
             /\ attempts' = IF delivered THEN attempts \cup {Attempt(j, w, rows[j].fence + 1)}
                            ELSE attempts
      BY <2>0
    <2>2. j \in Jobs /\ ReapedRows[j].status = "queued" BY DEF Candidates
    <2>3. rows[j] \in Row /\ rows[j].fence \in Nat /\ rows[j].saved \in Nat BY <2>2, <1>h, RowFields
    <2>4. rows'[j].fence = rows[j].fence + 1 /\ rows'[j].saved = rows[j].saved
      <3>1. ReapedRows[j].saved = rows[j].saved
        BY <2>2, <2>3 DEF ReapedRows, Row
      <3>2. rows'[j].fence = rows[j].fence + 1 /\ rows'[j].saved = ReapedRows[j].saved
        <4>1. ReapedRows[j] \in Row BY <2>2, ReapMovesRow
        <4>2. rows'[j] = [ReapedRows[j] EXCEPT !.status = "running", !.worker = w,
                              !.fence = rows[j].fence + 1, !.lease = LeaseFrom(j), !.grant = g,
                              !.reserved = IF g = None THEN 0 ELSE Cost[j]]
          BY <2>1, <2>2 DEF Give, ReapedRows
        <4> QED BY <4>1, <4>2 DEF Row
      <3> QED BY <3>1, <3>2
    <2> DEFINE f == rows[j].fence + 1
    <2>5. PICK b : b = Attempt(j, w, f) OBVIOUS
    <2>6. /\ b.job = j /\ b.fence = f /\ b.ok = FALSE /\ b.at = "exec" /\ b.resumed = rows[j].saved
      BY <2>5 DEF Attempt
    <2>7. rows[j].saved <= rows[j].fence BY <2>2 DEF RowOK
    <2>8. AttemptOK(b)'
      BY <2>3, <2>4, <2>6, <2>7 DEF AttemptOK, Vouched
    <2>9. A BY <1>a, <2>1, <2>5, <2>8 DEF A
    <2>10. receipts' = receipts /\ calls' = calls BY <1>2 DEF Claim
    <2> QED BY <1>e, <1>f, <1>g, <2>9, <2>10
  <1>3. ASSUME NEW a \in attempts, Renew(a) PROVE WordsOK'
    <2>0. PICK answered \in BOOLEAN, learnt \in BOOLEAN :
             Becomes(a, [a EXCEPT !.renewing = answered, !.cancelSeen = learnt])
      BY <1>3 DEF Renew
    <2>a. PICK b : b = [a EXCEPT !.renewing = answered, !.cancelSeen = learnt] OBVIOUS
    <2>1. /\ Becomes(a, b) /\ b.job = a.job /\ b.fence = a.fence /\ b.ok = a.ok
          /\ b.by = a.by /\ b.at = a.at /\ b.resumed = a.resumed
      BY <1>h, <2>0, <2>a DEF AttemptType
    <2>2. AttemptOK(a)' BY <1>a
    <2>3. AttemptOK(b)' BY <2>1, <2>2 DEF AttemptOK, Vouched
    <2>4. receipts' = receipts /\ calls' = calls BY <1>3 DEF Renew
    <2> QED BY <1>e, <1>f, <1>g, <1>i, <2>1, <2>3, <2>4
  <1>4. ASSUME NEW a \in attempts, Execute(a) PROVE WordsOK'
    <2>1. PICK b : b = [a EXCEPT !.at = "report", !.ok = TRUE, !.by = ByOf(a)] OBVIOUS
    <2>2. a.at = "exec" /\ Becomes(a, b) BY <1>4, <2>1 DEF Execute, ByOf
    <2>3. /\ b.job = a.job /\ b.fence = a.fence /\ b.ok = TRUE /\ b.by = ByOf(a)
          /\ b.at = "report" /\ b.resumed = a.resumed
      BY <1>h, <2>1 DEF AttemptType
    <2>4. ByOf(a) \in 1 .. a.fence BY ReportedTurn
    <2>5. AttemptOK(a)' BY <1>a
    <2>6. a.fence \in Nat /\ a.fence \in 1 .. rows'[a.job].fence BY <1>h, <2>5 DEF AttemptType, AttemptOK, Vouched
    <2>7. ASSUME a.job \notin Previews, a.fence = rows'[a.job].fence
          PROVE  ByOf(a) = IF rows'[a.job].saved = 0 THEN a.fence ELSE rows'[a.job].saved
      BY <2>2, <2>5, <2>6, <2>7 DEF AttemptOK, ByOf
    <2>8. Vouched(b.job, b.fence, b.ok, b.by)' BY <2>3, <2>4, <2>6, <2>7 DEF Vouched
    <2>9. AttemptOK(b)' BY <2>3, <2>5, <2>8 DEF AttemptOK
    <2>10. receipts' = receipts /\ calls' = calls BY <1>4 DEF Execute
    <2> QED BY <1>e, <1>f, <1>g, <1>i, <2>2, <2>9, <2>10
  <1>5. ASSUME NEW a \in attempts, Raise(a) PROVE WordsOK'
    <2>1. PICK b : b = [a EXCEPT !.at = "report"] OBVIOUS
    <2>2. a.at = "exec" /\ Becomes(a, b) BY <1>5, <2>1 DEF Raise
    <2>3. /\ b.job = a.job /\ b.fence = a.fence /\ b.ok = a.ok /\ b.by = a.by
          /\ b.at = "report" /\ b.resumed = a.resumed
      BY <1>h, <2>1 DEF AttemptType
    <2>4. AttemptOK(a)' BY <1>a
    <2>5. AttemptOK(b)' BY <2>2, <2>3, <2>4 DEF AttemptOK, Vouched
    <2>6. receipts' = receipts /\ calls' = calls BY <1>5 DEF Raise
    <2> QED BY <1>e, <1>f, <1>g, <1>i, <2>2, <2>5, <2>6
  <1>6. ASSUME NEW a \in attempts, SaveReceipt(a) PROVE WordsOK'
    <2>1. PICK r : r = [fence |-> a.fence, ok |-> a.ok /\ ~a.cancelSeen,
                        by |-> IF a.cancelSeen THEN 0 ELSE a.by]
      OBVIOUS
    <2>2. /\ a.worker \in Workers /\ a.job \in Jobs
          /\ receipts' = [receipts EXCEPT ![a.worker][a.job] = r]
          /\ attempts' = attempts \ {a} /\ calls' = calls
      BY <1>h, <1>6, <2>1 DEF SaveReceipt, AttemptType
    <2>3. Vouched(a.job, a.fence, a.ok, a.by)' BY <1>a DEF AttemptOK
    <2>4. Vouched(a.job, r.fence, r.ok, r.by)' BY <2>1, <2>3 DEF Vouched
    <2>5. R
      <3> SUFFICES ASSUME NEW w \in Workers, NEW j \in Jobs, NEW q, q = receipts'[w][j]
                   PROVE  ReceiptOK(j, q)'
        BY DEF R
      <3>1. CASE w = a.worker /\ j = a.job
        <4>1. q = r BY <1>h, <2>2, <3>1
        <4> QED BY <2>4, <3>1, <4>1 DEF ReceiptOK
      <3>2. CASE ~(w = a.worker /\ j = a.job)
        <4>1. q = receipts[w][j] BY <1>h, <2>2, <3>2
        <4> QED BY <1>b, <4>1
      <3> QED BY <3>1, <3>2
    <2> QED BY <1>d, <1>f, <1>g, <2>2, <2>5
  <1>7. ASSUME NEW w \in Workers, NEW j \in Jobs, SendReceipt(w, j) PROVE WordsOK'
    <2>1. PICK r : r = receipts[w][j] OBVIOUS
    <2>2. r.fence # 0 /\ ReceiptOK(j, r)' BY <1>b, <1>7, <2>1 DEF SendReceipt
    <2>3. Vouched(j, r.fence, r.ok, r.by)' BY <2>2 DEF ReceiptOK, NoReceipt
    <2> DEFINE refused == r.ok /\ j \in Previews /\ rows[j].status # "cancelling" /\ Ttl[j] <= clock
               d == [worker |-> w, job |-> j, fence |-> r.fence, ok |-> r.ok /\ ~refused, by |-> r.by]
    <2>8. calls' = calls \cup {d} BY <1>7, <2>1 DEF SendReceipt
    <2>9. d.job = j /\ d.fence = r.fence /\ d.by = r.by /\ (d.ok => r.ok) OBVIOUS
    <2> HIDE DEF d
    <2>4. PICK c : /\ c.job = j /\ c.fence = r.fence /\ c.by = r.by /\ (c.ok => r.ok)
                   /\ calls' = calls \cup {c}
      BY <2>8, <2>9
    <2>5. Vouched(c.job, c.fence, c.ok, c.by)' BY <2>3, <2>4 DEF Vouched
    <2>6. C BY <1>c, <2>4, <2>5 DEF C
    <2>7. attempts' = attempts /\ receipts' = receipts BY <1>7 DEF SendReceipt, worker
    <2> QED BY <1>d, <1>e, <1>g, <2>6, <2>7
  <1>8. ASSUME NEW c \in calls, NEW cost, CompleteJob(c, cost) PROVE WordsOK'
    <2>1. attempts' = attempts /\ calls' \subseteq calls BY <1>8 DEF CompleteJob
    <2>2. c.worker \in Workers /\ c.job \in Jobs BY <1>h DEF CallType
    <2>3. receipts' = receipts \/ receipts' = [receipts EXCEPT ![c.worker][c.job] = NoReceipt]
      BY <1>8 DEF CompleteJob
    <2>4. R
      <3> SUFFICES ASSUME NEW w \in Workers, NEW j \in Jobs, NEW q, q = receipts'[w][j]
                   PROVE  ReceiptOK(j, q)'
        BY DEF R
      <3>1. q = receipts[w][j] \/ q = NoReceipt BY <1>h, <2>2, <2>3
      <3> QED BY <1>b, <3>1 DEF ReceiptOK
    <2> QED BY <1>d, <1>f, <1>g, <2>1, <2>4
  <1>9. ASSUME NEW w \in Workers, Crash(w) PROVE WordsOK'
    BY <1>9, <1>d, <1>e, <1>f, <1>g DEF Crash
  <1>10. ASSUME NEW j \in Jobs, Submit(j) \/ CancelJob(j) PROVE WordsOK'
    BY <1>1, <1>10 DEF Submit, CancelJob
  <1>11. CASE ListPreviews \/ Tick \/ UNCHANGED vars
    BY <1>1, <1>11 DEF ListPreviews, Tick, vars, worker
  <1>12. ASSUME NEW w \in Workers, SetWorkerAvailability(w) \/ PollInVain(w) PROVE WordsOK'
    BY <1>1, <1>12 DEF SetWorkerAvailability, PollInVain
  <1>13. ASSUME NEW g \in Grants, SetGrantStatus(g) PROVE WordsOK'
    BY <1>1, <1>13 DEF SetGrantStatus
  <1> QED
    BY <1>2, <1>3, <1>4, <1>5, <1>6, <1>7, <1>8, <1>9, <1>10, <1>11, <1>12, <1>13
       DEF Next, Clients, Poll, Work, Answer, Busy

-----------------------------------------------------------------------------
(* Types are kept.                                                         *)

LEMMA StepTables ==
    ASSUME TypeOK, [Next]_vars
    PROVE  rows' = [j \in Jobs |-> rows'[j]] /\ resv' = [j \in Jobs |-> resv'[j]]
  <1>0. rows = [j \in Jobs |-> rows[j]] /\ resv = [j \in Jobs |-> resv[j]] BY DEF TypeOK
  <1> DEFINE Fine == rows' = [j \in Jobs |-> rows'[j]] /\ resv' = [j \in Jobs |-> resv'[j]]
  <1>1. CASE UNCHANGED <<rows, resv>> BY <1>0, <1>1
  <1>2. ASSUME NEW j \in Jobs, Submit(j) PROVE Fine BY <1>0, <1>2 DEF Submit
  <1>3. ASSUME NEW j \in Jobs, CancelJob(j) PROVE Fine BY <1>0, <1>3 DEF CancelJob
  <1>4. ASSUME NEW w \in Workers, PollInVain(w) PROVE Fine
    BY <1>4 DEF PollInVain, Reap, ReapedRows, ReapedResv
  <1>5. ASSUME NEW w \in Workers, Claim(w) PROVE Fine
    BY <1>5 DEF Claim, Give, ReapedRows, ReapedResv
  <1>6. ASSUME NEW a \in attempts, Renew(a) PROVE Fine BY <1>0, <1>6 DEF Renew
  <1>7. ASSUME NEW a \in attempts, Execute(a) PROVE Fine
    BY <1>0, <1>7 DEF Execute, SaveCheckpoint
  <1>8. ASSUME NEW c \in calls, NEW cost, CompleteJob(c, cost) PROVE Fine
    BY <1>0, <1>8 DEF CompleteJob, Finish
  <1>9. CASE ListPreviews \/ Tick \/ UNCHANGED vars
    BY <1>1, <1>9 DEF ListPreviews, Tick, vars, store
  <1>10. ASSUME NEW w \in Workers, SetWorkerAvailability(w) \/ Crash(w) PROVE Fine
    BY <1>1, <1>10 DEF SetWorkerAvailability, Crash, store
  <1>11. ASSUME NEW g \in Grants, SetGrantStatus(g) PROVE Fine BY <1>1, <1>11 DEF SetGrantStatus
  <1>12. ASSUME NEW a \in attempts, Raise(a) \/ SaveReceipt(a) PROVE Fine
    BY <1>1, <1>12 DEF Raise, SaveReceipt, store
  <1>13. ASSUME NEW w \in Workers, NEW j \in Jobs, SendReceipt(w, j) PROVE Fine
    BY <1>1, <1>13 DEF SendReceipt
  <1> QED
    BY <1>2, <1>3, <1>4, <1>5, <1>6, <1>7, <1>8, <1>9, <1>10, <1>11, <1>12, <1>13
       DEF Next, Clients, Poll, Work, Answer, Busy

LEMMA RowsTypeStep ==
    ASSUME TypeOK, \A j \in Jobs : RowOK(j), [Next]_vars
    PROVE  /\ rows' \in [Jobs -> Row]
           /\ resv' \in [Jobs -> [worker : Workers \cup {None}, fence : Fences, lease : Leases]]
  <1>1. ASSUME NEW j \in Jobs
        PROVE  /\ rows'[j] \in Row
               /\ resv'[j] \in [worker : Workers \cup {None}, fence : Fences, lease : Leases]
    BY StepMovesRow, MovedRowType
  <1> QED BY <1>1, StepTables

LEMMA CountersTypeStep ==
    ASSUME TypeOK, [Next]_vars
    PROVE  clock' \in 0 .. MaxClock /\ faults' \in 0 .. MaxFaults
  <1>0. /\ clock \in 0 .. MaxClock /\ faults \in 0 .. MaxFaults /\ MaxClock \in Nat /\ MaxFaults \in Nat
    BY Basics DEF TypeOK
  <1> DEFINE Fine == faults' \in 0 .. MaxFaults
  <1>1. ASSUME NEW cond \in BOOLEAN, SpendIf(cond) PROVE Fine BY <1>0, <1>1 DEF SpendIf
  <1>2. ASSUME faults' = faults PROVE Fine BY <1>0, <1>2, Zenon
  <1>3. ASSUME NEW j \in Jobs, Submit(j) \/ CancelJob(j) PROVE Fine
    BY <1>2, <1>3 DEF Submit, CancelJob
  <1>4. ASSUME ListPreviews \/ Tick \/ UNCHANGED vars PROVE Fine
    <2>1. faults' = faults BY <1>4 DEF ListPreviews, Tick, vars
    <2> QED BY <1>2, <2>1
  <1>5. ASSUME NEW w \in Workers, SetWorkerAvailability(w) \/ Crash(w) PROVE Fine
    BY <1>1, <1>5 DEF SetWorkerAvailability, Crash
  <1>6. ASSUME NEW w \in Workers, PollInVain(w) PROVE Fine BY <1>2, <1>6 DEF PollInVain
  <1>7. ASSUME NEW w \in Workers, Claim(w) PROVE Fine
    <2>1. \E delivered \in BOOLEAN : SpendIf(~delivered) BY <1>7 DEF Claim
    <2> QED BY <1>1, <2>1
  <1>8. ASSUME NEW g \in Grants, SetGrantStatus(g) PROVE Fine BY <1>1, <1>8 DEF SetGrantStatus
  <1>9. ASSUME NEW a \in attempts, Execute(a) \/ Renew(a) \/ Raise(a) \/ SaveReceipt(a) PROVE Fine
    <2>1. \/ \E cond \in BOOLEAN : SpendIf(cond)
          \/ UNCHANGED faults
      <3>1. CASE Execute(a)
        <4>1. PICK arrives \in BOOLEAN : SpendIf(~arrives) BY <3>1 DEF Execute
        <4> QED BY <4>1
      <3>2. CASE Renew(a)
        <4>1. PICK answered \in BOOLEAN : SpendIf(~answered) BY <3>2 DEF Renew
        <4> QED BY <4>1
      <3>3. CASE Raise(a) \/ SaveReceipt(a) BY <3>3 DEF Raise, SaveReceipt
      <3> QED BY <1>9, <3>1, <3>2, <3>3
    <2> QED BY <1>1, <1>2, <2>1
  <1>10. ASSUME NEW w \in Workers, NEW j \in Jobs, SendReceipt(w, j) PROVE Fine
    BY <1>2, <1>10 DEF SendReceipt
  <1>11. ASSUME NEW c \in calls, NEW cost, CompleteJob(c, cost) PROVE Fine
    <2>1. PICK answered \in BOOLEAN : SpendIf(~answered) BY <1>11 DEF CompleteJob
    <2> QED BY <1>1, <2>1
  <1>12. Fine
    BY <1>3, <1>4, <1>5, <1>6, <1>7, <1>8, <1>9, <1>10, <1>11
       DEF Next, Clients, Poll, Work, Answer, Busy
  <1>13. clock' \in 0 .. MaxClock
    <2>1. CASE Tick BY <1>0, <2>1 DEF Tick
    <2>2. CASE ~Tick
      <3>1. clock' = clock BY <2>2, OnlyTick
      <3> QED BY <1>0, <3>1
    <2> QED BY <2>1, <2>2
  <1> QED BY <1>12, <1>13

Grant == [open : BOOLEAN, reserved : Nat, spent : Nat]
PreviewStates == {"none", "queued", "active", "expired", "failed", "disabled"}

LEMMA HeldNat ==
    ASSUME TypeOK, NEW g \in Grants, NEW S \in SUBSET Jobs
    PROVE  HeldOf(g, S) \in Nat
  <1> DEFINE share == [j \in Jobs |-> IF rows[j].grant = g THEN rows[j].reserved ELSE 0]
  <1>1. share \in [Jobs -> Nat] BY RowFields
  <1>2. IsFiniteSet(Jobs) BY Basics
  <1> HIDE DEF share
  <1>3. SumFunctionOnSet(share, S) \in Nat BY <1>1, <1>2, SumNat
  <1> QED BY <1>3 DEF HeldOf, share

\* Giving back never makes a reservation negative.
LEMMA GiveBackType ==
    ASSUME TypeOK, NEW g \in Grants, NEW n \in Nat
    PROVE  GiveBack(g, n) \in [Grants -> Grant]
  <1>1. grants \in [Grants -> Grant] BY Basics DEF Grant
  <1>2. (IF grants[g].reserved > n THEN grants[g].reserved - n ELSE 0) \in Nat BY <1>1 DEF Grant
  <1>3. GiveBack(g, n) = [grants EXCEPT ![g].reserved =
                             IF grants[g].reserved > n THEN grants[g].reserved - n ELSE 0]
    BY <1>1 DEF GiveBack
  <1> QED BY <1>1, <1>2, <1>3 DEF Grant

LEMMA ReapedGrantsType ==
    ASSUME TypeOK
    PROVE  ReapedGrants \in [Grants -> Grant]
  <1>1. ASSUME NEW g \in Grants
        PROVE  [grants[g] EXCEPT !.reserved = @ - Least(@, HeldOf(g, Lapsed))] \in Grant
    <2>1. grants[g] \in Grant BY Basics DEF Grant
    <2>2. HeldOf(g, Lapsed) \in Nat BY HeldNat DEF Lapsed
    <2> QED BY <2>1, <2>2 DEF Grant, Least
  <1> QED BY <1>1 DEF ReapedGrants

LEMMA StoreTypeStep ==
    ASSUME TypeOK, [Next]_vars
    PROVE  /\ grants' \in [Grants -> Grant]
           /\ policy' \subseteq Workers
           /\ preview' \in [Jobs -> PreviewStates]
           /\ verdict' \in [Jobs -> {"staged", "validated", "rejected"}]
  <1> DEFINE Verdicts == {"staged", "validated", "rejected"}
             Fine == /\ grants' \in [Grants -> Grant] /\ policy' \subseteq Workers
                     /\ preview' \in [Jobs -> PreviewStates] /\ verdict' \in [Jobs -> Verdicts]
  <1>0. /\ grants \in [Grants -> Grant] /\ policy \subseteq Workers
        /\ preview \in [Jobs -> PreviewStates] /\ verdict \in [Jobs -> Verdicts]
    BY DEF TypeOK, Grant, PreviewStates
  <1> HIDE DEF Verdicts
  <1>1. ASSUME grants' = grants, policy' = policy, preview' = preview, verdict' = verdict PROVE Fine
    BY <1>0, <1>1
  <1>2. ASSUME NEW j \in Jobs, Submit(j) PROVE Fine BY <1>0, <1>2 DEF Submit, PreviewStates
  <1>3. ASSUME NEW j \in Jobs, CancelJob(j) PROVE Fine
    <2>1. grants' \in [Grants -> Grant]
      <3>1. CASE grants' = grants BY <1>0, <3>1
      <3>2. CASE rows[j].grant # None /\ grants' = GiveBack(rows[j].grant, rows[j].reserved)
        <4>1. rows[j].grant \in Grants /\ rows[j].reserved \in Nat BY <3>2, RowFields
        <4> QED BY <3>2, <4>1, GiveBackType
      <3> QED BY <1>3, <3>1, <3>2 DEF CancelJob
    <2>2. preview' \in [Jobs -> PreviewStates] BY <1>0, <1>3 DEF CancelJob, PreviewStates
    <2> QED BY <1>0, <1>3, <2>1, <2>2 DEF CancelJob
  <1>4. ASSUME ListPreviews PROVE Fine
    <2>1. preview' \in [Jobs -> PreviewStates] BY <1>0, <1>4 DEF ListPreviews, PreviewStates
    <2>2. grants' = grants /\ policy' = policy /\ verdict' = verdict BY <1>4 DEF ListPreviews
    <2> QED BY <1>0, <2>1, <2>2
  <1>5. ASSUME NEW w \in Workers, SetWorkerAvailability(w) PROVE Fine
    <2>1. grants' \in [Grants -> Grant] BY <1>0, <1>5 DEF SetWorkerAvailability, Grant
    <2> QED BY <1>0, <1>5, <2>1 DEF SetWorkerAvailability
  <1>6. ASSUME NEW g \in Grants, SetGrantStatus(g) PROVE Fine
    <2>1. grants' \in [Grants -> Grant] BY <1>0, <1>6 DEF SetGrantStatus, Grant
    <2> QED BY <1>0, <1>6, <2>1 DEF SetGrantStatus
  <1>7. ReapedPreviews \in [Jobs -> PreviewStates] BY <1>0 DEF ReapedPreviews, PreviewStates
  <1>8. ASSUME NEW w \in Workers, PollInVain(w) PROVE Fine
    BY <1>0, <1>7, <1>8, ReapedGrantsType DEF PollInVain, Reap
  <1>9. ASSUME NEW w \in Workers, Claim(w) PROVE Fine
    <2>1. PICK j \in Candidates(w), delivered \in BOOLEAN : \E g \in Offers(w, j) : Give(w, j, g)
      BY <1>9 DEF Claim
    <2>2. PICK g \in Offers(w, j) : Give(w, j, g) BY <2>1
    <2>3. j \in Jobs /\ g \in Grants \cup {None} BY DEF Candidates, Offers
    <2>4. grants' \in [Grants -> Grant]
      <3>1. CASE g = None BY <2>2, <3>1, ReapedGrantsType DEF Give
      <3>2. CASE g # None
        <4>1. Cost[j] \in Nat BY <2>3, Basics
        <4>2. grants' = [ReapedGrants EXCEPT ![g].reserved = @ + Cost[j]] BY <2>2, <3>2 DEF Give
        <4>3. ReapedGrants[g].reserved + Cost[j] \in Nat
          BY <2>3, <3>2, <4>1, ReapedGrantsType DEF Grant
        <4>4. grants' = [ReapedGrants EXCEPT ![g].reserved = ReapedGrants[g].reserved + Cost[j]]
          BY <4>2, ReapedGrantsType
        <4> QED BY <4>3, <4>4, ReapedGrantsType DEF Grant
      <3> QED BY <3>1, <3>2
    <2> QED BY <1>0, <1>7, <1>9, <2>2, <2>4 DEF Claim, Give
  <1>10. ASSUME NEW a, Execute(a) \/ Renew(a) \/ Raise(a) \/ SaveReceipt(a) PROVE Fine
    BY <1>1, <1>10 DEF Execute, Renew, Raise, SaveReceipt, store
  <1>11. ASSUME NEW w \in Workers, NEW j \in Jobs, SendReceipt(w, j) PROVE Fine
    <2>1. verdict' \in [Jobs -> Verdicts] BY <1>0, <1>11 DEF SendReceipt, Verdicts
    <2> QED BY <1>0, <1>11, <2>1 DEF SendReceipt
  <1>12. ASSUME NEW c \in calls, NEW cost \in 0 .. Cost[c.job] + 1, CompleteJob(c, cost) PROVE Fine
    <2>0. c.job \in Jobs /\ Cost[c.job] \in Nat /\ cost \in Nat
      <3>1. c.job \in Jobs BY Basics DEF CallType
      <3>2. Cost[c.job] \in Nat BY <3>1, Basics
      <3> QED BY <3>1, <3>2
    <2>1. CASE UNCHANGED <<rows, resv, grants, preview>> BY <1>0, <1>12, <2>1 DEF CompleteJob
    <2>2. CASE Finish(c, cost)
      <3> DEFINE g == rows[c.job].grant
                 n == rows[c.job].reserved
      <3>1. preview' \in [Jobs -> PreviewStates]
        <4>1. Published(c.job, StatusOf(c, cost)) \in PreviewStates
          BY DEF Published, PreviewStates, StatusOf
        <4> QED BY <1>0, <2>2, <4>1 DEF Finish
      <3>2. grants' \in [Grants -> Grant]
        <4>1. CASE g = None BY <1>0, <2>2, <4>1 DEF Finish
        <4>2. CASE g # None
          <5>1. g \in Grants /\ n \in Nat BY <2>0, <4>2, RowFields
          <5>2. GiveBack(g, n) \in [Grants -> Grant] BY <5>1, GiveBackType
          <5>3. Settled(c, cost) \in Nat BY <2>0 DEF Settled, Least
          <5>4. grants' = [GiveBack(g, n) EXCEPT ![g].spent = @ + Settled(c, cost)]
            BY <2>2, <4>2 DEF Finish
          <5>5. PICK h \in [Grants -> Grant] : h = GiveBack(g, n) BY <5>2
          <5>6. PICK row : row = [h[g] EXCEPT !.spent = @ + Settled(c, cost)] OBVIOUS
          <5>7. h[g] \in Grant /\ h[g].spent + Settled(c, cost) \in Nat BY <5>1, <5>3, <5>5 DEF Grant
          <5>8. row \in Grant BY <5>6, <5>7 DEF Grant
          <5>9. grants' = [h EXCEPT ![g] = row] BY <5>1, <5>4, <5>5, <5>6
          <5> QED BY <5>5, <5>8, <5>9
        <4> QED BY <4>1, <4>2
      <3> QED BY <1>0, <1>12, <3>1, <3>2 DEF CompleteJob
    <2> QED BY <1>12, <2>1, <2>2 DEF CompleteJob
  <1>13. ASSUME Tick \/ UNCHANGED vars PROVE Fine
    <2>1. grants' = grants /\ policy' = policy /\ preview' = preview /\ verdict' = verdict
      BY <1>13 DEF Tick, vars, store
    <2> QED BY <1>1, <2>1
  <1>14. ASSUME NEW w \in Workers, Crash(w) PROVE Fine BY <1>1, <1>14 DEF Crash, store
  <1> QED
    BY <1>2, <1>3, <1>4, <1>5, <1>6, <1>8, <1>9, <1>10, <1>11, <1>12, <1>13, <1>14
       DEF Next, Clients, Poll, Work, Answer, Busy, Verdicts

Receipt == [fence : Fences, ok : BOOLEAN, by : Fences]

LEMMA WorkerTypeStep ==
    ASSUME TypeOK, \A j \in Jobs : RowOK(j), [Next]_vars
    PROVE  /\ attempts' \subseteq AttemptType
           /\ receipts' \in [Workers -> [Jobs -> Receipt]]
           /\ calls' \subseteq CallType
  <1> DEFINE Fine == /\ attempts' \subseteq AttemptType
                     /\ receipts' \in [Workers -> [Jobs -> Receipt]]
                     /\ calls' \subseteq CallType
  <1>0. /\ attempts \subseteq AttemptType /\ calls \subseteq CallType
        /\ receipts \in [Workers -> [Jobs -> Receipt]]
    BY Basics DEF Receipt
  <1>1. CASE UNCHANGED worker /\ UNCHANGED calls BY <1>0, <1>1 DEF worker
  <1>2. ASSUME NEW a \in attempts, NEW b \in AttemptType, Becomes(a, b), UNCHANGED <<receipts, calls>>
        PROVE  Fine
    BY <1>0, <1>2 DEF Becomes
  <1>3. ASSUME NEW w \in Workers, Claim(w) PROVE Fine
    <2>0. PICK j \in Candidates(w), delivered \in BOOLEAN : \E g \in Offers(w, j) :
             /\ Give(w, j, g)
             /\ attempts' = IF delivered THEN attempts \cup {Attempt(j, w, rows[j].fence + 1)}
                            ELSE attempts
      BY <1>3 DEF Claim
    <2>1. PICK g \in Offers(w, j) :
             /\ Give(w, j, g)
             /\ attempts' = IF delivered THEN attempts \cup {Attempt(j, w, rows[j].fence + 1)}
                            ELSE attempts
      BY <2>0
    <2>2. j \in Jobs BY DEF Candidates
    <2>3. rows[j].fence + 1 \in Fences
      <3>1. resv'[j].fence = rows[j].fence + 1
        BY <2>1, <2>2 DEF Give, ReapedResv
      <3> QED BY <2>2, <3>1, RowsTypeStep
    <2>4. rows[j].saved \in Fences
      <3>1. rows[j] \in Row BY <2>2, Basics
      <3> QED BY <3>1 DEF Row
    <2>5. Attempt(j, w, rows[j].fence + 1) \in AttemptType
      BY <2>2, <2>3, <2>4, Zeros DEF Attempt, AttemptType
    <2> QED BY <1>0, <1>3, <2>1, <2>5 DEF Claim
  <1>4. ASSUME NEW a \in attempts, Renew(a) PROVE Fine
    <2>1. PICK answered \in BOOLEAN, learnt \in BOOLEAN :
             Becomes(a, [a EXCEPT !.renewing = answered, !.cancelSeen = learnt])
      BY <1>4 DEF Renew
    <2>2. [a EXCEPT !.renewing = answered, !.cancelSeen = learnt] \in AttemptType
      BY <1>0 DEF AttemptType
    <2> QED BY <1>2, <1>4, <2>1, <2>2 DEF Renew
  <1>5. ASSUME NEW a \in attempts, Execute(a) PROVE Fine
    <2>1. Becomes(a, [a EXCEPT !.at = "report", !.ok = TRUE, !.by = ByOf(a)])
      BY <1>5 DEF Execute, ByOf
    <2>2. ByOf(a) \in Fences BY <1>0 DEF AttemptType, ByOf
    <2>3. [a EXCEPT !.at = "report", !.ok = TRUE, !.by = ByOf(a)] \in AttemptType
      BY <1>0, <2>2 DEF AttemptType
    <2> QED BY <1>2, <1>5, <2>1, <2>3 DEF Execute
  <1>6. ASSUME NEW a \in attempts, Raise(a) PROVE Fine
    <2>1. [a EXCEPT !.at = "report"] \in AttemptType BY <1>0 DEF AttemptType
    <2> QED BY <1>2, <1>6, <2>1 DEF Raise
  <1>7. ASSUME NEW a \in attempts, SaveReceipt(a) PROVE Fine
    <2> DEFINE r == [fence |-> a.fence, ok |-> a.ok /\ ~a.cancelSeen,
                     by |-> IF a.cancelSeen THEN 0 ELSE a.by]
    <2>1. a \in AttemptType BY <1>0
    <2>2. r \in Receipt BY <2>1, Zeros DEF Receipt, AttemptType
    <2>3. receipts' = [receipts EXCEPT ![a.worker][a.job] = r] BY <1>7 DEF SaveReceipt
    <2>4. attempts' = attempts \ {a} /\ calls' = calls BY <1>7 DEF SaveReceipt
    <2> HIDE DEF r
    <2>5. receipts' \in [Workers -> [Jobs -> Receipt]] BY <1>0, <2>2, <2>3
    <2> QED BY <1>0, <2>4, <2>5
  <1>8. ASSUME NEW w \in Workers, NEW j \in Jobs, SendReceipt(w, j) PROVE Fine
    <2> DEFINE r == receipts[w][j]
               refused == r.ok /\ j \in Previews /\ rows[j].status # "cancelling" /\ Ttl[j] <= clock
               c == [worker |-> w, job |-> j, fence |-> r.fence, ok |-> r.ok /\ ~refused, by |-> r.by]
    <2>1. r \in Receipt BY <1>0
    <2>2. c \in CallType BY <2>1 DEF Receipt, CallType
    <2>3. calls' = calls \cup {c} BY <1>8 DEF SendReceipt
    <2> HIDE DEF c
    <2> QED BY <1>0, <1>8, <2>2, <2>3 DEF SendReceipt, worker
  <1>9. ASSUME NEW c \in calls, NEW cost, CompleteJob(c, cost) PROVE Fine
    <2>1. NoReceipt \in Receipt BY Zeros DEF NoReceipt, Receipt
    <2>2. receipts' = receipts \/ receipts' = [receipts EXCEPT ![c.worker][c.job] = NoReceipt]
      BY <1>9 DEF CompleteJob
    <2>3. receipts' \in [Workers -> [Jobs -> Receipt]] BY <1>0, <2>1, <2>2
    <2> QED BY <1>0, <1>9, <2>3 DEF CompleteJob
  <1>10. ASSUME NEW w \in Workers, Crash(w) PROVE Fine BY <1>0, <1>10 DEF Crash
  <1>11. ASSUME NEW j \in Jobs, Submit(j) \/ CancelJob(j) PROVE Fine
    BY <1>1, <1>11 DEF Submit, CancelJob
  <1>12. CASE ListPreviews \/ Tick \/ UNCHANGED vars
    BY <1>1, <1>12 DEF ListPreviews, Tick, vars, worker
  <1>13. ASSUME NEW w \in Workers, SetWorkerAvailability(w) \/ PollInVain(w) PROVE Fine
    BY <1>1, <1>13 DEF SetWorkerAvailability, PollInVain
  <1>14. ASSUME NEW g \in Grants, SetGrantStatus(g) PROVE Fine
    BY <1>1, <1>14 DEF SetGrantStatus
  <1> QED
    BY <1>3, <1>4, <1>5, <1>6, <1>7, <1>8, <1>9, <1>10, <1>11, <1>12, <1>13, <1>14
       DEF Next, Clients, Poll, Work, Answer, Busy

LEMMA TypeStep ==
    ASSUME TypeOK, \A j \in Jobs : RowOK(j), [Next]_vars
    PROVE  TypeOK'
  BY RowsTypeStep, CountersTypeStep, StoreTypeStep, WorkerTypeStep
     DEF TypeOK, Grant, PreviewStates, Leases, AttemptType, CallType, Receipt

-----------------------------------------------------------------------------
(* A preview follows its job.                                              *)

Follows(status, p) ==
    /\ p \in {"active", "expired"} => status = "succeeded"
    /\ status = "cancelled" => p = "disabled"
    /\ status = "failed" => p = "failed"

LEMMA ReapedPreviewFollows ==
    ASSUME TypeOK, NEW j \in Jobs, j \in Previews, Follows(rows[j].status, preview[j])
    PROVE  Follows(ReapedRows[j].status, ReapedPreviews[j])
  <1>0. rows[j] \in Row BY Basics
  <1>1. CASE j \in Overdue
    <2>1. ReapedRows[j].status = "failed" /\ ReapedPreviews[j] = "failed"
      BY <1>0, <1>1 DEF ReapedRows, ReapedPreviews, Row
    <2> QED BY <2>1 DEF Follows
  <1>2. CASE j \notin Overdue /\ j \in Lapsed
    <2>1. ReapedRows[j].status = "queued" /\ ReapedPreviews[j] = preview[j]
      BY <1>0, <1>2 DEF ReapedRows, ReapedPreviews, Row
    <2> QED BY <1>2, <2>1 DEF Follows, Lapsed
  <1>3. CASE j \notin Overdue /\ j \notin Lapsed
    <2>1. ReapedRows[j] = rows[j] /\ ReapedPreviews[j] = preview[j]
      BY <1>3 DEF ReapedRows, ReapedPreviews
    <2> QED BY <2>1
  <1> QED BY <1>1, <1>2, <1>3

LEMMA PreviewStep ==
    ASSUME TypeOK, PreviewFollowsJob, [Next]_vars
    PROVE  PreviewFollowsJob'
  <1> SUFFICES ASSUME NEW j \in Previews PROVE Follows(rows'[j].status, preview'[j])
    BY DEF PreviewFollowsJob, Follows
  <1> DEFINE Fine == Follows(rows'[j].status, preview'[j])
  <1>0. /\ j \in Jobs /\ rows[j] \in Row /\ rows \in [Jobs -> Row]
        /\ preview \in [Jobs -> PreviewStates] /\ Follows(rows[j].status, preview[j])
    BY Basics, ClusterAssumption DEF TypeOK, PreviewStates, PreviewFollowsJob, Follows
  <1>1. ASSUME rows'[j].status = rows[j].status, preview' = preview PROVE Fine BY <1>0, <1>1
  <1>2. ASSUME NEW i \in Jobs, Submit(i) PROVE Fine
    <2>1. CASE i # j
      <3>1. rows'[j] = rows[j] /\ preview'[j] = preview[j] BY <1>0, <1>2, <2>1 DEF Submit
      <3> QED BY <1>0, <3>1
    <2>2. CASE i = j
      <3>1. rows'[j].status = "queued" /\ preview'[j] = "queued"
        BY <1>0, <1>2, <2>2 DEF Submit, Row
      <3> QED BY <3>1 DEF Follows
    <2> QED BY <2>1, <2>2
  <1>3. ASSUME NEW i \in Jobs, CancelJob(i) PROVE Fine
    <2>1. CASE i # j
      <3>1. rows'[j] = rows[j] /\ preview'[j] = preview[j] BY <1>0, <1>3, <2>1 DEF CancelJob
      <3> QED BY <1>0, <3>1
    <2>2. CASE i = j
      <3>1. rows'[j].status \in {"cancelled", "cancelling"} /\ preview'[j] = "disabled"
        BY <1>0, <1>3, <2>2 DEF CancelJob, Row
      <3> QED BY <3>1 DEF Follows
    <2> QED BY <2>1, <2>2
  <1>4. ASSUME ListPreviews PROVE Fine
    <2>1. /\ rows'[j] = rows[j]
          /\ preview'[j] = preview[j] \/ (preview[j] = "active" /\ preview'[j] = "expired")
      BY <1>0, <1>4 DEF ListPreviews
    <2> QED BY <1>0, <2>1 DEF Follows
  <1>5. Follows(ReapedRows[j].status, ReapedPreviews[j]) BY <1>0, ReapedPreviewFollows
  <1>6. ASSUME NEW w \in Workers, PollInVain(w) PROVE Fine
    BY <1>5, <1>6 DEF PollInVain, Reap
  <1>7. ASSUME NEW w \in Workers, Claim(w) PROVE Fine
    <2>1. PICK i \in Candidates(w), delivered \in BOOLEAN : \E g \in Offers(w, i) : Give(w, i, g)
      BY <1>7 DEF Claim
    <2>2. PICK g \in Offers(w, i) : Give(w, i, g) BY <2>1
    <2>3. preview'[j] = ReapedPreviews[j] BY <2>2 DEF Give
    <2>4. CASE i # j
      <3>1. rows'[j] = ReapedRows[j] BY <1>0, <2>2, <2>4 DEF Give, ReapedRows
      <3> QED BY <1>5, <2>3, <3>1
    <2>5. CASE i = j
      <3>1. ReapedRows[j].status = "queued" BY <2>5 DEF Candidates
      <3>2. rows'[j].status = "running"
        <4>1. ReapedRows[j] \in Row BY <1>0, ReapMovesRow
        <4>2. rows'[j] = [ReapedRows[j] EXCEPT !.status = "running", !.worker = w,
                              !.fence = rows[j].fence + 1, !.lease = LeaseFrom(j), !.grant = g,
                              !.reserved = IF g = None THEN 0 ELSE Cost[j]]
          BY <1>0, <2>2, <2>5 DEF Give, ReapedRows
        <4> QED BY <4>1, <4>2 DEF Row
      <3> QED BY <1>5, <2>3, <3>1, <3>2 DEF Follows
    <2> QED BY <2>4, <2>5
  <1>8. ASSUME NEW a \in attempts, Renew(a) \/ Execute(a) PROVE Fine
    <2>1. preview' = preview BY <1>8 DEF Renew, Execute
    <2>2. \/ rows' = rows
          \/ rows' = [rows EXCEPT ![a.job].lease = LeaseFrom(a.job)]
          \/ rows' = [rows EXCEPT ![a.job].saved = ByOf(a)]
      BY <1>8 DEF Renew, Execute, SaveCheckpoint, ByOf
    <2>3. rows'[j].status = rows[j].status BY <1>0, <2>2 DEF Row
    <2> QED BY <1>1, <2>1, <2>3
  <1>9. ASSUME NEW c \in calls, NEW cost, CompleteJob(c, cost) PROVE Fine
    <2>1. CASE UNCHANGED <<rows, resv, grants, preview>> BY <1>1, <2>1
    <2>2. CASE Finish(c, cost)
      <3>1. CASE c.job # j
        <4>1. rows'[j] = rows[j] BY <1>0, <2>2, <3>1 DEF Finish
        <4>2. preview'[j] = preview[j] BY <1>0, <2>2, <3>1 DEF Finish
        <4> QED BY <1>0, <4>1, <4>2
      <3>2. CASE c.job = j
        <4>1. rows'[j].status = StatusOf(c, cost) /\ preview'[j] = Published(j, StatusOf(c, cost))
          BY <1>0, <2>2, <3>2 DEF Finish, Row
        <4>2. StatusOf(c, cost) \in Ended BY DEF StatusOf, Ended
        <4> QED BY <4>1, <4>2 DEF Published, Follows, Ended
      <3> QED BY <3>1, <3>2
    <2> QED BY <1>9, <2>1, <2>2 DEF CompleteJob
  <1>10. ASSUME NEW a, Raise(a) \/ SaveReceipt(a) PROVE Fine
    BY <1>1, <1>10 DEF Raise, SaveReceipt, store
  <1>11. ASSUME NEW w \in Workers, SetWorkerAvailability(w) \/ Crash(w) PROVE Fine
    BY <1>1, <1>11 DEF SetWorkerAvailability, Crash, store
  <1>12. ASSUME NEW g \in Grants, SetGrantStatus(g) PROVE Fine BY <1>1, <1>12 DEF SetGrantStatus
  <1>13. ASSUME NEW w \in Workers, NEW i \in Jobs, SendReceipt(w, i) PROVE Fine
    BY <1>1, <1>13 DEF SendReceipt
  <1>14. ASSUME Tick \/ UNCHANGED vars PROVE Fine
    <2>1. rows' = rows /\ preview' = preview BY <1>14 DEF Tick, vars, store
    <2> QED BY <1>1, <2>1
  <1> QED
    BY <1>2, <1>3, <1>4, <1>6, <1>7, <1>8, <1>9, <1>10, <1>11, <1>12, <1>13, <1>14
       DEF Next, Clients, Poll, Work, Answer, Busy

-----------------------------------------------------------------------------
(* What a grant has reserved is what the jobs hold of it.                  *)

Shares(table, g) == [j \in Jobs |-> IF table[j].grant = g THEN table[j].reserved ELSE 0]
Held(table, g) == SumFunctionOnSet(Shares(table, g), Jobs)

LEMMA HeldOfAll ==
    ASSUME NEW g
    PROVE  HeldOf(g, Jobs) = Held(rows, g) /\ HeldOf(g, Jobs)' = Held(rows', g)
  BY DEF HeldOf, Held, Shares

LEMMA SharesType ==
    ASSUME NEW table \in [Jobs -> Row], NEW g
    PROVE  Shares(table, g) \in [Jobs -> Nat]
  BY DEF Shares, Row

\* Nothing about grants and reserved amounts changes.
LEMMA BudgetSame ==
    ASSUME BudgetOK, TypeOK,
           \A j \in Jobs : rows'[j].grant = rows[j].grant /\ rows'[j].reserved = rows[j].reserved,
           \A g \in Grants : /\ grants'[g].reserved = grants[g].reserved
                             /\ grants'[g].spent = grants[g].spent
    PROVE  BudgetOK'
  <1> SUFFICES ASSUME NEW g \in Grants
               PROVE  /\ grants'[g].reserved = HeldOf(g, Jobs)'
                      /\ grants'[g].reserved + grants'[g].spent <= Budget[g]
    BY DEF BudgetOK
  <1>1. Shares(rows', g) = Shares(rows, g) BY DEF Shares
  <1>2. HeldOf(g, Jobs)' = HeldOf(g, Jobs) BY <1>1, HeldOfAll DEF Held
  <1> QED BY <1>2 DEF BudgetOK

\* claim_job's settling keeps the accounts.
LEMMA ReapKeepsBudget ==
    ASSUME TypeOK, BudgetOK, \A j \in Jobs : RowOK(j), NEW g \in Grants
    PROVE  /\ ReapedGrants[g].reserved = Held(ReapedRows, g)
           /\ ReapedGrants[g].reserved <= grants[g].reserved
           /\ ReapedGrants[g].spent = grants[g].spent
           /\ ReapedRows \in [Jobs -> Row]
  <1> DEFINE f == Shares(rows, g)
             h == Shares(ReapedRows, g)
  <1>0. /\ rows \in [Jobs -> Row] /\ IsFiniteSet(Jobs) /\ None \notin Grants
        /\ grants[g] \in Grant
    BY Basics DEF Grant
  <1>1. ReapedRows \in [Jobs -> Row] BY ReapMovesRow DEF ReapedRows
  <1>2. f \in [Jobs -> Nat] /\ h \in [Jobs -> Nat] BY <1>0, <1>1, SharesType
  <1>3. ASSUME NEW j \in Lapsed PROVE h[j] = 0
    <2>1. j \in Jobs /\ j \notin Overdue BY DEF Lapsed, Overdue
    <2>2. ReapedRows[j].reserved = 0 BY <1>0, <2>1 DEF ReapedRows, Row
    <2> QED BY <2>1, <2>2 DEF Shares
  <1>4. ASSUME NEW j \in Jobs \ Lapsed PROVE h[j] = f[j]
    <2>1. ReapedRows[j].grant = rows[j].grant /\ ReapedRows[j].reserved = rows[j].reserved
      BY <1>0 DEF ReapedRows, Row
    <2> QED BY <2>1 DEF Shares
  <1>5. Lapsed \in SUBSET Jobs BY DEF Lapsed
  <1>6. HeldOf(g, Lapsed) = SumFunctionOnSet(f, Lapsed) BY DEF HeldOf, Shares
  <1>7. grants[g].reserved = SumFunctionOnSet(f, Jobs) BY HeldOfAll DEF BudgetOK, Held
  <1> HIDE DEF f, h
  <1>8. /\ SumFunctionOnSet(h, Jobs) = SumFunctionOnSet(f, Jobs) - SumFunctionOnSet(f, Lapsed)
        /\ SumFunctionOnSet(f, Lapsed) \in Nat /\ SumFunctionOnSet(f, Jobs) \in Nat
        /\ SumFunctionOnSet(f, Lapsed) <= SumFunctionOnSet(f, Jobs)
    BY <1>0, <1>2, <1>3, <1>4, <1>5, SumVanishes
  <1>9. ReapedGrants[g].reserved = grants[g].reserved - Least(grants[g].reserved, HeldOf(g, Lapsed))
        /\ ReapedGrants[g].spent = grants[g].spent
    BY <1>0 DEF ReapedGrants, Grant
  <1>10. Least(grants[g].reserved, HeldOf(g, Lapsed)) = SumFunctionOnSet(f, Lapsed)
    BY <1>6, <1>7, <1>8 DEF Least
  <1>11. ReapedGrants[g].reserved = SumFunctionOnSet(h, Jobs) BY <1>7, <1>8, <1>9, <1>10
  <1>12. ReapedGrants[g].reserved <= grants[g].reserved BY <1>7, <1>8, <1>9, <1>10
  <1> QED BY <1>1, <1>9, <1>11, <1>12 DEF Held, h

\* A job that can be given has nothing reserved.
LEMMA CandidateHoldsNothing ==
    ASSUME TypeOK, NEW w \in Workers, NEW j \in Candidates(w), RowOK(j)
    PROVE  j \in Jobs /\ ReapedRows[j].reserved = 0
  <1>1. j \in Jobs /\ ReapedRows[j].status = "queued" BY DEF Candidates
  <1>2. rows[j] \in Row BY <1>1, Basics
  <1>3. CASE j \in Overdue BY <1>1, <1>2, <1>3 DEF ReapedRows, Row
  <1>4. CASE j \notin Overdue /\ j \in Lapsed BY <1>1, <1>2, <1>4 DEF ReapedRows, Row
  <1>5. CASE j \notin Overdue /\ j \notin Lapsed
    <2>1. ReapedRows[j] = rows[j] BY <1>1, <1>5 DEF ReapedRows
    <2> QED BY <1>1, <2>1 DEF RowOK, Owned
  <1> QED BY <1>1, <1>3, <1>4, <1>5

LEMMA ClaimKeepsBudget ==
    ASSUME TypeOK, BudgetOK, \A j \in Jobs : RowOK(j), rows' \in [Jobs -> Row],
           NEW w \in Workers, Claim(w)
    PROVE  BudgetOK'
  <1>0. PICK j \in Candidates(w), delivered \in BOOLEAN : \E g \in Offers(w, j) : Give(w, j, g)
    BY DEF Claim
  <1>1. PICK g \in Offers(w, j) : Give(w, j, g) BY <1>0
  <1> DEFINE r == IF g = None THEN 0 ELSE Cost[j]
  <1>2. j \in Jobs /\ ReapedRows[j].reserved = 0
    <2>1. j \in Jobs BY DEF Candidates
    <2> QED BY <2>1, CandidateHoldsNothing
  <1>3. /\ IsFiniteSet(Jobs) /\ None \notin Grants /\ Cost[j] \in Nat
        /\ Cost[j] > 0 => j \in NeedsGrant
        /\ grants \in [Grants -> Grant] /\ Budget \in [Grants -> Nat]
    BY <1>2, Basics DEF Grant
  <1>4. r \in Nat BY <1>3
  <1>5. rows'[j].grant = g /\ rows'[j].reserved = r
    <2>1. ReapedRows[j] \in Row BY <1>2, ReapMovesRow
    <2>2. rows'[j] = [ReapedRows[j] EXCEPT !.status = "running", !.worker = w,
                          !.fence = rows[j].fence + 1, !.lease = LeaseFrom(j), !.grant = g,
                          !.reserved = r]
      BY <1>1, <1>2 DEF Give, ReapedRows
    <2> QED BY <2>1, <2>2 DEF Row
  <1>6. \A k \in Jobs : k # j => rows'[k] = ReapedRows[k] BY <1>1 DEF Give, ReapedRows
  <1>7. ReapedGrants \in [Grants -> Grant] BY ReapedGrantsType
  <1>8. grants' = IF g = None THEN ReapedGrants ELSE [ReapedGrants EXCEPT ![g].reserved = @ + r]
    BY <1>1 DEF Give
  <1> HIDE DEF r
  <1> SUFFICES ASSUME NEW gg \in Grants
               PROVE  /\ grants'[gg].reserved = HeldOf(gg, Jobs)'
                      /\ grants'[gg].reserved + grants'[gg].spent <= Budget[gg]
    BY DEF BudgetOK
  <1> DEFINE f == Shares(ReapedRows, gg)
             h == Shares(rows', gg)
  <1>9. /\ ReapedGrants[gg].reserved = Held(ReapedRows, gg)
        /\ ReapedGrants[gg].reserved <= grants[gg].reserved
        /\ ReapedGrants[gg].spent = grants[gg].spent
        /\ ReapedRows \in [Jobs -> Row]
    BY ReapKeepsBudget
  <1>10. f \in [Jobs -> Nat] /\ h \in [Jobs -> Nat] BY <1>9, SharesType
  <1>11. f[j] = 0 /\ h[j] = IF g = gg THEN r ELSE 0 BY <1>2, <1>5 DEF Shares
  <1>12. \A k \in Jobs : k # j => f[k] = h[k] BY <1>6 DEF Shares
  <1>13. Held(ReapedRows, gg) = SumFunctionOnSet(f, Jobs) /\ HeldOf(gg, Jobs)' = SumFunctionOnSet(h, Jobs)
    BY HeldOfAll DEF Held
  <1> HIDE DEF f, h
  <1>14. SumFunctionOnSet(h, Jobs) + f[j] = SumFunctionOnSet(f, Jobs) + h[j]
    BY <1>2, <1>3, <1>10, <1>12, SumChanges
  <1>15. SumFunctionOnSet(h, Jobs) \in Nat /\ SumFunctionOnSet(f, Jobs) \in Nat BY <1>3, <1>10, SumNat
  <1>16. HeldOf(gg, Jobs)' = ReapedGrants[gg].reserved + (IF g = gg THEN r ELSE 0)
    BY <1>4, <1>9, <1>11, <1>13, <1>14, <1>15
  <1>17. /\ grants'[gg].reserved = ReapedGrants[gg].reserved + (IF g = gg THEN r ELSE 0)
         /\ grants'[gg].spent = grants[gg].spent
    <2>1. ReapedGrants[gg].reserved \in Nat BY <1>7 DEF Grant
    <2>2. CASE g = None BY <1>3, <1>8, <1>9, <2>1, <2>2
    <2>3. CASE g # None /\ g # gg BY <1>7, <1>8, <1>9, <2>1, <2>3
    <2>4. CASE g # None /\ g = gg BY <1>7, <1>8, <1>9, <2>1, <2>4 DEF Grant
    <2> QED BY <2>2, <2>3, <2>4
  <1>18. ReapedGrants[gg].reserved + (IF g = gg THEN r ELSE 0) + grants[gg].spent <= Budget[gg]
    <2>1. /\ ReapedGrants[gg].reserved \in Nat /\ grants[gg].reserved \in Nat /\ grants[gg].spent \in Nat
          /\ Budget[gg] \in Nat
      BY <1>3, <1>7 DEF Grant
    <2>2. ReapedGrants[gg].reserved + grants[gg].spent <= Budget[gg]
      <3>1. grants[gg].reserved + grants[gg].spent <= Budget[gg] BY DEF BudgetOK
      <3> QED BY <1>9, <2>1, <3>1
    <2>3. CASE g # gg \/ r = 0 BY <2>1, <2>2, <2>3
    <2>4. CASE g = gg /\ r # 0
      <3>1. g # None /\ r = Cost[j] /\ Cost[j] > 0 BY <1>3, <2>4 DEF r
      <3>2. Lends(w, g, j) BY <3>1 DEF Offers
      <3>3. ReapedGrants[g].reserved + grants[g].spent + Cost[j] <= Budget[g]
        BY <1>3, <3>1, <3>2 DEF Lends
      <3> QED BY <1>3, <2>1, <2>4, <3>1, <3>3
    <2> QED BY <2>3, <2>4
  <1>19. ReapedGrants[gg].reserved \in Nat /\ grants[gg].spent \in Nat BY <1>3, <1>7 DEF Grant
  <1> QED BY <1>4, <1>16, <1>17, <1>18, <1>19

LEMMA PollKeepsBudget ==
    ASSUME TypeOK, BudgetOK, \A j \in Jobs : RowOK(j), NEW w \in Workers, PollInVain(w)
    PROVE  BudgetOK'
  <1> SUFFICES ASSUME NEW g \in Grants
               PROVE  /\ grants'[g].reserved = HeldOf(g, Jobs)'
                      /\ grants'[g].reserved + grants'[g].spent <= Budget[g]
    BY DEF BudgetOK
  <1>1. rows' = ReapedRows /\ grants' = ReapedGrants BY DEF PollInVain, Reap
  <1>2. /\ ReapedGrants[g].reserved = Held(ReapedRows, g)
        /\ ReapedGrants[g].reserved <= grants[g].reserved
        /\ ReapedGrants[g].spent = grants[g].spent
    BY ReapKeepsBudget
  <1>3. HeldOf(g, Jobs)' = Held(ReapedRows, g) BY <1>1, HeldOfAll
  <1>4. /\ ReapedGrants[g].reserved \in Nat /\ grants[g].reserved \in Nat /\ grants[g].spent \in Nat
        /\ Budget[g] \in Nat
    BY Basics, ReapedGrantsType DEF Grant
  <1>5. grants[g].reserved + grants[g].spent <= Budget[g] BY DEF BudgetOK
  <1> QED BY <1>1, <1>2, <1>3, <1>4, <1>5

LEMMA FinishKeepsBudget ==
    ASSUME TypeOK, BudgetOK, \A j \in Jobs : RowOK(j), rows' \in [Jobs -> Row],
           NEW c \in calls, NEW cost \in Nat, rows[c.job].status \in Owned, Finish(c, cost)
    PROVE  BudgetOK'
  <1> DEFINE j == c.job
             g == rows[j].grant
             n == rows[j].reserved
  <1>0. /\ j \in Jobs /\ rows[j] \in Row /\ rows \in [Jobs -> Row] /\ IsFiniteSet(Jobs)
        /\ Cost[j] \in Nat /\ grants \in [Grants -> Grant] /\ Budget \in [Grants -> Nat]
        /\ None \notin Grants
    <2>1. c.job \in Jobs BY Basics DEF CallType
    <2> QED BY <2>1, Basics DEF Grant
  <1>1. rows'[j].grant = g /\ rows'[j].reserved = 0 BY <1>0 DEF Finish, Row
  <1>2. \A k \in Jobs : k # j => rows'[k] = rows[k] BY <1>0 DEF Finish
  <1>3. n \in Nat /\ g \in Grants \cup {None} BY <1>0, RowFields
  <1>4. g # None => n = Cost[j] BY <1>0 DEF RowOK
  <1>5. grants' = IF g = None THEN grants
                  ELSE [GiveBack(g, n) EXCEPT ![g].spent = @ + Settled(c, cost)]
    BY DEF Finish
  <1>6. Settled(c, cost) \in Nat /\ Settled(c, cost) <= Cost[j] BY <1>0 DEF Settled, Least
  <1> HIDE DEF g, n
  <1> SUFFICES ASSUME NEW gg \in Grants
               PROVE  /\ grants'[gg].reserved = HeldOf(gg, Jobs)'
                      /\ grants'[gg].reserved + grants'[gg].spent <= Budget[gg]
    BY DEF BudgetOK
  <1> DEFINE f == Shares(rows, gg)
             h == Shares(rows', gg)
  <1>7. f \in [Jobs -> Nat] /\ h \in [Jobs -> Nat] BY <1>0, SharesType
  <1>8. f[j] = (IF g = gg THEN n ELSE 0) /\ h[j] = 0 BY <1>0, <1>1 DEF Shares, g, n
  <1>9. \A k \in Jobs : k # j => f[k] = h[k] BY <1>2 DEF Shares
  <1>10. grants[gg].reserved = SumFunctionOnSet(f, Jobs) /\ HeldOf(gg, Jobs)' = SumFunctionOnSet(h, Jobs)
    BY HeldOfAll DEF Held, BudgetOK
  <1>11. grants[gg].reserved + grants[gg].spent <= Budget[gg] BY DEF BudgetOK
  <1>12. grants[gg] \in Grant /\ Budget[gg] \in Nat BY <1>0
  <1> HIDE DEF f, h, j
  <1>13. SumFunctionOnSet(h, Jobs) + f[j] = SumFunctionOnSet(f, Jobs) + h[j]
    BY <1>0, <1>7, <1>9, SumChanges
  <1>14. SumFunctionOnSet(h, Jobs) \in Nat /\ SumFunctionOnSet(f, Jobs) \in Nat BY <1>0, <1>7, SumNat
  <1>15. SumFunctionOnSet(h, Jobs) + (IF g = gg THEN n ELSE 0) = SumFunctionOnSet(f, Jobs)
    BY <1>8, <1>13, <1>14
  <1>16. CASE g # gg
    <2>1. grants'[gg] = grants[gg]
      <3>1. GiveBack(g, n)[gg] = grants[gg] BY <1>0, <1>16 DEF GiveBack
      <3> QED BY <1>0, <1>3, <1>5, <1>16, <3>1, GiveBackType
    <2> QED BY <1>10, <1>11, <1>14, <1>15, <1>16, <2>1
  <1>17. CASE g = gg
    <2>1. g # None /\ g \in Grants /\ n = Cost[j] BY <1>0, <1>4, <1>17
    <2>2. /\ grants[g].reserved \in Nat /\ grants[g].spent \in Nat
          /\ grants[g].reserved = SumFunctionOnSet(h, Jobs) + n
      BY <1>10, <1>12, <1>15, <1>17 DEF Grant
    <2>3. GiveBack(g, n)[g] = [grants[g] EXCEPT !.reserved = SumFunctionOnSet(h, Jobs)]
      <3>1. (IF grants[g].reserved > n THEN grants[g].reserved - n ELSE 0) = SumFunctionOnSet(h, Jobs)
        BY <1>3, <1>14, <2>2
      <3>2. GiveBack(g, n) = [grants EXCEPT ![g].reserved =
                                IF grants[g].reserved > n THEN grants[g].reserved - n ELSE 0]
        BY <1>0, <2>1 DEF GiveBack
      <3> QED BY <1>0, <2>1, <3>1, <3>2
    <2>4. /\ grants'[g].reserved = SumFunctionOnSet(h, Jobs)
          /\ grants'[g].spent = grants[g].spent + Settled(c, cost)
      <3>1. GiveBack(g, n) \in [Grants -> Grant] BY <1>3, <2>1, GiveBackType
      <3>2. grants' = [GiveBack(g, n) EXCEPT ![g].spent = @ + Settled(c, cost)] BY <1>5, <2>1
      <3> QED BY <1>12, <1>17, <2>1, <2>3, <3>1, <3>2 DEF Grant
    <2>5. SumFunctionOnSet(h, Jobs) + (grants[g].spent + Settled(c, cost)) <= Budget[g]
      BY <1>0, <1>3, <1>6, <1>11, <1>12, <1>14, <1>17, <2>1, <2>2
    <2> QED BY <1>10, <1>17, <2>4, <2>5
  <1> QED BY <1>16, <1>17

LEMMA BudgetStep ==
    ASSUME TypeOK, BudgetOK, \A j \in Jobs : RowOK(j), [Next]_vars
    PROVE  BudgetOK'
  <1>0. rows \in [Jobs -> Row] /\ rows' \in [Jobs -> Row] /\ grants \in [Grants -> Grant]
    BY Basics, RowsTypeStep DEF Grant
  <1>1. ASSUME rows' = rows, grants' = grants PROVE BudgetOK' BY <1>1, BudgetSame
  <1>2. ASSUME NEW i \in Jobs, Submit(i) PROVE BudgetOK'
    <2>1. \A j \in Jobs : rows'[j].grant = rows[j].grant /\ rows'[j].reserved = rows[j].reserved
      BY <1>0, <1>2 DEF Submit, Row
    <2> QED BY <1>2, <2>1, BudgetSame DEF Submit
  <1>3. ASSUME NEW i \in Jobs, CancelJob(i) PROVE BudgetOK'
    <2>1. rows[i].status = "queued" => rows[i].grant = None /\ rows[i].reserved = 0
      BY DEF RowOK, Owned
    <2>2. grants' = grants BY <1>3, <2>1 DEF CancelJob
    <2>3. \A j \in Jobs : rows'[j].grant = rows[j].grant /\ rows'[j].reserved = rows[j].reserved
      BY <1>0, <1>3, <2>1 DEF CancelJob, Row
    <2> QED BY <2>2, <2>3, BudgetSame
  <1>4. ASSUME NEW w \in Workers, SetWorkerAvailability(w) PROVE BudgetOK'
    <2>1. rows' = rows BY <1>4 DEF SetWorkerAvailability
    <2>2. \A g \in Grants : /\ grants'[g].reserved = grants[g].reserved
                            /\ grants'[g].spent = grants[g].spent
      BY <1>0, <1>4 DEF SetWorkerAvailability, Grant
    <2> QED BY <2>1, <2>2, BudgetSame
  <1>5. ASSUME NEW h \in Grants, SetGrantStatus(h) PROVE BudgetOK'
    <2>1. rows' = rows BY <1>5 DEF SetGrantStatus
    <2>2. \A g \in Grants : /\ grants'[g].reserved = grants[g].reserved
                            /\ grants'[g].spent = grants[g].spent
      BY <1>0, <1>5 DEF SetGrantStatus, Grant
    <2> QED BY <2>1, <2>2, BudgetSame
  <1>6. ASSUME NEW w \in Workers, PollInVain(w) PROVE BudgetOK' BY <1>6, PollKeepsBudget
  <1>7. ASSUME NEW w \in Workers, Claim(w) PROVE BudgetOK' BY <1>0, <1>7, ClaimKeepsBudget
  <1>8. ASSUME NEW a \in attempts, Renew(a) \/ Execute(a) PROVE BudgetOK'
    <2>1. grants' = grants BY <1>8 DEF Renew, Execute
    <2>2. \/ rows' = rows
          \/ rows' = [rows EXCEPT ![a.job].lease = LeaseFrom(a.job)]
          \/ rows' = [rows EXCEPT ![a.job].saved = ByOf(a)]
      BY <1>8 DEF Renew, Execute, SaveCheckpoint, ByOf
    <2>3. \A j \in Jobs : rows'[j].grant = rows[j].grant /\ rows'[j].reserved = rows[j].reserved
      BY <1>0, <2>2 DEF Row
    <2> QED BY <2>1, <2>3, BudgetSame
  <1>9. ASSUME NEW c \in calls, NEW cost \in 0 .. Cost[c.job] + 1, CompleteJob(c, cost)
        PROVE  BudgetOK'
    <2>0. cost \in Nat
      <3>1. c.job \in Jobs BY Basics DEF CallType
      <3>2. Cost[c.job] \in Nat BY <3>1, Basics
      <3> QED BY <3>2
    <2>1. CASE UNCHANGED <<rows, resv, grants, preview>> BY <1>1, <2>1
    <2>2. CASE rows[c.job].status \in Owned /\ Finish(c, cost)
      BY <1>0, <2>0, <2>2, FinishKeepsBudget
    <2> QED BY <1>9, <2>1, <2>2 DEF CompleteJob
  <1>10. ASSUME NEW a, Raise(a) \/ SaveReceipt(a) PROVE BudgetOK'
    BY <1>1, <1>10 DEF Raise, SaveReceipt, store
  <1>11. ASSUME NEW w \in Workers, NEW i \in Jobs, SendReceipt(w, i) PROVE BudgetOK'
    BY <1>1, <1>11 DEF SendReceipt
  <1>12. ASSUME NEW w \in Workers, Crash(w) PROVE BudgetOK' BY <1>1, <1>12 DEF Crash, store
  <1>13. ASSUME ListPreviews \/ Tick \/ UNCHANGED vars PROVE BudgetOK'
    <2>1. rows' = rows /\ grants' = grants BY <1>13 DEF ListPreviews, Tick, vars, store
    <2> QED BY <1>1, <2>1
  <1> QED
    BY <1>2, <1>3, <1>4, <1>5, <1>6, <1>7, <1>8, <1>9, <1>10, <1>11, <1>12, <1>13
       DEF Next, Clients, Poll, Work, Answer, Busy

-----------------------------------------------------------------------------
(* No worker is given more than it has room for.                           *)

LEMMA LoadOf ==
    ASSUME TypeOK, NEW T \in SUBSET Jobs, NEW S \in SUBSET T, NEW j \in Jobs
    PROVE  /\ Load(S) \in Nat /\ Load(T) \in Nat /\ Load(S) <= Load(T)
           /\ Load(T \cup {j}) \in Nat /\ Load(T \cup {j}) <= Load(T) + Need[j]
  <1>0. Need \in [Jobs -> Nat] /\ IsFiniteSet(Jobs) BY Basics
  <1>1. IsFiniteSet(T) /\ IsFiniteSet(T \cup {j}) /\ T \cup {j} \subseteq Jobs BY <1>0, FS_Subset
  <1>2. Load(S) \in Nat /\ Load(T) \in Nat /\ Load(T \cup {j}) \in Nat
    <2>1. S \in SUBSET Jobs /\ T \cup {j} \in SUBSET Jobs OBVIOUS
    <2> QED BY <1>0, <2>1, SumNat DEF Load
  <1>3. Load(S) <= Load(T) BY <1>0, <1>1, SumSplits DEF Load
  <1>4. Load(T \cup {j}) <= Load(T) + Need[j]
    <2>0. Need[j] \in Nat BY <1>0
    <2>1. CASE j \in T
      <3>1. T \cup {j} = T BY <2>1
      <3>2. Load(T \cup {j}) = Load(T) BY <3>1
      <3> HIDE DEF Load
      <3> QED BY <1>2, <2>0, <3>2
    <2>2. CASE j \notin T
      <3>1. (T \cup {j}) \ {j} = T BY <2>2
      <3>2. j \in T \cup {j} OBVIOUS
      <3>3. SumFunctionOnSet(Need, T \cup {j}) = Need[j] + SumFunctionOnSet(Need, (T \cup {j}) \ {j})
        BY <1>0, <1>1, <3>2, SumTakeOut
      <3>4. Load(T \cup {j}) = Need[j] + Load(T) BY <3>1, <3>3 DEF Load
      <3> QED BY <1>2, <2>0, <3>4
    <2> QED BY <2>1, <2>2
  <1> QED BY <1>2, <1>3, <1>4

\* Only a claim books room.
LEMMA BookedByMove ==
    ASSUME TypeOK, NEW w \in Workers, NEW j \in Jobs, RowOK(j), RowMoves(j), ~ Given(j),
           clock' \in Nat, clock' >= clock, j \in Booked(w)'
    PROVE  j \in Booked(w)
  <1>0. /\ rows[j] \in Row /\ None \notin Workers /\ clock \in Nat /\ MaxClock \in Nat /\ Lease \in Nat
        /\ resv[j] \in [worker : Workers \cup {None}, fence : Fences, lease : 0 .. MaxClock + Lease]
    BY Basics
  <1>1. resv'[j].worker = w /\ (rows'[j].status = "running" \/ resv'[j].lease > clock')
    BY DEF Booked
  <1>2. resv'[j] # Idle BY <1>0, <1>1 DEF Idle
  <1>3. resv[j].lease \in Nat BY <1>0
  <1>4. resv[j] = Mirror(rows[j]) BY DEF RowOK
  <1>5. CASE SameRow(j) BY <1>0, <1>1, <1>3, <1>5 DEF SameRow, Booked
  <1>6. CASE Submitted(j) BY <1>2, <1>4, <1>6 DEF Submitted, Mirror, Owned
  <1>7. CASE Withdrawn(j) \/ Returned(j) \/ Finished(j)
    BY <1>2, <1>7 DEF Withdrawn, Returned, Finished
  <1>8. CASE Cancelled(j)
    <2>1. rows'[j].status = "cancelling" /\ resv'[j] = resv[j] BY <1>0, <1>8 DEF Cancelled, Row
    <2> QED BY <1>0, <1>1, <1>3, <2>1 DEF Booked
  <1>9. CASE Expired(j) BY <1>2, <1>4, <1>9 DEF Expired, Overdue, Mirror, Owned
  <1>10. CASE Renewed(j)
    <2>1. rows[j].status = "running" /\ resv'[j].worker = resv[j].worker BY <1>0, <1>10 DEF Renewed
    <2> QED BY <1>1, <2>1 DEF Booked
  <1>11. CASE Saved(j)
    <2>1. rows[j].status = "running" /\ resv'[j] = resv[j] BY <1>11 DEF Saved
    <2> QED BY <1>1, <2>1 DEF Booked
  <1> QED BY <1>5, <1>6, <1>7, <1>8, <1>9, <1>10, <1>11 DEF RowMoves

LEMMA ClaimKeepsRoom ==
    ASSUME TypeOK, RoomOK, \A j \in Jobs : RowOK(j), NEW w \in Workers, Claim(w)
    PROVE  RoomOK'
  <1>0. PICK j \in Candidates(w), delivered \in BOOLEAN : \E g \in Offers(w, j) : Give(w, j, g)
    BY DEF Claim
  <1>1. PICK g \in Offers(w, j) : Give(w, j, g) BY <1>0
  <1>2. /\ j \in Jobs /\ Load(LiveOn(w, ReapedResv)) + Need[j] <= Capacity[w]
    BY DEF Candidates
  <1>3. clock' = clock BY DEF Claim
  <1>4. resv'[j].worker = w BY <1>1, <1>2 DEF Give, ReapedResv
  <1>5. \A k \in Jobs : k # j => rows'[k] = ReapedRows[k] /\ resv'[k] = ReapedResv[k]
    BY <1>1 DEF Give, ReapedRows, ReapedResv
  <1>6. ASSUME NEW v \in Workers, NEW k \in Booked(v)', k # j PROVE k \in LiveOn(v, ReapedResv)
    <2>1. /\ k \in Jobs /\ ReapedResv[k].worker = v
          /\ ReapedRows[k].status = "running" \/ ReapedResv[k].lease > clock
      BY <1>3, <1>5, <1>6 DEF Booked
    <2>2. CASE ReapedRows[k].status = "running"
      <3>1. k \notin Lapsed /\ rows[k].status = "running" BY <2>1, <2>2, ReapMovesRow
      <3>2. ReapedResv[k] = resv[k] BY <2>1, <3>1 DEF ReapedResv
      <3>3. resv[k].lease = rows[k].lease
        <4>1. resv[k] = Mirror(rows[k]) BY <2>1 DEF RowOK
        <4> QED BY <3>1, <4>1 DEF Mirror, Owned
      <3>4. rows[k].lease > clock
        <4>1. rows[k].lease \in Nat /\ clock \in Nat BY <2>1, RowFields, Basics
        <4> QED BY <2>1, <3>1, <4>1 DEF Lapsed
      <3> QED BY <2>1, <3>2, <3>3, <3>4 DEF LiveOn
    <2>3. CASE ReapedResv[k].lease > clock BY <2>1, <2>3 DEF LiveOn
    <2> QED BY <2>1, <2>2, <2>3
  <1>7. ASSUME NEW v \in Workers PROVE LiveOn(v, ReapedResv) \subseteq Booked(v)
    <2> SUFFICES ASSUME NEW k \in LiveOn(v, ReapedResv) PROVE k \in Booked(v) OBVIOUS
    <2>1. k \in Jobs /\ ReapedResv[k].worker = v /\ ReapedResv[k].lease > clock BY DEF LiveOn
    <2>2. ReapedResv[k] # Idle
      <3>1. None \notin Workers BY Basics
      <3> QED BY <2>1, <3>1 DEF Idle
    <2>3. ReapedResv[k] = resv[k] BY <2>1, <2>2 DEF ReapedResv
    <2> QED BY <2>1, <2>3 DEF Booked
  <1> SUFFICES ASSUME NEW v \in Workers PROVE Load(Booked(v)') <= Capacity[v]
    BY DEF RoomOK, Load
  <1>8. /\ LiveOn(v, ReapedResv) \in SUBSET Jobs /\ Booked(v) \in SUBSET Jobs
        /\ Booked(v)' \in SUBSET Jobs /\ LiveOn(w, ReapedResv) \in SUBSET Jobs
    BY DEF LiveOn, Booked
  <1>9. PICK B : B = Booked(v)' OBVIOUS
  <1>10. CASE v # w
    <2>1. j \notin B BY <1>4, <1>9, <1>10 DEF Booked
    <2>2. B \in SUBSET Booked(v) BY <1>6, <1>7, <1>9, <2>1
    <2>3. Load(B) <= Load(Booked(v)) /\ Load(B) \in Nat /\ Load(Booked(v)) \in Nat
      BY <1>2, <1>8, <2>2, LoadOf
    <2>4. Load(Booked(v)) <= Capacity[v] /\ Capacity[v] \in Nat BY Basics DEF RoomOK
    <2> QED BY <1>9, <2>3, <2>4
  <1>11. CASE v = w
    <2>1. B \in SUBSET (LiveOn(w, ReapedResv) \cup {j}) BY <1>6, <1>9, <1>11
    <2>2. LiveOn(w, ReapedResv) \cup {j} \in SUBSET Jobs BY <1>2, <1>8
    <2>3. Load(B) <= Load(LiveOn(w, ReapedResv) \cup {j}) /\ Load(B) \in Nat
          /\ Load(LiveOn(w, ReapedResv) \cup {j}) \in Nat
      BY <1>2, <2>1, <2>2, LoadOf
    <2>4. Load(LiveOn(w, ReapedResv) \cup {j}) <= Load(LiveOn(w, ReapedResv)) + Need[j]
          /\ Load(LiveOn(w, ReapedResv)) \in Nat
      <3>1. {} \in SUBSET LiveOn(w, ReapedResv) OBVIOUS
      <3> QED BY <1>2, <1>8, <3>1, LoadOf
    <2>5. Need[j] \in Nat /\ Capacity[w] \in Nat BY <1>2, Basics
    <2> QED BY <1>2, <1>9, <1>11, <2>3, <2>4, <2>5
  <1> QED BY <1>10, <1>11

LEMMA RoomStep ==
    ASSUME TypeOK, RoomOK, \A j \in Jobs : RowOK(j), [Next]_vars
    PROVE  RoomOK'
  <1>1. CASE \E w \in Workers : Claim(w) BY <1>1, ClaimKeepsRoom
  <1>2. CASE ~ \E w \in Workers : Claim(w)
    <2> SUFFICES ASSUME NEW v \in Workers PROVE Load(Booked(v)') <= Capacity[v]
      BY DEF RoomOK, Load
    <2>1. ASSUME NEW j \in Booked(v)' PROVE j \in Booked(v)
      <3>1. j \in Jobs BY <2>1 DEF Booked
      <3>2. RowMoves(j) /\ ~ Given(j) BY <1>2, <3>1, StepMovesRow DEF Given
      <3> QED BY <2>1, <3>1, <3>2, ClockSteps, BookedByMove
    <2>2. PICK B : B = Booked(v)' OBVIOUS
    <2>3. B \in SUBSET Booked(v) /\ Booked(v) \in SUBSET Jobs BY <2>1, <2>2 DEF Booked
    <2>4. Load(Booked(v)) <= Capacity[v] /\ Capacity[v] \in Nat BY Basics DEF RoomOK
    <2>5. CASE Jobs = {}
      <3>1. B = Booked(v) BY <2>3, <2>5
      <3> QED BY <2>2, <2>4, <3>1
    <2>6. CASE Jobs # {}
      <3>1. PICK j \in Jobs : TRUE BY <2>6
      <3>2. Load(B) <= Load(Booked(v)) /\ Load(B) \in Nat /\ Load(Booked(v)) \in Nat
        BY <2>3, <3>1, LoadOf
      <3> QED BY <2>2, <2>4, <3>2
    <2> QED BY <2>5, <2>6
  <1> QED BY <1>1, <1>2

-----------------------------------------------------------------------------
(* The theorems.                                                           *)

LEMMA InitOK == Init => IInv
  <1> SUFFICES ASSUME Init PROVE IInv OBVIOUS
  <1>0. /\ IsFiniteSet(Jobs) /\ None \notin Workers /\ MaxClock \in Nat /\ MaxFaults \in Nat
        /\ Lease \in Nat /\ Budget \in [Grants -> Nat] /\ Capacity \in [Workers -> Nat]
        /\ Previews \subseteq Jobs
    BY ClusterAssumption
  <1>1. TypeOK
    <2>1. \A j \in Jobs : rows[j] \in Row
      <3>1. "absent" \in Statuses BY DEF Statuses
      <3> QED BY <3>1, Zeros DEF Init, Row, Statuses, Leases
    <2>2. rows \in [Jobs -> Row] BY <2>1 DEF Init
    <2>3. resv \in [Jobs -> [worker : Workers \cup {None}, fence : Fences, lease : 0 .. MaxClock + Lease]]
      BY Zeros DEF Init, Idle, Leases
    <2>4. grants \in [Grants -> [open : BOOLEAN, reserved : Nat, spent : Nat]] BY DEF Init
    <2>5. receipts \in [Workers -> [Jobs -> [fence : Fences, ok : BOOLEAN, by : Fences]]]
      BY Zeros DEF Init, NoReceipt
    <2>6. clock \in 0 .. MaxClock /\ faults \in 0 .. MaxFaults BY <1>0 DEF Init
    <2>7. /\ preview \in [Jobs -> {"none", "queued", "active", "expired", "failed", "disabled"}]
          /\ verdict \in [Jobs -> {"staged", "validated", "rejected"}]
          /\ policy \subseteq Workers /\ attempts = {} /\ calls = {}
      BY DEF Init
    <2> QED BY <2>2, <2>3, <2>4, <2>5, <2>6, <2>7 DEF TypeOK
  <1>2. ASSUME NEW j \in Jobs PROVE RowOK(j)
    BY DEF Init, RowOK, Mirror, Owned
  <1>3. WordsOK BY DEF Init, WordsOK, ReceiptOK
  <1>4. BudgetOK
    <2> SUFFICES ASSUME NEW g \in Grants
                 PROVE  /\ grants[g].reserved = HeldOf(g, Jobs)
                        /\ grants[g].reserved + grants[g].spent <= Budget[g]
      BY DEF BudgetOK
    <2>1. \A j \in Jobs : Shares(rows, g)[j] = 0 BY DEF Init, Shares
    <2>2. Held(rows, g) = 0 BY <1>0, <2>1, SumOfZeros DEF Held
    <2>3. HeldOf(g, Jobs) = 0 BY <2>2, HeldOfAll
    <2>4. grants[g].reserved = 0 /\ grants[g].spent = 0 BY DEF Init
    <2> QED BY <1>0, <2>3, <2>4
  <1>5. RoomOK
    <2> SUFFICES ASSUME NEW w \in Workers PROVE Load(Booked(w)) <= Capacity[w] BY DEF RoomOK
    <2>1. Booked(w) = {} BY <1>0 DEF Init, Booked, Idle
    <2>2. Load(Booked(w)) = 0 BY <2>1, FS_EmptySet, SumUnfolds DEF Load
    <2> QED BY <1>0, <2>2
  <1>6. PreviewFollowsJob BY <1>0 DEF Init, PreviewFollowsJob
  <1> QED BY <1>1, <1>2, <1>3, <1>4, <1>5, <1>6 DEF IInv

LEMMA StepOK ==
    ASSUME IInv, [Next]_vars
    PROVE  IInv'
  <1>1. TypeOK' BY TypeStep DEF IInv
  <1>2. ASSUME NEW j \in Jobs PROVE RowOK(j)'
    <2>1. RowMoves(j) BY StepMovesRow DEF IInv
    <2> QED BY <2>1, ClockSteps, MovedRowOK DEF IInv
  <1>3. WordsOK' BY WordsStep DEF IInv
  <1>4. BudgetOK' BY BudgetStep DEF IInv
  <1>5. RoomOK' BY RoomStep DEF IInv
  <1>6. PreviewFollowsJob' BY PreviewStep DEF IInv
  <1> QED BY <1>1, <1>2, <1>3, <1>4, <1>5, <1>6 DEF IInv

\* The inductive invariant holds of every behaviour of the queue.
THEOREM Invariance == Spec => []IInv
  <1>1. IInv /\ [Next]_vars => IInv' BY StepOK
  <1> QED BY InitOK, <1>1, PTL DEF Spec

\* The tables, the workers' files and the calls in flight keep their types; in particular a
\* fence never outruns the clock.
THEOREM TypeCorrect == Spec => []TypeOK
  <1>1. IInv => TypeOK BY DEF IInv
  <1> QED BY <1>1, Invariance, PTL

\* The reservation table and the job table never disagree on who holds a job, under which
\* fence and until when.
THEOREM ReservationsMirrorRows == Spec => []ReservationMirrorsRow
  <1>1. IInv => ReservationMirrorsRow
    <2> SUFFICES ASSUME IInv, NEW j \in Jobs
                 PROVE  /\ resv[j] # Idle <=> rows[j].status \in Owned
                        /\ resv[j] # Idle =>
                             /\ resv[j].worker = rows[j].worker
                             /\ resv[j].fence = rows[j].fence
                             /\ resv[j].lease = rows[j].lease
      BY DEF ReservationMirrorsRow
    <2>1. resv[j] = Mirror(rows[j]) /\ (rows[j].status \in Owned => rows[j].worker \in Workers)
      BY DEF IInv, RowOK
    <2>2. None \notin Workers BY ClusterAssumption
    <2> QED BY <2>1, <2>2 DEF Mirror, Idle
  <1> QED BY <1>1, Invariance, PTL

\* Budgets and capacities are never lent twice: what a grant has reserved is the sum of what
\* the jobs hold of it, spending stays within the budget, and live leases fit the worker.
THEOREM NothingIsLentTwice == Spec => []NothingLentTwice
  <1>1. IInv => NothingLentTwice
    <2> SUFFICES ASSUME IInv PROVE NothingLentTwice OBVIOUS
    <2>1. ASSUME NEW w \in Workers PROVE Load(LiveOn(w, resv)) <= Capacity[w]
      <3>1. TypeOK /\ Load(Booked(w)) <= Capacity[w] BY DEF IInv, RoomOK
      <3>2. LiveOn(w, resv) \in SUBSET Booked(w) /\ Booked(w) \in SUBSET Jobs
        BY DEF LiveOn, Booked
      <3>3. CASE Jobs = {}
        <4>1. LiveOn(w, resv) = Booked(w) BY <3>2, <3>3
        <4> QED BY <3>1, <4>1
      <3>4. CASE Jobs # {}
        <4>1. PICK j \in Jobs : TRUE BY <3>4
        <4>2. /\ Load(LiveOn(w, resv)) <= Load(Booked(w))
              /\ Load(LiveOn(w, resv)) \in Nat /\ Load(Booked(w)) \in Nat
          BY <3>1, <3>2, <4>1, LoadOf
        <4>3. Capacity[w] \in Nat BY <3>1, Basics
        <4> QED BY <3>1, <4>2, <4>3
      <3> QED BY <3>3, <3>4
    <2> QED BY <2>1 DEF NothingLentTwice, IInv, BudgetOK
  <1> QED BY <1>1, Invariance, PTL

\* A success reports the result that was committed as its checkpoint, whichever worker,
\* attempt, receipt or repeated call brought it.
THEOREM CheckpointsAreReused == Spec => []CommittedResultReused
  <1>1. Init => CommittedResultReused BY DEF Init, CommittedResultReused
  <1>2. IInv /\ CommittedResultReused /\ [Next]_vars => CommittedResultReused'
    <2> SUFFICES ASSUME IInv, CommittedResultReused, [Next]_vars, NEW j \in Jobs \ Previews,
                        rows'[j].status = "succeeded", rows'[j].saved # 0
                 PROVE  rows'[j].result = rows'[j].saved
      BY DEF CommittedResultReused
    <2>0. /\ j \in Jobs /\ rows[j] \in Row /\ TypeOK /\ WordsOK
      BY Basics DEF IInv
    <2>1. RowMoves(j) BY StepMovesRow DEF IInv
    <2>2. CASE SameRow(j) BY <2>2 DEF SameRow, CommittedResultReused
    <2>3. CASE Finished(j)
      <3>1. PICK c \in calls, cost \in Nat :
              /\ c.job = j /\ c.fence = rows[j].fence
              /\ rows'[j] = [rows[j] EXCEPT !.status = StatusOf(c, cost), !.lease = 0, !.reserved = 0,
                               !.result = IF StatusOf(c, cost) = "succeeded" THEN c.by ELSE 0]
        BY <2>3 DEF Finished
      <3>2. /\ StatusOf(c, cost) = "succeeded" /\ rows'[j].result = c.by
            /\ rows'[j].saved = rows[j].saved
        BY <2>0, <3>1 DEF Row
      <3>3. c.ok BY <3>2 DEF StatusOf
      <3>4. Vouched(c.job, c.fence, c.ok, c.by) BY <2>0 DEF WordsOK
      <3> QED BY <3>1, <3>2, <3>3, <3>4 DEF Vouched
    <2>4. CASE Submitted(j) \/ Withdrawn(j) \/ Cancelled(j) \/ Expired(j)
      BY <2>0, <2>4 DEF Submitted, Withdrawn, Cancelled, Expired, Row
    <2>5. CASE Returned(j) \/ Renewed(j) \/ Saved(j)
      BY <2>0, <2>5 DEF Returned, Renewed, Saved, Row
    <2>6. CASE Given(j)
      <3>1. rows'[j].status = "running" BY <2>0, <2>6 DEF Given, Row
      <3> QED BY <3>1
    <2> QED BY <2>1, <2>2, <2>3, <2>4, <2>5, <2>6 DEF RowMoves
  <1> QED BY <1>1, <1>2, Invariance, PTL DEF Spec

\* A preview is served only for a job that succeeded, and one whose job ended otherwise
\* does not wait.
THEOREM PreviewsFollowJobs == Spec => []PreviewFollowsJob
  <1>1. IInv => PreviewFollowsJob BY DEF IInv
  <1> QED BY <1>1, Invariance, PTL

-----------------------------------------------------------------------------
(* The queue is a FencedQueue.                                             *)

Seen(row) == [state |-> StateOf(row.status), turn |-> row.fence, result |-> row.result]

OfAttempts(A) == {<<a.job, a.fence>> : a \in A}
OfCalls(C) == {<<c.job, c.fence>> : c \in C}
OfReceipts(R) == {<<x[2], R[x[1]][x[2]].fence>> :
                      x \in {y \in Workers \X Jobs : R[y[1]][y[2]] # NoReceipt}}
Out(A, C, R) == OfAttempts(A) \cup OfCalls(C) \cup OfReceipts(R)

\* A row that moves as it may is a job that moves as it may.
LEMMA MoveOfRow ==
    ASSUME TypeOK, WordsOK, NEW j \in Jobs, RowOK(j), RowMoves(j)
    PROVE  Queue!Move(j) \/ Seen(rows'[j]) = Seen(rows[j])
  <1> DEFINE job == [k \in Jobs |-> [state |-> StateOf(rows[k].status), turn |-> rows[k].fence,
                                     result |-> rows[k].result]]
             out == {<<a.job, a.fence>> : a \in attempts} \cup {<<c.job, c.fence>> : c \in calls}
                    \cup {<<x[2], receipts[x[1]][x[2]].fence>> :
                            x \in {y \in Workers \X Jobs : receipts[y[1]][y[2]] # NoReceipt}}
  <1>0. rows[j] \in Row /\ rows[j].fence \in Nat BY Basics, RowFields
  <1>a. job[j] = Seen(rows[j]) BY DEF Seen
  <1>b. job'[j] = Seen(rows'[j]) BY DEF Seen, StateOf, Owned
  <1> HIDE DEF job, out
  <1>1. CASE SameRow(j) BY <1>1 DEF SameRow
  <1>2. CASE Submitted(j)
    <2>1. job[j].state = "absent" /\ job'[j] = [job[j] EXCEPT !.state = "waiting"]
      BY <1>0, <1>a, <1>b, <1>2 DEF Submitted, Seen, StateOf, Owned, Row
    <2> QED BY <2>1 DEF Queue!Move, Queue!Offer, Queue!Goes, job
  <1>3. CASE Withdrawn(j) \/ Expired(j)
    <2>1. PICK s \in {"failed", "cancelled"} :
            job[j].state = "waiting" /\ job'[j] = [job[j] EXCEPT !.state = s]
      <3>1. CASE Withdrawn(j)
        <4>1. job[j].state = "waiting" /\ job'[j] = [job[j] EXCEPT !.state = "cancelled"]
          BY <1>0, <1>a, <1>b, <3>1 DEF Withdrawn, Seen, StateOf, Owned, Row
        <4> QED BY <4>1
      <3>2. CASE Expired(j)
        <4>1. job[j].state = "waiting" /\ job'[j] = [job[j] EXCEPT !.state = "failed"]
          BY <1>0, <1>a, <1>b, <3>2 DEF Expired, Overdue, Seen, StateOf, Owned, Row
        <4> QED BY <4>1
      <3> QED BY <1>3, <3>1, <3>2
    <2> QED BY <2>1 DEF Queue!Move, Queue!Abandon, Queue!Abandoned, Queue!Goes, job
  <1>4. CASE Cancelled(j) BY <1>0, <1>4 DEF Cancelled, Seen, StateOf, Owned, Row
  <1>5. CASE Returned(j)
    <2>1. job[j].state = "held" /\ job'[j] = [job[j] EXCEPT !.state = "waiting"]
      BY <1>0, <1>a, <1>b, <1>5 DEF Returned, Lapsed, Seen, StateOf, Owned, Row
    <2> QED BY <2>1 DEF Queue!Move, Queue!Return, Queue!Goes, job
  <1>6. CASE Given(j)
    <2>1. job[j].state \in {"waiting", "held"}
      BY <1>0, <1>a, <1>6 DEF Given, Lapsed, Seen, StateOf, Owned
    <2>2. job'[j] = [state |-> "held", turn |-> job[j].turn + 1, result |-> job[j].result]
      <3>1. /\ rows'[j].status = "running" /\ rows'[j].fence = rows[j].fence + 1
            /\ rows'[j].result = rows[j].result
        BY <1>0, <1>6 DEF Given, Row
      <3> QED BY <1>a, <1>b, <3>1 DEF Seen, StateOf, Owned
    <2> QED BY <2>1, <2>2 DEF Queue!Move, Queue!Take, job
  <1>7. CASE Renewed(j) \/ Saved(j)
    <2>1. /\ rows'[j].status = rows[j].status /\ rows'[j].fence = rows[j].fence
          /\ rows'[j].result = rows[j].result
      BY <1>0, <1>7 DEF Renewed, Saved, Row
    <2> QED BY <2>1 DEF Seen
  <1>8. CASE Finished(j)
    <2>1. PICK c \in calls, cost \in Nat :
            /\ c.job = j /\ c.fence = rows[j].fence /\ rows[j].status \in Owned
            /\ rows'[j] = [rows[j] EXCEPT !.status = StatusOf(c, cost), !.lease = 0, !.reserved = 0,
                             !.result = IF StatusOf(c, cost) = "succeeded" THEN c.by ELSE 0]
      BY <1>8 DEF Finished
    <2> DEFINE s == StatusOf(c, cost)
    <2>2. s \in Ended /\ (s = "succeeded" => c.ok) BY DEF StatusOf, Ended
    <2>3. /\ rows'[j].status = s /\ rows'[j].fence = rows[j].fence
          /\ rows'[j].result = IF s = "succeeded" THEN c.by ELSE 0
      BY <1>0, <2>1 DEF Row
    <2>4. rows[j].result = 0 BY <2>1 DEF RowOK, Owned
    <2> HIDE DEF s
    <2>5. job[j] = [state |-> "held", turn |-> rows[j].fence, result |-> 0]
      BY <1>a, <2>1, <2>4 DEF Seen, StateOf, Owned
    <2>6. job'[j] = [state |-> s, turn |-> rows[j].fence,
                     result |-> IF s = "succeeded" THEN c.by ELSE 0]
      BY <1>b, <2>2, <2>3 DEF Seen, StateOf, Owned, Ended
    <2>7. CASE s = "succeeded"
      <3>1. <<j, job[j].turn>> \in out BY <2>1, <2>5 DEF out
      <3>2. c.by \in 1 .. job[j].turn
        <4>1. Vouched(c.job, c.fence, c.ok, c.by) BY DEF WordsOK
        <4> QED BY <2>1, <2>2, <2>5, <2>7, <4>1 DEF Vouched
      <3>3. job'[j] = [state |-> "succeeded", turn |-> job[j].turn, result |-> c.by]
        BY <2>5, <2>6, <2>7
      <3>4. job[j].state = "held" BY <2>5
      <3> QED BY <3>1, <3>2, <3>3, <3>4 DEF Queue!Move, Queue!Succeed, job, out
    <2>8. CASE s \in {"failed", "cancelled"}
      <3>1. job[j].state = "held" /\ job'[j] = [job[j] EXCEPT !.state = s] BY <2>5, <2>6, <2>8
      <3> QED BY <2>8, <3>1 DEF Queue!Move, Queue!Abandon, Queue!Abandoned, Queue!Goes, job
    <2> QED BY <2>2, <2>7, <2>8 DEF Ended
  <1> QED BY <1>1, <1>2, <1>3, <1>4, <1>5, <1>6, <1>7, <1>8 DEF RowMoves

-----------------------------------------------------------------------------
\* An attempt that goes on keeps its turn.
LEMMA TurnOfAttempt ==
    ASSUME NEW a \in attempts, NEW b, Becomes(a, b), b.job = a.job, b.fence = a.fence
    PROVE  OfAttempts(attempts') \subseteq OfAttempts(attempts)
  BY DEF Becomes, OfAttempts

\* A receipt that is written, or removed, puts out the turn it names only.
LEMMA TurnOfReceipt ==
    ASSUME TypeOK, NEW w \in Workers, NEW j \in Jobs, NEW r, receipts' = [receipts EXCEPT ![w][j] = r]
    PROVE  OfReceipts(receipts') \subseteq
              OfReceipts(receipts) \cup (IF r = NoReceipt THEN {} ELSE {<<j, r.fence>>})
  <1>0. receipts \in [Workers -> [Jobs -> [fence : Fences, ok : BOOLEAN, by : Fences]]] BY Basics
  <1> SUFFICES ASSUME NEW v \in Workers, NEW k \in Jobs, receipts'[v][k] # NoReceipt
               PROVE  <<k, receipts'[v][k].fence>> \in
                        OfReceipts(receipts) \cup (IF r = NoReceipt THEN {} ELSE {<<j, r.fence>>})
    BY DEF OfReceipts
  <1>1. CASE v = w /\ k = j
    <2>1. receipts'[v][k] = r BY <1>0, <1>1
    <2> QED BY <1>1, <2>1
  <1>2. CASE ~(v = w /\ k = j)
    <2>1. receipts'[v][k] = receipts[v][k] BY <1>0, <1>2
    <2>2. <<v, k>> \in {y \in Workers \X Jobs : receipts[y[1]][y[2]] # NoReceipt} BY <2>1
    <2>3. <<k, receipts[v][k].fence>> \in OfReceipts(receipts) BY <2>2 DEF OfReceipts
    <2> QED BY <2>1, <2>3
  <1> QED BY <1>1, <1>2

\* Only a claim puts a turn out, and it is the one it gives.
LEMMA StepTurns ==
    ASSUME IInv, [Next]_vars, NEW o, o \in Out(attempts', calls', receipts'),
           o \notin Out(attempts, calls, receipts)
    PROVE  \E j \in Jobs : Given(j) /\ o = <<j, rows'[j].fence>>
  <1> DEFINE Less == /\ OfAttempts(attempts') \subseteq OfAttempts(attempts)
                     /\ OfCalls(calls') \subseteq OfCalls(calls)
                     /\ OfReceipts(receipts') \subseteq OfReceipts(receipts)
             Goal == \E j \in Jobs : Given(j) /\ o = <<j, rows'[j].fence>>
  <1>0. /\ TypeOK /\ attempts \subseteq AttemptType /\ calls \subseteq CallType
        /\ receipts \in [Workers -> [Jobs -> Receipt]]
    BY Basics DEF IInv, Receipt
  <1>1. Less => Goal BY DEF Out
  <1>2. ASSUME UNCHANGED <<attempts, calls, receipts>> PROVE Goal BY <1>2
  <1>3. ASSUME NEW w \in Workers, Claim(w) PROVE Goal
    <2>0. PICK j \in Candidates(w), delivered \in BOOLEAN : \E g \in Offers(w, j) :
             /\ Give(w, j, g)
             /\ attempts' = IF delivered THEN attempts \cup {Attempt(j, w, rows[j].fence + 1)}
                            ELSE attempts
      BY <1>3 DEF Claim
    <2>1. PICK g \in Offers(w, j) : Give(w, j, g) BY <2>0
    <2>2. j \in Jobs BY DEF Candidates
    <2>3. o = <<j, rows[j].fence + 1>>
      <3>1. calls' = calls /\ receipts' = receipts BY <1>3 DEF Claim
      <3>2. o \in OfAttempts(attempts') /\ o \notin OfAttempts(attempts) BY <3>1 DEF Out
      <3>3. PICK a \in attempts' : o = <<a.job, a.fence>> BY <3>2 DEF OfAttempts
      <3>4. a \notin attempts BY <3>2, <3>3 DEF OfAttempts
      <3>5. a = Attempt(j, w, rows[j].fence + 1) BY <2>0, <3>4
      <3> QED BY <3>3, <3>5 DEF Attempt
    <2>4. rows'[j].fence = rows[j].fence + 1 /\ Given(j)
      <3>1. RowMoves(j) BY <2>2, StepMovesRow DEF IInv
      <3>2. resv'[j] = [worker |-> w, fence |-> rows[j].fence + 1, lease |-> LeaseFrom(j)]
        BY <2>1, <2>2 DEF Give, ReapedResv
      <3>3. rows'[j] \in Row /\ rows'[j] = [ReapedRows[j] EXCEPT !.status = "running", !.worker = w,
                          !.fence = rows[j].fence + 1, !.lease = LeaseFrom(j), !.grant = g,
                          !.reserved = IF g = None THEN 0 ELSE Cost[j]]
        BY <2>1, <2>2, RowsTypeStep DEF Give, ReapedRows, IInv
      <3>4. ReapedRows[j] \in Row BY <1>0, <2>2, ReapMovesRow
      <3>5. rows'[j].fence = rows[j].fence + 1 BY <3>3, <3>4 DEF Row
      <3>6. rows[j] \in Row /\ rows[j].fence \in Nat BY <1>0, <2>2, Basics, RowFields
      <3>7. rows'[j].fence # rows[j].fence BY <3>5, <3>6
      <3>8. ~ (SameRow(j) \/ Submitted(j) \/ Withdrawn(j))
        BY <3>6, <3>7 DEF SameRow, Submitted, Withdrawn, Row
      <3>9. ~ (Cancelled(j) \/ Expired(j) \/ Returned(j))
        BY <3>6, <3>7 DEF Cancelled, Expired, Returned, Row
      <3>10. ~ Renewed(j) BY <3>6, <3>7 DEF Renewed, Row
      <3>11. ~ Saved(j)
        <4> SUFFICES ASSUME NEW v, rows'[j] = [rows[j] EXCEPT !.saved = v] PROVE FALSE
          BY DEF Saved
        <4> QED BY <3>6, <3>7 DEF Row
      <3>12. ~ Finished(j)
        <4> SUFFICES ASSUME NEW s, NEW r,
                            rows'[j] = [rows[j] EXCEPT !.status = s, !.lease = 0, !.reserved = 0, !.result = r]
                     PROVE  FALSE
          BY DEF Finished
        <4> QED BY <3>6, <3>7 DEF Row
      <3> QED BY <3>1, <3>5, <3>8, <3>9, <3>10, <3>11, <3>12 DEF RowMoves
    <2> QED BY <2>2, <2>3, <2>4
  <1>4. ASSUME NEW a \in attempts, Renew(a) PROVE Goal
    <2>1. PICK answered \in BOOLEAN, learnt \in BOOLEAN :
             Becomes(a, [a EXCEPT !.renewing = answered, !.cancelSeen = learnt])
      BY <1>4 DEF Renew
    <2>2. PICK b : b = [a EXCEPT !.renewing = answered, !.cancelSeen = learnt] OBVIOUS
    <2>3. b.job = a.job /\ b.fence = a.fence BY <1>0, <2>2 DEF AttemptType
    <2>4. OfAttempts(attempts') \subseteq OfAttempts(attempts) BY <2>1, <2>2, <2>3, TurnOfAttempt
    <2>5. calls' = calls /\ receipts' = receipts BY <1>4 DEF Renew
    <2> QED BY <1>1, <2>4, <2>5
  <1>5. ASSUME NEW a \in attempts, Execute(a) \/ Raise(a) PROVE Goal
    <2>1. PICK b : /\ b \in {[a EXCEPT !.at = "report", !.ok = TRUE, !.by = ByOf(a)],
                             [a EXCEPT !.at = "report"]}
                   /\ Becomes(a, b)
      BY <1>5 DEF Execute, Raise, ByOf
    <2>2. b.job = a.job /\ b.fence = a.fence BY <1>0, <2>1 DEF AttemptType
    <2>3. OfAttempts(attempts') \subseteq OfAttempts(attempts) BY <2>1, <2>2, TurnOfAttempt
    <2>4. calls' = calls /\ receipts' = receipts BY <1>5 DEF Execute, Raise
    <2> QED BY <1>1, <2>3, <2>4
  <1>6. ASSUME NEW a \in attempts, SaveReceipt(a) PROVE Goal
    <2>1. PICK r : r = [fence |-> a.fence, ok |-> a.ok /\ ~a.cancelSeen,
                        by |-> IF a.cancelSeen THEN 0 ELSE a.by]
      OBVIOUS
    <2>2. /\ a.worker \in Workers /\ a.job \in Jobs /\ r.fence = a.fence
          /\ receipts' = [receipts EXCEPT ![a.worker][a.job] = r]
          /\ attempts' \subseteq attempts /\ calls' = calls
      BY <1>0, <1>6, <2>1 DEF SaveReceipt, AttemptType
    <2>3. OfAttempts(attempts') \subseteq OfAttempts(attempts) /\ <<a.job, a.fence>> \in OfAttempts(attempts)
      BY <2>2 DEF OfAttempts
    <2>4. OfReceipts(receipts') \subseteq OfReceipts(receipts) \cup {<<a.job, a.fence>>}
      BY <1>0, <2>2, TurnOfReceipt
    <2> QED BY <2>2, <2>3, <2>4 DEF Out
  <1>7. ASSUME NEW w \in Workers, NEW j \in Jobs, SendReceipt(w, j) PROVE Goal
    <2>1. PICK c : c.job = j /\ c.fence = receipts[w][j].fence /\ calls' = calls \cup {c}
      BY <1>7 DEF SendReceipt
    <2>2. receipts[w][j] # NoReceipt BY <1>7 DEF SendReceipt, NoReceipt
    <2>3. <<w, j>> \in {y \in Workers \X Jobs : receipts[y[1]][y[2]] # NoReceipt} BY <2>2
    <2>4. <<j, receipts[w][j].fence>> \in OfReceipts(receipts) BY <2>3 DEF OfReceipts
    <2>5. OfCalls(calls') \subseteq OfCalls(calls) \cup {<<j, receipts[w][j].fence>>}
      BY <2>1 DEF OfCalls
    <2>6. attempts' = attempts /\ receipts' = receipts BY <1>7 DEF SendReceipt, worker
    <2> QED BY <2>4, <2>5, <2>6 DEF Out
  <1>8. ASSUME NEW c \in calls, NEW cost, CompleteJob(c, cost) PROVE Goal
    <2>1. attempts' = attempts /\ calls' \subseteq calls BY <1>8 DEF CompleteJob
    <2>2. receipts' = receipts \/ receipts' = [receipts EXCEPT ![c.worker][c.job] = NoReceipt]
      BY <1>8 DEF CompleteJob
    <2>3. c.worker \in Workers /\ c.job \in Jobs BY <1>0 DEF CallType
    <2>4. OfReceipts(receipts') \subseteq OfReceipts(receipts) BY <1>0, <2>2, <2>3, TurnOfReceipt
    <2>5. OfCalls(calls') \subseteq OfCalls(calls) BY <2>1 DEF OfCalls
    <2> QED BY <1>1, <2>1, <2>4, <2>5
  <1>9. ASSUME NEW w \in Workers, Crash(w) PROVE Goal
    <2>1. attempts' \subseteq attempts /\ calls' = calls /\ receipts' = receipts BY <1>9 DEF Crash
    <2> QED BY <1>1, <2>1 DEF OfAttempts
  <1>10. ASSUME NEW j \in Jobs, Submit(j) \/ CancelJob(j) PROVE Goal
    BY <1>2, <1>10 DEF Submit, CancelJob, worker
  <1>11. ASSUME ListPreviews \/ Tick \/ UNCHANGED vars PROVE Goal
    BY <1>2, <1>11 DEF ListPreviews, Tick, vars, worker
  <1>12. ASSUME NEW w \in Workers, SetWorkerAvailability(w) \/ PollInVain(w) PROVE Goal
    BY <1>2, <1>12 DEF SetWorkerAvailability, PollInVain, worker
  <1>13. ASSUME NEW g \in Grants, SetGrantStatus(g) PROVE Goal
    BY <1>2, <1>13 DEF SetGrantStatus, worker
  <1> HIDE DEF Goal
  <1>14. Goal
    BY <1>3, <1>4, <1>5, <1>6, <1>7, <1>8, <1>9, <1>10, <1>11, <1>12, <1>13
       DEF Next, Clients, Poll, Work, Answer, Busy
  <1> QED BY <1>14 DEF Goal

\* One step of the queue is a step of FencedQueue, or none.
LEMMA StepRefines ==
    ASSUME IInv, [Next]_vars
    PROVE  [Queue!Next]_(Queue!vars)
  <1> DEFINE job == [k \in Jobs |-> [state |-> StateOf(rows[k].status), turn |-> rows[k].fence,
                                     result |-> rows[k].result]]
             out == {<<a.job, a.fence>> : a \in attempts} \cup {<<c.job, c.fence>> : c \in calls}
                    \cup {<<x[2], receipts[x[1]][x[2]].fence>> :
                            x \in {y \in Workers \X Jobs : receipts[y[1]][y[2]] # NoReceipt}}
  <1>0. TypeOK /\ WordsOK BY DEF IInv
  <1>a. \A j \in Jobs : job[j] = Seen(rows[j]) BY DEF Seen
  <1>b. \A j \in Jobs : job'[j] = Seen(rows'[j]) BY DEF Seen, StateOf, Owned
  <1>c. out = Out(attempts, calls, receipts) /\ out' = Out(attempts', calls', receipts')
    BY DEF Out, OfAttempts, OfCalls, OfReceipts
  <1>d. job' = [k \in Jobs |-> job'[k]] OBVIOUS
  <1> HIDE DEF job, out
  <1>1. ASSUME NEW j \in Jobs PROVE Queue!Move(j) \/ job'[j] = job[j]
    <2>1. RowMoves(j) /\ RowOK(j) BY <1>0, StepMovesRow DEF IInv
    <2> QED BY <1>0, <1>a, <1>b, <2>1, MoveOfRow
  <1>2. ASSUME NEW o \in out' \ out
        PROVE  \E j \in Jobs : Queue!Take(j) /\ o = <<j, job'[j].turn>>
    <2>1. PICK j \in Jobs : Given(j) /\ o = <<j, rows'[j].fence>> BY <1>2, <1>c, StepTurns
    <2>2. rows[j] \in Row BY <1>0, Basics
    <2>3. /\ rows'[j].status = "running" /\ rows'[j].fence = rows[j].fence + 1
          /\ rows'[j].result = rows[j].result
      BY <2>1, <2>2 DEF Given, Row
    <2>a. job[j] = Seen(rows[j]) BY <1>a
    <2>b. job'[j] = Seen(rows'[j]) BY <1>b
    <2>4. job[j].state \in {"waiting", "held"}
      <3>1. rows[j].status = "queued" \/ rows[j].status \in Owned
        <4>1. rows[j].status = "queued" \/ j \in Lapsed BY <2>1 DEF Given
        <4> QED BY <4>1 DEF Lapsed, Owned
      <3> QED BY <2>a, <3>1 DEF Seen, StateOf, Owned
    <2>5. job'[j] = [state |-> "held", turn |-> job[j].turn + 1, result |-> job[j].result]
      BY <2>a, <2>b, <2>3 DEF Seen, StateOf, Owned
    <2>6. o = <<j, job'[j].turn>> BY <2>b, <2>1 DEF Seen
    <2> QED BY <2>4, <2>5, <2>6 DEF Queue!Take, job
  <1> QED BY <1>1, <1>2, <1>d DEF Queue!Next, job, out

\* The tables, the workers and what they have under way implement a queue with fenced turns.
THEOREM Refinement == Spec => ImplementsFencedQueue
  <1>1. Init => Queue!Init
    <2> SUFFICES ASSUME Init PROVE Queue!Init OBVIOUS
    <2>1. \A j \in Jobs : [state |-> StateOf(rows[j].status), turn |-> rows[j].fence,
                           result |-> rows[j].result] = [state |-> "absent", turn |-> 0, result |-> 0]
      BY DEF Init, StateOf, Owned
    <2>2. attempts = {} /\ calls = {}
          /\ \A w \in Workers, j \in Jobs : receipts[w][j] = NoReceipt
      BY DEF Init
    <2>3. {y \in Workers \X Jobs : receipts[y[1]][y[2]] # NoReceipt} = {} BY <2>2
    <2> QED BY <2>1, <2>2, <2>3 DEF Queue!Init
  <1>2. IInv /\ [Next]_vars => [Queue!Next]_(Queue!vars) BY StepRefines
  <1> QED BY <1>1, <1>2, Invariance, PTL DEF Spec, ImplementsFencedQueue, Queue!Spec

-----------------------------------------------------------------------------
(* The fleet's deployments.                                                *)

Phases == {"preflight", "apply", "complete"}

\* What the row of d may have as its preview.
Evidence(d) == {NoPreview} \cup [DOMAIN Order[d] -> Closures]

RowType(d) ==
    [status : DeploymentStatuses, phase : Phases, deployer : Deployers \cup {Nobody},
     live : BOOLEAN, fence : Nat, version : Nat, cancel : BOOLEAN, late : BOOLEAN,
     preview : Evidence(d)]

ApprovalType(d) ==
    [version : Nat, preview : Evidence(d), lapsed : BOOLEAN, consumed : BOOLEAN]

LedgerTypes ==
    /\ DOMAIN dep = Deployments
    /\ DOMAIN target = Deployments
    /\ \A d \in Deployments : target[d] \in [TargetHosts(d) -> TargetStatuses]
    /\ lock \in [Hosts -> Deployments \cup {Nobody}]
    /\ DOMAIN approval = Deployments
    /\ \A d \in Deployments : approval[d] \in ApprovalType(d)
    /\ seen \in [Deployments -> Nat]
    /\ DOMAIN touched = Deployments
    /\ \A d \in Deployments : touched[d] \subseteq TargetHosts(d)

-----------------------------------------------------------------------------
(* The ledger by itself.                                                   *)

\* Only a row in flight has a lease, and then a deployer; a row that waits is in
\* the phase that it waits for; what may be applied has a complete preview.
SoundRow(d, r) ==
    /\ r \in RowType(d)
    /\ r.live => /\ r.status \in Running \cup {"cancelling"}
                 /\ r.phase # "complete"
                 /\ r.deployer # Nobody
    /\ r.status \in {"absent", "preflight_queued"} => r.phase = "preflight"
    /\ r.status \in {"awaiting_approval", "queued"} => r.phase = "apply"
    /\ r.phase = "apply" => r.preview \in [DOMAIN Order[d] -> Closures]

\* The approval of a queued row is of its version, that of an apply under way is
\* used up; both were given by someone who had looked at the version before.
SoundApproval(r, a, n) ==
    /\ r.status = "queued" => a.version = r.version /\ n = a.version - 1
    /\ r.live /\ r.phase = "apply" => a.consumed /\ n = a.version - 1

\* An apply under way has the locks of all its hosts.
SoundLocks(d, r, l) == r.live /\ r.phase = "apply" => \A h \in TargetHosts(d) : l[h] = d

\* A deployment that has started an activation never waits again.
SoundPast(r, t) ==
    t # {} => r.phase # "preflight" /\ r.status \notin Waiting \cup {"absent"}

\* It had its approval, of a version that its reviewer had looked at before.
SoundUse(a, n, t) == t # {} => a.consumed /\ n = a.version - 1

LedgerFits(d) ==
    /\ SoundRow(d, dep[d])
    /\ SoundApproval(dep[d], approval[d], seen[d])
    /\ SoundLocks(d, dep[d], lock)
    /\ SoundPast(dep[d], touched[d])
    /\ SoundUse(approval[d], seen[d], touched[d])

Ledger == LedgerTypes /\ \A d \in Deployments : LedgerFits(d)

-----------------------------------------------------------------------------
(* Hosts and the rows that speak of them.                                  *)

\* The index of a host in the order of d, and the closure the preview shows there.
Pos(d, h) == CHOOSE i \in DOMAIN Order[d] : Order[d][i] = h
Before(d, h) == dep[d].preview[Pos(d, h)]

\* The closure of a deployment is only on hosts that it touched.
HostFits(h) == host[h] \in Deployments => h \in touched[host[h]]

\* Another deployment than d left a switch behind on h, whether or not it has taken effect.
Strayed(d, h) == \E e \in Deployments \ {d} : LeftOn(e, h)

\* A switch left behind is of a deployment that touched the host, to its closure or back to
\* the one before.
DriftFits(s) ==
    /\ s \in [dep : Deployments, host : Hosts, to : Closures, over : BOOLEAN]
    /\ s.host \in touched[s.dep]
    /\ s.to \in {s.dep, Before(s.dep, s.host)}
    /\ s.to \in Deployments => s.host \in touched[s.to]

\* What a deployment found on a host and replaced is the work of one that is over.
Supersedes(d) ==
    \A h \in touched[d] :
        Before(d, h) \in Deployments \ {d} =>
            h \in touched[Before(d, h)] /\ ~dep[Before(d, h)].live

\* The host runs c, or a deployment other than d found c there and replaced it, or left a
\* switch behind there.
RunsOrReplaced(d, h, c) ==
    \/ host[h] = c
    \/ \E e \in Deployments \ {d} : h \in touched[e] /\ (Before(e, h) = c \/ LeftOn(e, h))

Untouching == {"pending", "preflighting", "build_ready", "failed", "skipped"}

RowTruth(d, h) ==
    /\ target[d][h] \in Untouching => h \notin touched[d]
    /\ target[d][h] \in {"succeeded", "rolled_back"} => ~LeftOn(d, h)
    /\ target[d][h] = "succeeded" => RunsOrReplaced(d, h, d)
    /\ target[d][h] = "rolled_back" => h \in touched[d] /\ RunsOrReplaced(d, h, Before(d, h))

Truth ==
    /\ host \in [Hosts -> Closures]
    /\ \A h \in Hosts : HostFits(h)
    /\ \A d \in Deployments : Supersedes(d) /\ \A h \in TargetHosts(d) : RowTruth(d, h)
    /\ \A s \in adrift : DriftFits(s)

-----------------------------------------------------------------------------
(* Deployers.                                                              *)

Reading == {"mark", "read", "spoilt", "ready"}
Switching == {"begin", "copy", "switch", "switching", "report", "verify", "verified"}
Restoring == {"undo", "undoing", "restore", "restoring", "restored", "stuck"}
Busyness == {"start", "check", "record", "skip", "finish", "giveup"}
            \cup Reading \cup Switching \cup Restoring

Worker ==
    [dep : SshBacked, fence : Nat, pc : Busyness, at : Nat, guard : {"on", "cancel", "lost"},
     cursor : Nat, found : Seq(Closures), fate : {"ok", "failed", "cancelled", "unknown"}]

AtWork(me) ==
    /\ me \in Worker
    /\ me.at \in DOMAIN Order[me.dep]
    /\ me.pc = "skip" => me.cursor \in DOMAIN Order[me.dep]

Begun(d, i) == Order[d][i] \in touched[d]
Left(d, i) == LeftOn(d, Order[d][i])

\* The host runs what the preview shows (or the new closure), unless a switch of another
\* deployment was left behind on it.
Shows(d, i) == host[Order[d][i]] = dep[d].preview[i] \/ Strayed(d, Order[d][i])
Serves(d, i) == host[Order[d][i]] = d \/ Strayed(d, Order[d][i])

\* The deployment whose closure the preview shows has touched the host.
AsSeen(d, i) ==
    /\ Shows(d, i)
    /\ dep[d].preview[i] \in Deployments => Order[d][i] \in touched[dep[d].preview[i]]

\* What a deployer with the lease of d knows in the preflight: it has read the
\* hosts before the one it is at.
KnowsBuild(me, d, i) ==
    /\ me.pc \in Reading \cup {"start", "finish", "giveup"}
    /\ me.pc = "start" => i = 1 /\ me.found = <<>>
    /\ me.pc \in {"mark", "read", "spoilt"} => Len(me.found) = i - 1
    /\ me.pc = "ready" => Len(me.found) = i
    /\ me.pc = "finish" => Len(me.found) = Len(Order[d])

\* In the apply: which hosts are as its preview shows them, which it has touched,
\* that it has left no switch behind on the hosts it is done with, nor yet on the one it is at,
\* and what its own row says of that one.
KnowsHosts(pc, fate, d, i) ==
    /\ pc \notin Reading
    /\ pc = "start" => i = 1
    /\ pc \in {"start", "check"} => touched[d] = {}
    /\ pc = "check" => \A j \in DOMAIN Order[d] : j < i => AsSeen(d, j)
    /\ pc \in Switching =>
          \A j \in DOMAIN Order[d] : j > i => AsSeen(d, j) /\ ~Begun(d, j)
    /\ pc \in {"begin", "copy", "switch", "switching"} => AsSeen(d, i)
    /\ pc \in {"begin", "copy", "switch"} => ~Begun(d, i)
    /\ pc \in {"switching", "report", "verify", "verified"} => Begun(d, i)
    /\ pc \in {"report", "verify", "verified"} => Serves(d, i)
    /\ pc = "record" /\ fate # "unknown" => ~Begun(d, i)
    /\ pc \in Switching \cup {"record", "skip"} => \A j \in DOMAIN Order[d] : j < i => Begun(d, j)
    /\ pc \in Restoring => \A j \in DOMAIN Order[d] : j <= i => Begun(d, j)
    /\ pc = "restored" => Shows(d, i)
    /\ pc \in Switching \cup (Restoring \ {"stuck"}) => ~Left(d, i)
    /\ pc \in Switching \cup Restoring \cup {"record", "skip"} =>
          \A j \in DOMAIN Order[d] : j < i => ~Left(d, j)

KnowsRow(pc, d, i) ==
    /\ pc \in {"copy", "switch", "switching"} => target[d][Order[d][i]] = "deploying"
    /\ pc \in {"restore", "restoring"} => target[d][Order[d][i]] = "rolling_back"

KnowsPast(d) ==
    \A j \in DOMAIN Order[d] : Begun(d, j) => Serves(d, j) \/ Shows(d, j)

Knows(me) ==
    IF dep[me.dep].phase = "preflight" THEN KnowsBuild(me, me.dep, me.at)
    ELSE /\ KnowsHosts(me.pc, me.fate, me.dep, me.at)
         /\ KnowsRow(me.pc, me.dep, me.at)
         /\ KnowsPast(me.dep)

\* A guard that is on vouches for the lease, and nothing is switched without it.
Vouches(p, me) ==
    (me.guard = "on" /\ me.pc # "giveup") \/ me.pc \in {"switching", "restoring"} =>
        HoldsLease(p, me.dep, me.fence)

WorkerFits(p, me) ==
    /\ AtWork(me)
    /\ Vouches(p, me)
    /\ HoldsLease(p, me.dep, me.fence) => Knows(me)

DeployerFits(p) == proc[p] = Resting \/ WorkerFits(p, proc[p])

Team == DOMAIN proc = Deployers /\ \A p \in Deployers : DeployerFits(p)

FleetIInv == Ledger /\ Truth /\ Team

\* The receipts on disk are of deployments.
ReceiptsFit == diskReceipts \in [Deployers -> SUBSET [dep : Deployments, fence : Nat]]

-----------------------------------------------------------------------------
(* Orders, rows and what the operators of the ledger make of them.          *)

\* A deployment has at least one host, each once.
LEMMA OrderFacts ==
    ASSUME NEW d \in Deployments
    PROVE  /\ Order[d] \in Seq(Hosts)
           /\ Len(Order[d]) \in Nat /\ Len(Order[d]) >= 1
           /\ DOMAIN Order[d] = 1 .. Len(Order[d])
           /\ TargetHosts(d) \subseteq Hosts
           /\ \A i \in DOMAIN Order[d] : Order[d][i] \in TargetHosts(d) /\ Pos(d, Order[d][i]) = i
           /\ \A h \in TargetHosts(d) : \E i \in DOMAIN Order[d] : Order[d][i] = h
  <1>1. Order[d] \in Seq(Hosts) /\ Order[d] # <<>> /\ IsInjective(Order[d])
    BY DeploymentsAssumption
  <1>2. Len(Order[d]) \in Nat /\ Len(Order[d]) >= 1 /\ DOMAIN Order[d] = 1 .. Len(Order[d])
    BY <1>1
  <1>3. \A i \in DOMAIN Order[d] : Order[d][i] \in Hosts BY <1>1
  <1>4. TargetHosts(d) \subseteq Hosts BY <1>3 DEF TargetHosts, Range
  <1>5. \A h \in TargetHosts(d) : \E i \in DOMAIN Order[d] : Order[d][i] = h
    BY DEF TargetHosts, Range
  <1>6. ASSUME NEW i \in DOMAIN Order[d]
        PROVE  Order[d][i] \in TargetHosts(d) /\ Pos(d, Order[d][i]) = i
    <2>1. Order[d][i] \in TargetHosts(d) BY DEF TargetHosts, Range
    <2>2. \A j \in DOMAIN Order[d] : Order[d][j] = Order[d][i] => j = i
      BY <1>1 DEF IsInjective
    <2> QED BY <2>1, <2>2 DEF Pos
  <1> QED BY <1>1, <1>2, <1>4, <1>5, <1>6

\* The preview of a host, by its index or by its name.
LEMMA BeforeHere ==
    ASSUME NEW d \in Deployments, NEW i \in DOMAIN Order[d]
    PROVE  Before(d, Order[d][i]) = dep[d].preview[i]
  BY OrderFacts DEF Before

\* A change of one field, or two, leaves the others.
LEMMA ReleasedRow ==
    ASSUME NEW d \in Deployments, NEW r \in RowType(d)
    PROVE  /\ Released(r) \in RowType(d)
           /\ ~Released(r).live
           /\ Released(r).status = r.status /\ Released(r).phase = r.phase
           /\ Released(r).version = r.version /\ Released(r).cancel = r.cancel
           /\ Released(r).late = r.late /\ Released(r).preview = r.preview
  <1>1. Released(r) \in RowType(d) BY DEF Released, RowType
  <1> QED BY <1>1 DEF Released, RowType

LEMMA ClosedRow ==
    ASSUME NEW d \in Deployments, NEW r \in RowType(d), NEW s \in Terminal
    PROVE  /\ Closed(r, s) \in RowType(d)
           /\ Closed(r, s).status = s /\ Closed(r, s).phase = "complete"
           /\ Closed(r, s).live = r.live /\ Closed(r, s).preview = r.preview
  <1>1. s \in DeploymentStatuses BY DEF DeploymentStatuses
  <1>2. "complete" \in Phases BY DEF Phases
  <1> DEFINE c == "complete"
             v == r.version + 1
  <1>3. Closed(r, s) = [r EXCEPT !.status = s, !.phase = c, !.version = v]
    BY DEF Closed, RowType
  <1>4. v \in Nat BY DEF RowType
  <1>5. c \in Phases BY <1>2
  <1> HIDE DEF c, v
  <1>6. Closed(r, s) \in RowType(d) BY <1>1, <1>3, <1>4, <1>5 DEF RowType
  <1>7. Closed(r, s).status = s /\ Closed(r, s).phase = c
        /\ Closed(r, s).live = r.live /\ Closed(r, s).preview = r.preview
    BY <1>3 DEF RowType
  <1>8. c = "complete" BY DEF c
  <1> QED BY <1>6, <1>7, <1>8

LEMMA ClaimedRow ==
    ASSUME NEW d \in Deployments, NEW r \in RowType(d), NEW p \in Deployers,
           r.status \in {"preflight_queued", "queued"}
    PROVE  /\ Claimed(p, r) \in RowType(d)
           /\ Claimed(p, r).status \in Running
           /\ Claimed(p, r).deployer = p /\ Claimed(p, r).live
           /\ Claimed(p, r).phase = r.phase /\ Claimed(p, r).preview = r.preview
           /\ Claimed(p, r).version = r.version
  <1> DEFINE s == IF r.status = "preflight_queued" THEN "preflighting" ELSE "deploying"
             n == r.fence + 1
  <1>1. Claimed(p, r) = [r EXCEPT !.status = s, !.deployer = p, !.live = TRUE, !.fence = n]
    BY DEF Claimed, Waiting, RowType
  <1>2. s \in Running BY DEF Running
  <1>3. s \in DeploymentStatuses BY DEF DeploymentStatuses, Running
  <1>4. n \in Nat BY DEF RowType
  <1> HIDE DEF s, n
  <1>5. Claimed(p, r) \in RowType(d) BY <1>1, <1>3, <1>4 DEF RowType
  <1> QED BY <1>1, <1>2, <1>5 DEF RowType

\* The sweep leaves a row with a lease, and one that has ended, as it is; what it
\* queues again has touched nothing.
LEMMA SweptRow ==
    ASSUME NEW d \in Deployments, NEW t, SoundRow(d, dep[d]), SoundPast(dep[d], t)
    PROVE  /\ SoundRow(d, Swept(d)) /\ SoundPast(Swept(d), t)
           /\ Swept(d).preview = dep[d].preview
           /\ dep[d].live => Swept(d) = dep[d]
           /\ ~dep[d].live => ~Swept(d).live
           /\ dep[d].status \in Terminal => Swept(d) = dep[d]
           /\ Swept(d).status = "queued" => Swept(d) = dep[d]
           /\ Swept(d).phase # "complete" => Swept(d).phase = dep[d].phase
  <1> DEFINE r == dep[d]
             s == IF r.status \in Running /\ r.phase = "preflight" THEN "preflight_queued"
                  ELSE "needs_attention"
             q == [Released(r) EXCEPT !.version = @ + 1, !.status = s]
             u == IF ~Stale(d) THEN r ELSE q
  <1>1. r \in RowType(d) BY DEF SoundRow
  <1>2. /\ Released(r) \in RowType(d) /\ ~Released(r).live
        /\ Released(r).status = r.status /\ Released(r).phase = r.phase
        /\ Released(r).version = r.version /\ Released(r).late = r.late
        /\ Released(r).preview = r.preview
    BY <1>1, ReleasedRow
  <1>3. s \in DeploymentStatuses
    BY DEF DeploymentStatuses, Terminal, Waiting
  <1>4. q \in RowType(d)
    <2> DEFINE o == Released(r)
               v == o.version + 1
    <2>1. q = [o EXCEPT !.version = v, !.status = s] BY <1>2 DEF RowType
    <2>2. v \in Nat BY <1>2 DEF RowType
    <2>3. o \in RowType(d) BY <1>2
    <2> HIDE DEF s, o, v, q
    <2> QED BY <1>3, <2>1, <2>2, <2>3 DEF RowType
  <1>5. q.status = s /\ q.phase = r.phase /\ ~q.live /\ q.preview = r.preview
    <2> HIDE DEF s
    <2> QED BY <1>2, <1>3 DEF RowType
  <1>6. Swept(d) = IF u.status \in Waiting /\ u.late THEN Closed(u, "failed") ELSE u
    <2>1. Stale(d) => q = [Released(dep[d]) EXCEPT !.version = @ + 1,
                              !.status = IF @ \in Running /\ dep[d].phase = "preflight"
                                         THEN "preflight_queued" ELSE "needs_attention"]
      BY <1>2 DEF RowType
    <2> QED BY <2>1, Zenon DEF Swept
  <1>7. Stale(d) => r.status \in Running /\ ~r.live BY DEF Stale
  <1>8. "failed" \in Terminal BY DEF Terminal
  <1>9. SoundRow(d, u) /\ SoundPast(u, t)
    <2>1. CASE ~Stale(d) BY <2>1
    <2>2. CASE Stale(d)
      <3>1. u = q BY <2>2
      <3>2. SoundRow(d, q)
        <4>1. s = "preflight_queued" => r.phase = "preflight" OBVIOUS
        <4>2. s \notin {"absent", "awaiting_approval", "queued"} OBVIOUS
        <4> HIDE DEF q, s, u
        <4> QED BY <1>4, <1>5, <4>1, <4>2 DEF SoundRow
      <3>3. SoundPast(q, t)
        <4>1. r.phase # "preflight" => s = "needs_attention" OBVIOUS
        <4>2. "needs_attention" \notin Waiting \cup {"absent"} BY DEF Waiting
        <4> HIDE DEF q, s, u
        <4> QED BY <1>5, <4>1, <4>2 DEF SoundPast
      <3> QED BY <3>1, <3>2, <3>3
    <2> QED BY <2>1, <2>2
  <1>10. /\ u.preview = r.preview /\ u.phase = r.phase
         /\ r.live => u = r
         /\ ~r.live => ~u.live
         /\ r.status \in Terminal => u = r
         /\ u.status = "queued" => u = r
    <2>1. CASE ~Stale(d) BY <2>1
    <2>2. CASE Stale(d)
      <3>1. u = q BY <2>2
      <3>2. q.status # "queued" BY <1>5
      <3>3. r.status \notin Terminal BY <1>7, <2>2 DEF Running, Terminal
      <3> HIDE DEF q, u
      <3> QED BY <1>5, <1>7, <2>2, <3>1, <3>2, <3>3
    <2> QED BY <2>1, <2>2
  <1> HIDE DEF u, q, s
  <1>11. CASE u.status \in Waiting /\ u.late
    <2>1. Swept(d) = Closed(u, "failed") BY <1>6, <1>11
    <2>2. u \in RowType(d) BY <1>9 DEF SoundRow
    <2>3. /\ Closed(u, "failed") \in RowType(d) /\ Closed(u, "failed").status = "failed"
          /\ Closed(u, "failed").phase = "complete" /\ Closed(u, "failed").live = u.live
          /\ Closed(u, "failed").preview = u.preview
      BY <1>8, <2>2, ClosedRow
    <2>4. u.status \notin Running \cup {"cancelling"} BY <1>11 DEF Waiting, Running
    <2>5. ~u.live BY <1>9, <2>4 DEF SoundRow
    <2>6. SoundRow(d, Swept(d)) BY <2>1, <2>3, <2>5 DEF SoundRow
    <2>7. SoundPast(Swept(d), t) BY <2>1, <2>3 DEF SoundPast, Waiting
    <2>8. r.status \notin Terminal BY <1>10, <1>11 DEF Waiting, Terminal
    <2>9. ~r.live BY <1>10, <2>5
    <2> QED BY <1>10, <2>1, <2>3, <2>5, <2>6, <2>7, <2>8, <2>9
  <1>12. CASE ~(u.status \in Waiting /\ u.late)
    <2>1. Swept(d) = u BY <1>6, <1>12
    <2> QED BY <1>9, <1>10, <2>1
  <1> QED BY <1>11, <1>12

-----------------------------------------------------------------------------
(* What one call may do to the rows.                                       *)

SameHold(e) ==
    /\ dep'[e].deployer = dep[e].deployer /\ dep'[e].fence = dep[e].fence
    /\ dep'[e].phase = dep[e].phase /\ dep'[e].preview = dep[e].preview

\* Who has the lease of e keeps it.
Stays(e) == dep[e].live => dep'[e].live /\ SameHold(e)

\* An ended row stays; a lease is taken only by the deployers in S, for a row that
\* nobody holds and that has touched no host; what has been built stays.
Turns(e, S) ==
    /\ dep[e].status \in Terminal => dep'[e] = dep[e]
    /\ dep'[e].live => \/ dep[e].live /\ SameHold(e)
                       \/ ~dep[e].live /\ touched[e] = {} /\ dep'[e].deployer \in S
    /\ dep[e].phase # "preflight" => dep'[e].preview = dep[e].preview

LEMMA SameRowTurns ==
    ASSUME NEW e, NEW S, dep'[e] = dep[e]
    PROVE  Turns(e, S) /\ Stays(e)
  BY DEF Turns, Stays, SameHold

\* A call that changes one row, and no other lock or approval than its own.
LEMMA RowStep ==
    ASSUME Ledger, NEW d \in Deployments, NEW r,
           dep' = [dep EXCEPT ![d] = r],
           DOMAIN target' = Deployments,
           \A e \in Deployments : target'[e] \in [TargetHosts(e) -> TargetStatuses],
           lock' \in [Hosts -> Deployments \cup {Nobody}],
           \A h \in Hosts : lock[h] = d \/ lock'[h] = lock[h],
           DOMAIN approval' = Deployments, approval'[d] \in ApprovalType(d),
           \A e \in Deployments \ {d} : approval'[e] = approval[e],
           seen' = seen, touched' = touched,
           SoundRow(d, r), SoundApproval(r, approval'[d], seen[d]),
           SoundLocks(d, r, lock'), SoundPast(r, touched[d]),
           SoundUse(approval'[d], seen[d], touched[d])
    PROVE  /\ Ledger'
           /\ dep'[d] = r
           /\ \A e \in Deployments \ {d} : dep'[e] = dep[e]
  <1>1. DOMAIN dep = Deployments BY DEF Ledger, LedgerTypes
  <1>2. DOMAIN dep' = Deployments /\ dep'[d] = r BY <1>1
  <1>3. \A e \in Deployments \ {d} : dep'[e] = dep[e] BY <1>1
  <1>4. LedgerTypes'
    <2>1. \A e \in Deployments : approval'[e] \in ApprovalType(e) BY DEF Ledger, LedgerTypes
    <2>2. seen' \in [Deployments -> Nat] /\ DOMAIN touched' = Deployments
          /\ \A e \in Deployments : touched'[e] \subseteq TargetHosts(e)
      BY DEF Ledger, LedgerTypes
    <2> QED BY <1>2, <2>1, <2>2 DEF LedgerTypes
  <1>5. LedgerFits(d)' BY <1>2 DEF LedgerFits
  <1>6. ASSUME NEW e \in Deployments \ {d} PROVE LedgerFits(e)'
    <2>1. LedgerFits(e) BY DEF Ledger
    <2>2. /\ dep'[e] = dep[e] /\ approval'[e] = approval[e] /\ seen'[e] = seen[e]
          /\ touched'[e] = touched[e]
      BY <1>3
    <2>3. SoundLocks(e, dep[e], lock')
      <3>1. TargetHosts(e) \subseteq Hosts BY OrderFacts
      <3>2. SoundLocks(e, dep[e], lock) BY <2>1 DEF LedgerFits
      <3> QED BY <3>1, <3>2 DEF SoundLocks
    <2> QED BY <2>1, <2>2, <2>3 DEF LedgerFits
  <1>7. \A e \in Deployments : LedgerFits(e)' BY <1>5, <1>6
  <1> QED BY <1>2, <1>3, <1>4, <1>7 DEF Ledger

\* The same when the row is all that changes.
LEMMA OnlyRowStep ==
    ASSUME Ledger, NEW d \in Deployments, NEW r,
           dep' = [dep EXCEPT ![d] = r], UNCHANGED <<target, lock, approval, seen, touched>>,
           SoundRow(d, r), SoundApproval(r, approval[d], seen[d]),
           SoundLocks(d, r, lock), SoundPast(r, touched[d])
    PROVE  /\ Ledger'
           /\ dep'[d] = r
           /\ \A e \in Deployments \ {d} : dep'[e] = dep[e]
  <1>1. /\ DOMAIN target' = Deployments
        /\ \A e \in Deployments : target'[e] \in [TargetHosts(e) -> TargetStatuses]
        /\ lock' \in [Hosts -> Deployments \cup {Nobody}]
        /\ \A h \in Hosts : lock[h] = d \/ lock'[h] = lock[h]
        /\ DOMAIN approval' = Deployments /\ approval'[d] \in ApprovalType(d)
        /\ \A e \in Deployments \ {d} : approval'[e] = approval[e]
    BY DEF Ledger, LedgerTypes
  <1>2. approval'[d] = approval[d] OBVIOUS
  <1>3. SoundApproval(r, approval'[d], seen[d]) /\ SoundLocks(d, r, lock') BY <1>2
  <1>4. seen' = seen /\ touched' = touched OBVIOUS
  <1>5. SoundUse(approval'[d], seen[d], touched[d]) BY <1>2 DEF Ledger, LedgerFits
  <1> QED BY <1>1, <1>3, <1>4, <1>5, RowStep

LEMMA PrepareStep ==
    ASSUME Ledger, NEW d \in Deployments, Prepare(d), UNCHANGED <<seen, touched>>
    PROVE  Ledger' /\ \A e \in Deployments : Turns(e, {}) /\ Stays(e)
  <1> DEFINE r == [dep[d] EXCEPT !.status = "preflight_queued"]
  <1>1. dep[d] \in RowType(d) /\ LedgerFits(d) BY DEF Ledger, LedgerFits, SoundRow
  <1>2. "preflight_queued" \in DeploymentStatuses BY DEF DeploymentStatuses, Waiting
  <1>3. dep[d].status = "absent" BY DEF Prepare
  <1>4. dep[d].phase = "preflight" /\ ~dep[d].live /\ touched[d] = {}
    <2>1. "absent" \notin Running \cup {"cancelling"} BY DEF Running
    <2> QED BY <1>1, <1>3, <2>1 DEF LedgerFits, SoundRow, SoundPast
  <1>5. /\ r \in RowType(d) /\ r.status = "preflight_queued"
        /\ r.phase = "preflight" /\ ~r.live /\ r.preview = dep[d].preview
    BY <1>1, <1>2, <1>4 DEF RowType
  <1>6. dep' = [dep EXCEPT ![d] = r] BY DEF Prepare
  <1> HIDE DEF r
  <1>7. SoundRow(d, r) BY <1>5 DEF SoundRow
  <1>8. /\ SoundApproval(r, approval[d], seen[d]) /\ SoundLocks(d, r, lock)
        /\ SoundPast(r, touched[d])
    BY <1>4, <1>5 DEF SoundApproval, SoundLocks, SoundPast
  <1>9. UNCHANGED <<target, lock, approval, seen, touched>> BY DEF Prepare
  <1>10. Ledger' /\ dep'[d] = r /\ \A e \in Deployments \ {d} : dep'[e] = dep[e]
    BY <1>6, <1>7, <1>8, <1>9, OnlyRowStep
  <1>11. Turns(d, {}) /\ Stays(d)
    <2>1. "absent" \notin Terminal BY DEF Terminal
    <2> QED BY <1>3, <1>4, <1>5, <1>10, <2>1 DEF Turns, Stays
  <1> QED BY <1>10, <1>11, SameRowTurns

LEMMA ApproveStep ==
    ASSUME Ledger, NEW d \in Deployments, Approve(d, seen[d]), UNCHANGED <<seen, touched>>
    PROVE  Ledger' /\ \A e \in Deployments : Turns(e, {}) /\ Stays(e)
  <1> DEFINE n == dep[d].version + 1
             r == [dep[d] EXCEPT !.status = "queued", !.version = n]
             a == [version |-> seen[d] + 1, preview |-> dep[d].preview, lapsed |-> FALSE,
                   consumed |-> FALSE]
  <1>1. dep[d] \in RowType(d) /\ LedgerFits(d) BY DEF Ledger, LedgerFits, SoundRow
  <1>2. "queued" \in DeploymentStatuses BY DEF DeploymentStatuses, Waiting
  <1>3. dep[d].status = "awaiting_approval" /\ dep[d].version = seen[d] BY DEF Approve
  <1>4. ~dep[d].live /\ touched[d] = {}
    <2>1. "awaiting_approval" \notin Running \cup {"cancelling"} BY DEF Running
    <2>2. "awaiting_approval" \in Waiting BY DEF Waiting
    <2> QED BY <1>1, <1>3, <2>1, <2>2 DEF LedgerFits, SoundRow, SoundPast
  <1>5. n \in Nat /\ seen[d] \in Nat BY <1>1 DEF RowType, Ledger, LedgerTypes
  <1>6. dep' = [dep EXCEPT ![d] = r] BY DEF Approve
  <1>7. n = seen[d] + 1 BY <1>3
  <1>8. a \in ApprovalType(d) /\ a.version = n
    BY <1>1, <1>5, <1>7 DEF ApprovalType, RowType
  <1>9. approval' = [approval EXCEPT ![d] = a] BY DEF Approve
  <1>10. n - 1 = seen[d] BY <1>5, <1>7
  <1> HIDE DEF n, a
  <1>11. /\ r \in RowType(d) /\ r.status = "queued" /\ r.version = n
         /\ r.phase = dep[d].phase /\ ~r.live /\ r.preview = dep[d].preview
    BY <1>1, <1>2, <1>4, <1>5 DEF RowType
  <1> HIDE DEF r
  <1>12. SoundRow(d, r)
    <2>1. SoundRow(d, dep[d]) BY <1>1 DEF LedgerFits
    <2>2. dep[d].phase = "apply" BY <1>3, <2>1 DEF SoundRow
    <2> QED BY <1>11, <2>1, <2>2 DEF SoundRow
  <1>13. DOMAIN approval = Deployments /\ DOMAIN approval' = Deployments /\ approval'[d] = a
    BY <1>9 DEF Ledger, LedgerTypes
  <1>14. SoundApproval(r, approval'[d], seen[d]) BY <1>8, <1>10, <1>11, <1>13 DEF SoundApproval
  <1>15. SoundLocks(d, r, lock') /\ SoundPast(r, touched[d])
         /\ SoundUse(approval'[d], seen[d], touched[d])
    BY <1>4, <1>11 DEF SoundLocks, SoundPast, SoundUse
  <1>16. target' = target /\ lock' = lock BY DEF Approve
  <1>17. /\ DOMAIN target' = Deployments
         /\ \A e \in Deployments : target'[e] \in [TargetHosts(e) -> TargetStatuses]
         /\ lock' \in [Hosts -> Deployments \cup {Nobody}]
         /\ \A h \in Hosts : lock[h] = d \/ lock'[h] = lock[h]
    BY <1>16 DEF Ledger, LedgerTypes
  <1>18. \A e \in Deployments \ {d} : approval'[e] = approval[e] BY <1>9, <1>13
  <1>19. approval'[d] \in ApprovalType(d) BY <1>8, <1>13
  <1>20. Ledger' /\ dep'[d] = r /\ \A e \in Deployments \ {d} : dep'[e] = dep[e]
    <2>1. seen' = seen /\ touched' = touched OBVIOUS
    <2> QED BY <1>6, <1>12, <1>13, <1>14, <1>15, <1>17, <1>18, <1>19, <2>1, RowStep
  <1>21. Turns(d, {}) /\ Stays(d)
    <2>1. "awaiting_approval" \notin Terminal BY DEF Terminal
    <2> QED BY <1>3, <1>4, <1>11, <1>20, <2>1 DEF Turns, Stays
  <1> QED BY <1>20, <1>21, SameRowTurns

LEMMA UnlockedLocks ==
    ASSUME Ledger, NEW d \in Deployments
    PROVE  /\ Unlocked(d) \in [Hosts -> Deployments \cup {Nobody}]
           /\ \A h \in Hosts : lock[h] = d \/ Unlocked(d)[h] = lock[h]
  BY DEF Unlocked, Ledger, LedgerTypes

\* A row that ends gives back its locks.
LEMMA EndStep ==
    ASSUME Ledger, NEW d \in Deployments, NEW r, SoundRow(d, r),
           ~r.live, r.status # "queued", SoundPast(r, touched[d]),
           dep' = [dep EXCEPT ![d] = r], lock' = Unlocked(d),
           UNCHANGED <<target, approval, seen, touched>>
    PROVE  /\ Ledger'
           /\ dep'[d] = r
           /\ \A e \in Deployments \ {d} : dep'[e] = dep[e]
  <1>1. /\ lock' \in [Hosts -> Deployments \cup {Nobody}]
        /\ \A h \in Hosts : lock[h] = d \/ lock'[h] = lock[h]
    BY UnlockedLocks
  <1>2. /\ DOMAIN target' = Deployments
        /\ \A e \in Deployments : target'[e] \in [TargetHosts(e) -> TargetStatuses]
        /\ DOMAIN approval' = Deployments /\ approval'[d] \in ApprovalType(d)
        /\ \A e \in Deployments \ {d} : approval'[e] = approval[e]
        /\ seen' = seen /\ touched' = touched
    BY DEF Ledger, LedgerTypes
  <1>3. SoundApproval(r, approval'[d], seen[d]) /\ SoundLocks(d, r, lock')
    BY DEF SoundApproval, SoundLocks
  <1>4. SoundUse(approval'[d], seen[d], touched[d])
    <2>1. SoundUse(approval[d], seen[d], touched[d]) BY DEF Ledger, LedgerFits
    <2> QED BY <2>1
  <1> QED BY <1>1, <1>2, <1>3, <1>4, RowStep

LEMMA CancelStep ==
    ASSUME Ledger, NEW d \in Deployments, Cancel(d), UNCHANGED <<seen, touched>>
    PROVE  Ledger' /\ \A e \in Deployments : Turns(e, {}) /\ Stays(e)
  <1>1. LedgerFits(d) /\ dep[d] \in RowType(d) BY DEF Ledger, LedgerFits, SoundRow
  <1>2. dep[d].status \notin Terminal \cup {"absent"} BY DEF Cancel
  <1>3. CASE dep[d].status \in Running \cup {"cancelling"}
    <2> DEFINE n == dep[d].version + 1
               r == [dep[d] EXCEPT !.status = "cancelling", !.cancel = TRUE, !.version = n]
    <2>1. dep' = [dep EXCEPT ![d] = r] /\ UNCHANGED <<target, lock, approval, seen, touched>>
      BY <1>3 DEF Cancel
    <2>2. n \in Nat /\ "cancelling" \in DeploymentStatuses BY <1>1 DEF RowType, DeploymentStatuses
    <2> HIDE DEF n
    <2>3. /\ r \in RowType(d) /\ r.status = "cancelling" /\ r.phase = dep[d].phase
          /\ r.live = dep[d].live /\ r.deployer = dep[d].deployer
          /\ r.fence = dep[d].fence /\ r.preview = dep[d].preview
      BY <1>1, <2>2 DEF RowType
    <2> HIDE DEF r
    <2>4. SoundRow(d, r) BY <1>1, <2>3 DEF LedgerFits, SoundRow
    <2>5. SoundApproval(r, approval[d], seen[d]) /\ SoundLocks(d, r, lock)
      BY <1>1, <2>3 DEF LedgerFits, SoundApproval, SoundLocks
    <2>6. SoundPast(r, touched[d])
      <3>1. "cancelling" \notin Waiting \cup {"absent"} BY DEF Waiting
      <3> QED BY <1>1, <2>3, <3>1 DEF LedgerFits, SoundPast
    <2>7. Ledger' /\ dep'[d] = r /\ \A e \in Deployments \ {d} : dep'[e] = dep[e]
      BY <2>1, <2>4, <2>5, <2>6, OnlyRowStep
    <2>8. Turns(d, {}) /\ Stays(d) BY <1>2, <2>3, <2>7 DEF Turns, Stays, SameHold
    <2> QED BY <2>7, <2>8, SameRowTurns
  <1>4. CASE dep[d].status \notin Running \cup {"cancelling"}
    <2> DEFINE r == Closed(dep[d], "cancelled")
    <2>1. /\ dep' = [dep EXCEPT ![d] = r] /\ lock' = Unlocked(d)
          /\ UNCHANGED <<target, approval, seen, touched>>
      BY <1>4 DEF Cancel
    <2>2. "cancelled" \in Terminal BY DEF Terminal
    <2>3. ~dep[d].live BY <1>1, <1>4 DEF LedgerFits, SoundRow
    <2>4. /\ r \in RowType(d) /\ r.status = "cancelled" /\ r.phase = "complete"
          /\ ~r.live /\ r.preview = dep[d].preview
      BY <1>1, <2>2, <2>3, ClosedRow
    <2> HIDE DEF r
    <2>5. SoundRow(d, r) BY <2>4 DEF SoundRow
    <2>6. SoundPast(r, touched[d]) BY <2>4 DEF SoundPast, Waiting
    <2>7. r.status # "queued" BY <2>4
    <2>8. Ledger' /\ dep'[d] = r /\ \A e \in Deployments \ {d} : dep'[e] = dep[e]
      BY <2>1, <2>4, <2>5, <2>6, <2>7, EndStep
    <2>9. Turns(d, {}) /\ Stays(d) BY <1>2, <2>3, <2>4, <2>8 DEF Turns, Stays
    <2> QED BY <2>8, <2>9, SameRowTurns
  <1> QED BY <1>3, <1>4

LEMMA DeadlineStep ==
    ASSUME Ledger, NEW d \in Deployments, DeadlinePasses(d), UNCHANGED <<seen, touched>>
    PROVE  Ledger' /\ \A e \in Deployments : Turns(e, {}) /\ Stays(e)
  <1> DEFINE r == [dep[d] EXCEPT !.late = TRUE]
  <1>1. LedgerFits(d) /\ dep[d] \in RowType(d) BY DEF Ledger, LedgerFits, SoundRow
  <1>2. dep' = [dep EXCEPT ![d] = r] /\ UNCHANGED <<target, lock, approval, seen, touched>>
    BY DEF DeadlinePasses
  <1>3. /\ r \in RowType(d) /\ r.status = dep[d].status /\ r.phase = dep[d].phase
        /\ r.live = dep[d].live /\ r.deployer = dep[d].deployer /\ r.version = dep[d].version
        /\ r.fence = dep[d].fence /\ r.preview = dep[d].preview
    BY <1>1 DEF RowType
  <1>4. dep[d].status \notin Terminal BY DEF DeadlinePasses, Waiting, Running, Terminal
  <1> HIDE DEF r
  <1>5. SoundRow(d, r) BY <1>1, <1>3 DEF LedgerFits, SoundRow
  <1>6. /\ SoundApproval(r, approval[d], seen[d]) /\ SoundLocks(d, r, lock)
        /\ SoundPast(r, touched[d])
    BY <1>1, <1>3 DEF LedgerFits, SoundApproval, SoundLocks, SoundPast
  <1>7. Ledger' /\ dep'[d] = r /\ \A e \in Deployments \ {d} : dep'[e] = dep[e]
    BY <1>2, <1>5, <1>6, OnlyRowStep
  <1>8. Turns(d, {}) /\ Stays(d) BY <1>3, <1>4, <1>7 DEF Turns, Stays, SameHold
  <1> QED BY <1>7, <1>8, SameRowTurns

LEMMA LapseStep ==
    ASSUME Ledger, NEW d \in Deployments, ApprovalLapses(d), UNCHANGED <<seen, touched>>
    PROVE  Ledger' /\ \A e \in Deployments : Turns(e, {}) /\ Stays(e)
  <1> DEFINE a == [approval[d] EXCEPT !.lapsed = TRUE]
  <1>1. approval[d] \in ApprovalType(d) /\ DOMAIN approval = Deployments
    BY DEF Ledger, LedgerTypes
  <1>2. /\ a \in ApprovalType(d) /\ a.version = approval[d].version
        /\ a.consumed = approval[d].consumed
    BY <1>1 DEF ApprovalType
  <1>3. approval' = [approval EXCEPT ![d] = a] /\ UNCHANGED <<dep, target, lock, seen, touched>>
    BY DEF ApprovalLapses
  <1> HIDE DEF a
  <1>4. /\ DOMAIN approval' = Deployments /\ approval'[d] = a
        /\ \A e \in Deployments \ {d} : approval'[e] = approval[e]
    BY <1>1, <1>3
  <1>5. \A e \in Deployments : approval'[e] \in ApprovalType(e)
    BY <1>2, <1>4 DEF Ledger, LedgerTypes
  <1>6. LedgerTypes' BY <1>3, <1>4, <1>5 DEF Ledger, LedgerTypes
  <1>7. ASSUME NEW e \in Deployments PROVE LedgerFits(e)'
    <2>1. approval'[e].version = approval[e].version /\ approval'[e].consumed = approval[e].consumed
      BY <1>2, <1>4
    <2> QED BY <1>3, <2>1 DEF Ledger, LedgerFits, SoundApproval, SoundUse
  <1> QED BY <1>3, <1>6, <1>7, SameRowTurns DEF Ledger

LEMMA LeaseStep ==
    ASSUME Ledger, NEW d \in Deployments, LeaseRunsOut(d), UNCHANGED <<seen, touched>>
    PROVE  /\ Ledger'
           /\ \A e \in Deployments : Turns(e, {})
           /\ \A e \in Deployments \ {d} : dep'[e] = dep[e]
  <1> DEFINE r == [dep[d] EXCEPT !.live = FALSE]
  <1>1. LedgerFits(d) /\ dep[d] \in RowType(d) BY DEF Ledger, LedgerFits, SoundRow
  <1>2. dep' = [dep EXCEPT ![d] = r] /\ UNCHANGED <<target, lock, approval, seen, touched>>
    BY DEF LeaseRunsOut
  <1>3. /\ r \in RowType(d) /\ r.status = dep[d].status /\ r.phase = dep[d].phase
        /\ ~r.live /\ r.version = dep[d].version /\ r.preview = dep[d].preview
    BY <1>1 DEF RowType
  <1>4. dep[d].status \notin Terminal
    BY <1>1 DEF LeaseRunsOut, LedgerFits, SoundRow, Running, Terminal
  <1> HIDE DEF r
  <1>5. SoundRow(d, r) BY <1>1, <1>3 DEF LedgerFits, SoundRow
  <1>6. /\ SoundApproval(r, approval[d], seen[d]) /\ SoundLocks(d, r, lock)
        /\ SoundPast(r, touched[d])
    BY <1>1, <1>3 DEF LedgerFits, SoundApproval, SoundLocks, SoundPast
  <1>7. Ledger' /\ dep'[d] = r /\ \A e \in Deployments \ {d} : dep'[e] = dep[e]
    BY <1>2, <1>5, <1>6, OnlyRowStep
  <1>8. Turns(d, {}) BY <1>3, <1>4, <1>7 DEF Turns
  <1> QED BY <1>7, <1>8, SameRowTurns

\* Swept locks are the locks of deployments with a lease, and some others.
LEMMA SweptLocks ==
    ASSUME Ledger
    PROVE  /\ SweptLock \in [Hosts -> Deployments \cup {Nobody}]
           /\ \A h \in Hosts : \A e \in Deployments :
                 lock[h] = e /\ dep[e].live => SweptLock[h] = e
  BY DEF SweptLock, Stale, Ledger, LedgerTypes

\* claim: the row it takes was waiting after the sweep, on hosts nobody else works on.
LEMMA ClaimStep ==
    ASSUME Ledger, NEW p \in Deployers, NEW d \in SshBacked \cup {Nobody},
           ClaimRow(p, SshBacked, d), UNCHANGED <<seen, touched>>
    PROVE  /\ Ledger'
           /\ target' = target
           /\ \A e \in Deployments : Turns(e, {p}) /\ Stays(e)
           /\ d # Nobody => dep'[d].live /\ dep'[d].deployer = p /\ touched[d] = {}
  <1> DEFINE table == [e \in Deployments |-> Swept(e)]
             free == {e \in Claimable(p, SshBacked, table) : HostsFree(e, table)}
             bad == {e \in free : table[e].status = "queued" /\ ~ApprovalHolds(e, table[e])}
             takes == d # Nobody /\ table[d].phase = "apply"
  <1>1. PICK closed \in SUBSET bad :
          /\ IF d = Nobody THEN free = bad /\ closed = bad ELSE d \in free \ bad
          /\ dep' = [e \in Deployments |->
                       IF e \in closed THEN Closed(table[e], "needs_attention")
                       ELSE IF e = d THEN Claimed(p, table[e]) ELSE table[e]]
          /\ IF d # Nobody /\ table[d].phase = "apply"
             THEN /\ lock' = [h \in Hosts |-> IF h \in TargetHosts(d) THEN d ELSE SweptLock[h]]
                  /\ approval' = [approval EXCEPT ![d].consumed = TRUE]
             ELSE lock' = SweptLock /\ UNCHANGED approval
          /\ UNCHANGED target
    BY DEF ClaimRow
  <1>2. \A e \in Deployments : table[e] = Swept(e) OBVIOUS
  <1>3. ASSUME NEW e \in Deployments
        PROVE  /\ SoundRow(e, Swept(e)) /\ SoundPast(Swept(e), touched[e])
               /\ Swept(e) \in RowType(e)
               /\ Swept(e).preview = dep[e].preview
               /\ dep[e].live => Swept(e) = dep[e]
               /\ ~dep[e].live => ~Swept(e).live
               /\ dep[e].status \in Terminal => Swept(e) = dep[e]
               /\ Swept(e).status = "queued" => Swept(e) = dep[e]
    <2>1. SoundRow(e, dep[e]) /\ SoundPast(dep[e], touched[e]) BY DEF Ledger, LedgerFits
    <2> QED BY <2>1, SweptRow DEF SoundRow
  <1>4. \A e \in Claimable(p, SshBacked, table) :
          /\ e \in SshBacked /\ e \in Deployments
          /\ Swept(e).status \in {"preflight_queued", "queued"}
    BY <1>2 DEF Claimable, SshBacked
  <1>5. \A e \in closed : e \in Deployments /\ Swept(e).status = "queued"
    BY <1>2, <1>4
  <1>6. ASSUME d # Nobody
        PROVE  /\ d \in Deployments /\ d \notin closed
               /\ Swept(d).status \in {"preflight_queued", "queued"}
               /\ HostsFree(d, table)
    <2>1. d \in free \ bad BY <1>1, <1>6
    <2>2. d \in Claimable(p, SshBacked, table) /\ HostsFree(d, table) BY <2>1
    <2> QED BY <1>4, <2>1, <2>2
  <1>7. \A e \in Deployments :
          dep'[e] = IF e \in closed THEN Closed(Swept(e), "needs_attention")
                    ELSE IF e = d THEN Claimed(p, Swept(e)) ELSE Swept(e)
    BY <1>1, <1>2
  <1> HIDE DEF free, bad
  <1>8. \A e \in Deployments : Swept(e).status \in {"preflight_queued", "queued"} =>
          ~dep[e].live /\ ~Swept(e).live /\ touched[e] = {} /\ dep[e].status \notin Terminal
    <2> SUFFICES ASSUME NEW e \in Deployments, Swept(e).status \in {"preflight_queued", "queued"}
                 PROVE  /\ ~dep[e].live /\ ~Swept(e).live /\ touched[e] = {}
                        /\ dep[e].status \notin Terminal
      OBVIOUS
    <2>1. Swept(e).status \notin Running \cup {"cancelling"} BY DEF Running
    <2>2. Swept(e).status \in Waiting /\ Swept(e).status \notin Terminal BY DEF Waiting, Terminal
    <2> QED BY <1>3, <2>1, <2>2 DEF SoundRow, SoundPast
  <1>9. ASSUME NEW e \in closed
        PROVE  /\ SoundRow(e, dep'[e]) /\ ~dep'[e].live /\ dep'[e].status = "needs_attention"
               /\ dep'[e].preview = dep[e].preview
    <2>1. "needs_attention" \in Terminal BY DEF Terminal
    <2>2. e \in Deployments /\ Swept(e).status \in {"preflight_queued", "queued"} BY <1>5
    <2>3. ~Swept(e).live /\ Swept(e) \in RowType(e) /\ Swept(e).preview = dep[e].preview
      BY <1>3, <1>8, <2>2
    <2>4. dep'[e] = Closed(Swept(e), "needs_attention") BY <1>7, <2>2
    <2>5. /\ dep'[e] \in RowType(e) /\ dep'[e].status = "needs_attention"
          /\ dep'[e].phase = "complete" /\ dep'[e].live = Swept(e).live
          /\ dep'[e].preview = Swept(e).preview
      BY <2>1, <2>2, <2>3, <2>4, ClosedRow
    <2> QED BY <2>3, <2>5 DEF SoundRow
  <1>10. ASSUME d # Nobody
         PROVE  /\ SoundRow(d, dep'[d]) /\ dep'[d].live /\ dep'[d].deployer = p
                /\ dep'[d].status \in Running /\ dep'[d].phase = Swept(d).phase
                /\ dep'[d].preview = dep[d].preview /\ touched[d] = {} /\ ~dep[d].live
    <2>1. d \in Deployments /\ d \notin closed BY <1>6, <1>10
    <2>2. dep'[d] = Claimed(p, Swept(d)) BY <1>7, <2>1
    <2>3. Swept(d).status \in {"preflight_queued", "queued"} BY <1>6, <1>10
    <2>4. SoundRow(d, Swept(d)) /\ Swept(d) \in RowType(d) /\ Swept(d).preview = dep[d].preview
      BY <1>3, <2>1
    <2>5. /\ dep'[d] \in RowType(d) /\ dep'[d].status \in Running
          /\ dep'[d].deployer = p /\ dep'[d].live
          /\ dep'[d].phase = Swept(d).phase /\ dep'[d].preview = Swept(d).preview
      BY <2>1, <2>2, <2>3, <2>4, ClaimedRow
    <2>6. p # Nobody BY DeploymentsAssumption
    <2>7. Swept(d).phase # "complete"
      <3>1. CASE Swept(d).status = "preflight_queued" BY <2>4, <3>1 DEF SoundRow
      <3>2. CASE Swept(d).status = "queued" BY <2>4, <3>2 DEF SoundRow
      <3> QED BY <2>3, <3>1, <3>2
    <2>8. dep'[d].status \notin {"absent", "preflight_queued", "awaiting_approval", "queued"}
      BY <2>5 DEF Running
    <2>9. dep'[d].phase = "apply" => dep'[d].preview \in [DOMAIN Order[d] -> Closures]
      BY <2>4, <2>5 DEF SoundRow
    <2>10. SoundRow(d, dep'[d]) BY <2>5, <2>6, <2>7, <2>8, <2>9 DEF SoundRow
    <2> QED BY <1>8, <2>1, <2>3, <2>4, <2>5, <2>10
  <1>11. \A e \in Deployments : e \notin closed /\ e # d => dep'[e] = Swept(e)
    BY <1>7
  <1>12. ASSUME NEW e \in Deployments
         PROVE  /\ SoundRow(e, dep'[e]) /\ SoundPast(dep'[e], touched[e])
                /\ Turns(e, {p}) /\ Stays(e)
                /\ dep[e].live => dep'[e] = dep[e]
    <2>1. CASE e \in closed
      <3>1. "needs_attention" \notin Waiting \cup {"absent"} BY DEF Waiting
      <3>2. ~dep[e].live /\ dep[e].status \notin Terminal /\ touched[e] = {}
        BY <1>5, <1>8, <2>1
      <3> QED BY <1>9, <2>1, <3>1, <3>2 DEF SoundPast, Turns, Stays
    <2>2. CASE e = d
      <3>1. d # Nobody BY <2>2, DeploymentsAssumption
      <3>2. dep[d].status \notin Terminal BY <1>6, <1>8, <3>1
      <3> QED BY <1>10, <2>2, <3>1, <3>2 DEF SoundPast, Turns, Stays
    <2>3. CASE e \notin closed /\ e # d
      <3>1. dep'[e] = Swept(e) BY <1>11, <2>3
      <3> QED BY <1>3, <3>1 DEF Turns, Stays, SameHold
    <2> QED BY <2>1, <2>2, <2>3
  <1>13. /\ DOMAIN approval' = Deployments
         /\ \A e \in Deployments : approval'[e] \in ApprovalType(e)
         /\ \A e \in Deployments \ {d} : approval'[e] = approval[e]
         /\ takes => approval'[d].consumed /\ approval'[d].version = approval[d].version
         /\ ~takes => approval' = approval
    <2>1. DOMAIN approval = Deployments /\ \A e \in Deployments : approval[e] \in ApprovalType(e)
      BY DEF Ledger, LedgerTypes
    <2>2. CASE takes
      <3> DEFINE a == [approval[d] EXCEPT !.consumed = TRUE]
      <3>1. approval' = [approval EXCEPT ![d] = a] BY <1>1, <2>2
      <3>2. d \in Deployments BY <1>6, <2>2
      <3>3. a \in ApprovalType(d) /\ a.consumed /\ a.version = approval[d].version
        BY <2>1, <3>2 DEF ApprovalType
      <3> HIDE DEF a, takes
      <3> QED BY <2>1, <2>2, <3>1, <3>2, <3>3
    <2>3. CASE ~takes
      <3>1. approval' = approval BY <1>1, <2>3
      <3> HIDE DEF takes
      <3> QED BY <2>1, <2>3, <3>1
    <2> QED BY <2>2, <2>3
  <1>14. /\ lock' \in [Hosts -> Deployments \cup {Nobody}]
         /\ takes => \A h \in TargetHosts(d) : lock'[h] = d
         /\ \A h \in Hosts : \A e \in Deployments \ {d} :
               lock[h] = e /\ dep[e].live => lock'[h] = e
    <2>1. /\ SweptLock \in [Hosts -> Deployments \cup {Nobody}]
          /\ \A h \in Hosts : \A e \in Deployments :
                lock[h] = e /\ dep[e].live => SweptLock[h] = e
      BY SweptLocks
    <2>2. CASE takes
      <3>1. d \in Deployments /\ HostsFree(d, table) /\ TargetHosts(d) \subseteq Hosts
        BY <1>6, <2>2, OrderFacts
      <3>2. lock' = [h \in Hosts |-> IF h \in TargetHosts(d) THEN d ELSE SweptLock[h]]
        BY <1>1, <2>2
      <3>3. \A h \in TargetHosts(d) :
              SweptLock[h] \in {Nobody, d} \/ ~table[SweptLock[h]].live
        BY <2>2, <3>1 DEF HostsFree
      <3>4. ASSUME NEW h \in Hosts, NEW e \in Deployments \ {d}, lock[h] = e, dep[e].live
            PROVE  lock'[h] = e
        <4>1. SweptLock[h] = e BY <2>1, <3>4
        <4>2. table[e].live BY <1>2, <1>3, <3>4
        <4>3. e # Nobody BY DeploymentsAssumption
        <4>4. h \notin TargetHosts(d) BY <3>3, <4>1, <4>2, <4>3
        <4> QED BY <3>2, <4>1, <4>4
      <3>5. lock' \in [Hosts -> Deployments \cup {Nobody}] BY <2>1, <3>1, <3>2
      <3>6. \A h \in TargetHosts(d) : lock'[h] = d BY <3>1, <3>2
      <3> QED BY <3>4, <3>5, <3>6
    <2>3. CASE ~takes
      <3>1. lock' = SweptLock BY <1>1, <2>3
      <3> HIDE DEF takes
      <3> QED BY <2>1, <2>3, <3>1
    <2> QED BY <2>2, <2>3
  <1>15. ASSUME NEW e \in Deployments, e # d
         PROVE  SoundApproval(dep'[e], approval'[e], seen[e]) /\ SoundLocks(e, dep'[e], lock')
    <2>1. SoundApproval(dep[e], approval[e], seen[e]) /\ SoundLocks(e, dep[e], lock)
      BY DEF Ledger, LedgerFits
    <2>2. approval'[e] = approval[e] BY <1>13, <1>15
    <2>3. dep'[e].live => dep[e].live /\ dep'[e] = dep[e]
      <3>1. CASE e \in closed BY <1>9, <3>1
      <3>2. CASE e \notin closed BY <1>3, <1>11, <1>15, <3>2
      <3> QED BY <3>1, <3>2
    <2>4. dep'[e].status = "queued" => dep'[e] = dep[e]
      <3>1. CASE e \in closed BY <1>9, <3>1
      <3>2. CASE e \notin closed BY <1>3, <1>11, <1>15, <3>2
      <3> QED BY <3>1, <3>2
    <2>5. SoundApproval(dep'[e], approval'[e], seen[e])
      BY <2>1, <2>2, <2>3, <2>4 DEF SoundApproval
    <2>6. SoundLocks(e, dep'[e], lock')
      <3>1. TargetHosts(e) \subseteq Hosts BY OrderFacts
      <3> QED BY <1>14, <1>15, <2>1, <2>3, <3>1 DEF SoundLocks
    <2> QED BY <2>5, <2>6
  <1>16. ASSUME d # Nobody
         PROVE  SoundApproval(dep'[d], approval'[d], seen[d]) /\ SoundLocks(d, dep'[d], lock')
    <2>1. d \in Deployments /\ table[d] = Swept(d) BY <1>2, <1>6, <1>16
    <2>2. dep'[d].phase = "apply" => takes BY <1>10, <1>16, <2>1
    <2>3. Swept(d).phase = "apply" => Swept(d) = dep[d] /\ dep[d].status = "queued"
      <3>1. Swept(d).status = "preflight_queued" => Swept(d).phase = "preflight"
        BY <1>3, <2>1 DEF SoundRow
      <3> QED BY <1>3, <1>6, <1>16, <2>1, <3>1
    <2>4. SoundApproval(dep[d], approval[d], seen[d]) BY <2>1 DEF Ledger, LedgerFits
    <2>5. dep'[d].status # "queued" BY <1>10, <1>16 DEF Running
    <2> HIDE DEF takes
    <2>6. SoundApproval(dep'[d], approval'[d], seen[d])
      BY <1>10, <1>13, <1>16, <2>2, <2>3, <2>4, <2>5 DEF SoundApproval
    <2>7. SoundLocks(d, dep'[d], lock') BY <1>14, <2>2 DEF SoundLocks
    <2> QED BY <2>6, <2>7
  <1>17. DOMAIN dep' = Deployments BY <1>1
  <1>18. target' = target BY <1>1
  <1> HIDE DEF takes, table
  <1>19. ASSUME NEW e \in Deployments PROVE LedgerFits(e)'
    <2>1. SoundApproval(dep'[e], approval'[e], seen[e]) /\ SoundLocks(e, dep'[e], lock')
      <3>1. CASE e = d
        <4>1. d # Nobody BY <3>1, DeploymentsAssumption
        <4> QED BY <1>16, <3>1, <4>1
      <3>2. CASE e # d BY <1>15, <3>2
      <3> QED BY <3>1, <3>2
    <2>2. seen'[e] = seen[e] /\ touched'[e] = touched[e] OBVIOUS
    <2>3. SoundUse(approval'[e], seen'[e], touched'[e])
      <3>1. SoundUse(approval[e], seen[e], touched[e]) BY DEF Ledger, LedgerFits
      <3>2. approval'[e] = approval[e] \/ (e = d /\ d # Nobody)
        BY <1>13, DeploymentsAssumption
      <3> QED BY <1>10, <2>2, <3>1, <3>2 DEF SoundUse
    <2> QED BY <1>12, <2>1, <2>2, <2>3 DEF LedgerFits
  <1>20. LedgerTypes'
    <2>1. /\ DOMAIN target' = Deployments
          /\ \A e \in Deployments : target'[e] \in [TargetHosts(e) -> TargetStatuses]
          /\ seen' \in [Deployments -> Nat] /\ DOMAIN touched' = Deployments
          /\ \A e \in Deployments : touched'[e] \subseteq TargetHosts(e)
      BY <1>18 DEF Ledger, LedgerTypes
    <2> QED BY <1>13, <1>14, <1>17, <2>1 DEF LedgerTypes
  <1>21. Ledger' BY <1>19, <1>20 DEF Ledger
  <1> QED BY <1>10, <1>12, <1>18, <1>21

\* update_target, for a caller that has the lease of d.
LEMMA UpdateStep ==
    ASSUME Ledger, NEW d \in Deployments, NEW h \in TargetHosts(d), NEW s \in TargetStatuses,
           dep[d].live, UpdateTarget(d, h, s), UNCHANGED <<seen, touched>>
    PROVE  /\ Ledger'
           /\ target'[d][h] = s
           /\ \A g \in TargetHosts(d) : g # h => target'[d][g] = target[d][g]
           /\ \A e \in Deployments \ {d} : target'[e] = target[e]
           /\ \A e \in Deployments : Turns(e, {}) /\ Stays(e)
  <1> DEFINE w == IF dep[d].status = "cancelling" THEN dep[d].status
                  ELSE IF s = "verifying" THEN "verifying"
                  ELSE IF s \in {"rollback_pending", "rolling_back"} THEN "rolling_back"
                  ELSE dep[d].status
             r == [dep[d] EXCEPT !.status = w]
             t == [target[d] EXCEPT ![h] = s]
  <1>1. /\ LedgerFits(d) /\ dep[d] \in RowType(d) /\ SoundRow(d, dep[d])
        /\ DOMAIN target = Deployments
        /\ \A e \in Deployments : target[e] \in [TargetHosts(e) -> TargetStatuses]
    BY DEF Ledger, LedgerTypes, LedgerFits, SoundRow
  <1>2. dep[d].status \in Running \cup {"cancelling"} BY <1>1 DEF SoundRow
  <1>3. w \in Running \cup {"cancelling"}
    <2>1. CASE dep[d].status = "cancelling" BY <2>1
    <2>2. CASE dep[d].status # "cancelling"
      <3>1. w \in {dep[d].status, "verifying", "rolling_back"} OBVIOUS
      <3>2. "verifying" \in Running /\ "rolling_back" \in Running BY DEF Running
      <3> HIDE DEF w
      <3> QED BY <1>2, <3>1, <3>2
    <2> QED BY <2>1, <2>2
  <1>4. dep' = [dep EXCEPT ![d] = r] BY DEF UpdateTarget
  <1>5. target' = [target EXCEPT ![d] = t] BY DEF UpdateTarget
  <1>6. t \in [TargetHosts(d) -> TargetStatuses] /\ t[h] = s
        /\ \A g \in TargetHosts(d) : g # h => t[g] = target[d][g]
    BY <1>1
  <1> HIDE DEF w, t
  <1>7. w \in DeploymentStatuses BY <1>3 DEF DeploymentStatuses
  <1>8. /\ r \in RowType(d) /\ r.status = w /\ r.phase = dep[d].phase
        /\ r.live = dep[d].live /\ r.deployer = dep[d].deployer
        /\ r.fence = dep[d].fence /\ r.preview = dep[d].preview
    BY <1>1, <1>7 DEF RowType
  <1> HIDE DEF r
  <1>9. w \notin Waiting \cup {"absent"} \cup Terminal
    BY <1>3 DEF Running, Waiting, Terminal
  <1>10. w \notin {"absent", "preflight_queued", "awaiting_approval", "queued"}
    BY <1>9 DEF Waiting
  <1>11. SoundRow(d, r) BY <1>1, <1>3, <1>8, <1>10 DEF SoundRow
  <1>12. /\ SoundApproval(r, approval[d], seen[d]) /\ SoundLocks(d, r, lock)
         /\ SoundPast(r, touched[d])
    BY <1>1, <1>8, <1>9, <1>10 DEF LedgerFits, SoundApproval, SoundLocks, SoundPast
  <1>13. UNCHANGED <<lock, approval>> BY DEF UpdateTarget
  <1>14. /\ DOMAIN target' = Deployments /\ target'[d] = t
         /\ \A e \in Deployments \ {d} : target'[e] = target[e]
    BY <1>1, <1>5
  <1>15. \A e \in Deployments : target'[e] \in [TargetHosts(e) -> TargetStatuses]
    BY <1>1, <1>6, <1>14
  <1>16. /\ lock' \in [Hosts -> Deployments \cup {Nobody}]
         /\ \A g \in Hosts : lock[g] = d \/ lock'[g] = lock[g]
         /\ DOMAIN approval' = Deployments /\ approval'[d] \in ApprovalType(d)
         /\ \A e \in Deployments \ {d} : approval'[e] = approval[e]
         /\ seen' = seen /\ touched' = touched
    BY <1>13 DEF Ledger, LedgerTypes
  <1>17. /\ SoundApproval(r, approval'[d], seen[d]) /\ SoundLocks(d, r, lock')
         /\ SoundUse(approval'[d], seen[d], touched[d])
    BY <1>1, <1>12, <1>13 DEF LedgerFits
  <1>18. Ledger' /\ dep'[d] = r /\ \A e \in Deployments \ {d} : dep'[e] = dep[e]
    BY <1>4, <1>11, <1>12, <1>14, <1>15, <1>16, <1>17, RowStep
  <1>19. dep[d].status \notin Terminal BY <1>2 DEF Running, Terminal
  <1>20. Turns(d, {}) /\ Stays(d) BY <1>8, <1>18, <1>19 DEF Turns, Stays, SameHold
  <1> QED BY <1>6, <1>14, <1>18, <1>20, SameRowTurns

LEMMA ApplyStatusEnds ==
    ASSUME NEW d \in Deployments, NEW ok \in BOOLEAN
    PROVE  ApplyStatus(d, ok) \in Terminal
  BY DEF ApplyStatus, Terminal

\* complete_phase, for a caller that has the lease of d and, when it reports a
\* preflight well done, the closure of every host.
LEMMA CompleteStep ==
    ASSUME Ledger, NEW d \in Deployments, NEW ok \in BOOLEAN, NEW x,
           dep[d].live, ok /\ dep[d].phase = "preflight" => x \in [DOMAIN Order[d] -> Closures],
           CompletePhase(d, ok, x), UNCHANGED <<seen, touched>>
    PROVE  /\ Ledger'
           /\ target' = target
           /\ \A e \in Deployments : Turns(e, {})
           /\ ~dep'[d].live
           /\ \A e \in Deployments \ {d} : dep'[e] = dep[e]
  <1> DEFINE q == Released(dep[d])
             n == q.version + 1
             b == [q EXCEPT !.status = "awaiting_approval", !.phase = "apply",
                            !.preview = x, !.version = n]
             z == "awaiting_approval"
             y == "apply"
             r == IF q.phase = "apply" THEN Closed(q, ApplyStatus(d, ok))
                  ELSE IF q.cancel THEN Closed(q, "cancelled")
                  ELSE IF ~ok \/ ~PreflightComplete(d) THEN Closed(q, "failed")
                  ELSE b
  <1>1. /\ LedgerFits(d) /\ dep[d] \in RowType(d) /\ SoundRow(d, dep[d])
    BY DEF Ledger, LedgerFits, SoundRow
  <1>2. /\ q \in RowType(d) /\ ~q.live /\ q.phase = dep[d].phase /\ q.preview = dep[d].preview
    BY <1>1, ReleasedRow
  <1>3. dep[d].status \in Running \cup {"cancelling"} /\ dep[d].phase # "complete"
    BY <1>1 DEF SoundRow
  <1>4. dep' = [dep EXCEPT ![d] = r]
    <2>1. q.phase = "apply" \/ q.phase # "apply" OBVIOUS
    <2>2. b = [q EXCEPT !.status = "awaiting_approval", !.phase = "apply",
                           !.preview = x, !.version = @ + 1]
      BY <1>2 DEF RowType
    <2> HIDE DEF q, b
    <2> QED BY <2>2 DEF CompletePhase, q
  <1>5. lock' = Unlocked(d) /\ UNCHANGED <<target, approval, seen, touched>>
    BY DEF CompletePhase
  <1>6. ASSUME NEW s \in Terminal, r = Closed(q, s)
        PROVE  /\ SoundRow(d, r) /\ ~r.live /\ r.status # "queued" /\ SoundPast(r, touched[d])
               /\ r.preview = dep[d].preview
    <2> HIDE DEF r, q
    <2>1. /\ r \in RowType(d) /\ r.status = s /\ r.phase = "complete"
          /\ ~r.live /\ r.preview = q.preview
      BY <1>2, <1>6, ClosedRow
    <2>2. s \notin Waiting \cup {"absent"} BY DEF Waiting, Terminal
    <2>3. s \notin {"absent", "preflight_queued", "awaiting_approval", "queued"}
      BY <2>2 DEF Waiting
    <2> QED BY <1>2, <2>1, <2>2, <2>3 DEF SoundRow, SoundPast
  <1>7. ASSUME r = b, q.phase # "apply", ok
        PROVE  /\ SoundRow(d, r) /\ ~r.live /\ r.status # "queued" /\ SoundPast(r, touched[d])
               /\ dep[d].phase = "preflight"
    <2>1. dep[d].phase = "preflight" BY <1>1, <1>2, <1>3, <1>7 DEF RowType, Phases
    <2>2. x \in [DOMAIN Order[d] -> Closures] /\ x \in Evidence(d) BY <1>7, <2>1 DEF Evidence
    <2>3. "awaiting_approval" \in DeploymentStatuses /\ "apply" \in Phases
      BY DEF DeploymentStatuses, Waiting, Phases
    <2>4. n \in Nat BY <1>2 DEF RowType
    <2>5. touched[d] = {} BY <1>1, <2>1 DEF LedgerFits, SoundPast
    <2>6. b = [q EXCEPT !.status = z, !.phase = y, !.preview = x, !.version = n] OBVIOUS
    <2>7. z \in DeploymentStatuses /\ y \in Phases BY <2>3
    <2> HIDE DEF q, n, z, y, b
    <2>8. b \in RowType(d) BY <1>2, <2>2, <2>4, <2>6, <2>7 DEF RowType
    <2>9. b.status = z /\ b.phase = y /\ ~b.live /\ b.preview = x
      BY <1>2, <2>6 DEF RowType
    <2>10. z = "awaiting_approval" /\ y = "apply" BY DEF z, y
    <2> HIDE DEF r
    <2> QED BY <1>7, <2>1, <2>2, <2>5, <2>8, <2>9, <2>10 DEF SoundRow, SoundPast
  <1>8. /\ SoundRow(d, r) /\ ~r.live /\ r.status # "queued" /\ SoundPast(r, touched[d])
        /\ r.preview = dep[d].preview \/ dep[d].phase = "preflight"
    <2>1. ApplyStatus(d, ok) \in Terminal BY ApplyStatusEnds
    <2>2. "cancelled" \in Terminal /\ "failed" \in Terminal BY DEF Terminal
    <2>3. \/ r = Closed(q, ApplyStatus(d, ok)) \/ r = Closed(q, "cancelled")
          \/ r = Closed(q, "failed") \/ (r = b /\ q.phase # "apply" /\ ok)
      OBVIOUS
    <2> HIDE DEF q, b, r
    <2>4. CASE r = Closed(q, ApplyStatus(d, ok)) BY <1>6, <2>1, <2>4
    <2>5. CASE r = Closed(q, "cancelled") BY <1>6, <2>2, <2>5
    <2>6. CASE r = Closed(q, "failed") BY <1>6, <2>2, <2>6
    <2>7. CASE r = b /\ q.phase # "apply" /\ ok BY <1>7, <2>7
    <2> QED BY <2>3, <2>4, <2>5, <2>6, <2>7
  <1> HIDE DEF r
  <1>9. Ledger' /\ dep'[d] = r /\ \A e \in Deployments \ {d} : dep'[e] = dep[e]
    BY <1>4, <1>5, <1>8, EndStep
  <1>10. dep[d].status \notin Terminal BY <1>3 DEF Running, Terminal
  <1>11. Turns(d, {}) BY <1>8, <1>9, <1>10 DEF Turns
  <1>12. \A e \in Deployments : Turns(e, {}) BY <1>9, <1>11, SameRowTurns
  <1>13. target' = target BY <1>5
  <1> QED BY <1>8, <1>9, <1>12, <1>13

\* A look at a row that waits.
LEMMA LookStep ==
    ASSUME Ledger, NEW d \in Deployments,
           dep[d].status \in {"preflight_queued", "awaiting_approval"},
           seen' = [seen EXCEPT ![d] = dep[d].version], UNCHANGED <<storeVars, touched>>
    PROVE  Ledger' /\ \A e \in Deployments : Turns(e, {}) /\ Stays(e)
  <1>1. UNCHANGED <<dep, target, lock, approval>> BY DEF storeVars
  <1>2. SoundRow(d, dep[d]) BY DEF Ledger, LedgerFits
  <1>3. dep[d].version \in Nat /\ ~dep[d].live /\ dep[d].status # "queued"
    <2>1. dep[d].status \notin Running \cup {"cancelling"} BY DEF Running
    <2>2. dep[d] \in RowType(d) BY <1>2 DEF SoundRow
    <2>3. dep[d].version \in Nat BY <2>2 DEF RowType
    <2> QED BY <1>2, <2>1, <2>3 DEF SoundRow
  <1>4. LedgerTypes' BY <1>1, <1>3 DEF Ledger, LedgerTypes
  <1>5. ASSUME NEW e \in Deployments PROVE LedgerFits(e)'
    <2>1. LedgerFits(e) BY DEF Ledger
    <2>2. CASE e = d
      <3>1. SoundApproval(dep'[d], approval'[d], seen'[d]) BY <1>1, <1>3 DEF SoundApproval
      <3>2. touched[d] = {} BY <2>1, <2>2 DEF LedgerFits, SoundPast, Waiting
      <3>3. SoundUse(approval'[d], seen'[d], touched'[d]) BY <3>2 DEF SoundUse
      <3> QED BY <1>1, <2>1, <2>2, <3>1, <3>3 DEF LedgerFits
    <2>3. CASE e # d
      <3>1. seen'[e] = seen[e] BY <2>3 DEF Ledger, LedgerTypes
      <3> QED BY <1>1, <2>1, <3>1 DEF LedgerFits
    <2> QED BY <2>2, <2>3
  <1> QED BY <1>1, <1>4, <1>5, SameRowTurns DEF Ledger

\* The start of an activation by who has the lease of an apply.
LEMMA TouchStep ==
    ASSUME Ledger, NEW d \in Deployments, NEW h \in TargetHosts(d),
           dep[d].live, dep[d].phase = "apply",
           touched' = [touched EXCEPT ![d] = @ \cup {h}], UNCHANGED <<storeVars, seen>>
    PROVE  Ledger' /\ \A e \in Deployments : Turns(e, {}) /\ Stays(e)
  <1>1. UNCHANGED <<dep, target, lock, approval>> BY DEF storeVars
  <1>2. SoundRow(d, dep[d]) BY DEF Ledger, LedgerFits
  <1>3. /\ DOMAIN touched' = Deployments /\ touched'[d] = touched[d] \cup {h}
        /\ \A e \in Deployments \ {d} : touched'[e] = touched[e]
    BY DEF Ledger, LedgerTypes
  <1>4. \A e \in Deployments : touched'[e] \subseteq TargetHosts(e)
    BY <1>3 DEF Ledger, LedgerTypes
  <1>5. LedgerTypes' BY <1>1, <1>3, <1>4 DEF Ledger, LedgerTypes
  <1>6. ASSUME NEW e \in Deployments PROVE LedgerFits(e)'
    <2>1. LedgerFits(e) BY DEF Ledger
    <2>2. CASE e = d
      <3>1. dep[d].status \notin Waiting \cup {"absent"} BY <1>2 DEF SoundRow, Running, Waiting
      <3>2. SoundPast(dep'[d], touched'[d]) BY <1>1, <3>1 DEF SoundPast
      <3>3. SoundUse(approval'[d], seen'[d], touched'[d])
        BY <1>1, <2>1, <2>2 DEF LedgerFits, SoundApproval, SoundUse
      <3> QED BY <1>1, <2>1, <2>2, <3>2, <3>3 DEF LedgerFits
    <2>3. CASE e # d BY <1>1, <1>3, <2>1, <2>3 DEF LedgerFits
    <2> QED BY <2>2, <2>3
  <1> QED BY <1>1, <1>5, <1>6, SameRowTurns DEF Ledger

-----------------------------------------------------------------------------
(* What the rows say of the hosts.                                         *)

\* What may be written in the row of g by someone who knows the host.
MayTell(d, g, s) ==
    /\ s \in Untouching => g \notin touched[d]
    /\ s \in {"succeeded", "rolled_back"} => ~LeftOn(d, g)
    /\ s = "succeeded" => host[g] = d \/ Strayed(d, g)
    /\ s = "rolled_back" => g \in touched[d] /\ (host[g] = Before(d, g) \/ Strayed(d, g))

\* A host with a switch of another deployment left behind may run anything.
LEMMA StrayedReplaced ==
    ASSUME Truth, NEW d, NEW h, Strayed(d, h)
    PROVE  \E e \in Deployments \ {d} : h \in touched[e] /\ LeftOn(e, h)
  <1>1. PICK e \in Deployments \ {d} : LeftOn(e, h) BY DEF Strayed
  <1>2. PICK s \in adrift : s.dep = e /\ s.host = h BY <1>1 DEF LeftOn
  <1>3. h \in touched[e] BY <1>2 DEF Truth, DriftFits
  <1> QED BY <1>1, <1>3

\* A call changes no host: the rows stay true when what is told is.
LEMMA TruthOfCalls ==
    ASSUME Ledger, Truth, NEW S, UNCHANGED <<host, touched, adrift>>,
           \A d \in Deployments : Turns(d, S),
           \A d \in Deployments : \A g \in TargetHosts(d) :
              target'[d][g] = target[d][g] \/ MayTell(d, g, target'[d][g])
    PROVE  Truth'
  <1>1. ASSUME NEW d \in Deployments, touched[d] # {}
        PROVE  /\ dep'[d].preview = dep[d].preview
               /\ ~dep[d].live => ~dep'[d].live
    <2>1. dep[d].phase # "preflight" BY <1>1 DEF Ledger, LedgerFits, SoundPast
    <2>2. Turns(d, S) OBVIOUS
    <2> QED BY <1>1, <2>1, <2>2 DEF Turns
  <1>2. ASSUME NEW d \in Deployments, NEW h, h \in touched[d]
        PROVE  Before(d, h)' = Before(d, h)
    BY <1>1, <1>2 DEF Before
  <1>3. \A d \in Deployments : \A h : LeftOn(d, h)' <=> LeftOn(d, h) BY DEF LeftOn
  <1>4. \A d \in Deployments : \A h, c : RunsOrReplaced(d, h, c) => RunsOrReplaced(d, h, c)'
    <2> SUFFICES ASSUME NEW d \in Deployments, NEW h, NEW c, RunsOrReplaced(d, h, c)
                 PROVE  RunsOrReplaced(d, h, c)'
      OBVIOUS
    <2>1. CASE host[h] = c BY <2>1 DEF RunsOrReplaced
    <2>2. CASE \E e \in Deployments \ {d} : h \in touched[e] /\ (Before(e, h) = c \/ LeftOn(e, h))
      <3>1. PICK e \in Deployments \ {d} : h \in touched[e] /\ (Before(e, h) = c \/ LeftOn(e, h))
        BY <2>2
      <3>2. h \in touched'[e] /\ (Before(e, h)' = c \/ LeftOn(e, h)') BY <1>2, <1>3, <3>1
      <3> QED BY <3>2 DEF RunsOrReplaced
    <2> QED BY <2>1, <2>2 DEF RunsOrReplaced
  <1>5. host' \in [Hosts -> Closures] /\ \A h \in Hosts : HostFits(h)'
    BY DEF Truth, HostFits
  <1>6. ASSUME NEW d \in Deployments PROVE Supersedes(d)'
    <2> SUFFICES ASSUME NEW h \in touched'[d], Before(d, h)' \in Deployments \ {d}
                 PROVE  h \in touched'[Before(d, h)'] /\ ~dep'[Before(d, h)'].live
      BY DEF Supersedes
    <2>1. h \in touched[d] /\ Before(d, h)' = Before(d, h) BY <1>2
    <2>2. PICK e : e = Before(d, h) OBVIOUS
    <2>3. e \in Deployments \ {d} /\ Supersedes(d) BY <2>1, <2>2 DEF Truth
    <2>4. h \in touched[e] /\ ~dep[e].live BY <2>1, <2>2, <2>3 DEF Supersedes
    <2>5. ~dep'[e].live BY <1>1, <2>3, <2>4
    <2> QED BY <2>1, <2>2, <2>4, <2>5
  <1>7. ASSUME NEW d \in Deployments, NEW g \in TargetHosts(d) PROVE RowTruth(d, g)'
    <2>1. RowTruth(d, g) BY DEF Truth
    <2>2. CASE target'[d][g] = target[d][g]
      <3>1. target'[d][g] \in Untouching => g \notin touched'[d] BY <2>1, <2>2 DEF RowTruth
      <3>2. target'[d][g] = "succeeded" => RunsOrReplaced(d, g, d)'
        BY <1>4, <2>1, <2>2 DEF RowTruth
      <3>3. ASSUME target'[d][g] = "rolled_back"
            PROVE  g \in touched'[d] /\ RunsOrReplaced(d, g, Before(d, g))'
        <4>1. PICK c : c = Before(d, g) OBVIOUS
        <4>2. g \in touched[d] /\ RunsOrReplaced(d, g, c) BY <2>1, <2>2, <3>3, <4>1 DEF RowTruth
        <4>3. Before(d, g)' = c BY <1>2, <4>1, <4>2
        <4>4. RunsOrReplaced(d, g, c)' BY <1>4, <4>2
        <4>5. host'[g] = c \/ \E e \in Deployments \ {d} :
                 g \in touched'[e] /\ (Before(e, g)' = c \/ LeftOn(e, g)')
          BY <4>4 DEF RunsOrReplaced
        <4> QED BY <4>2, <4>3, <4>5 DEF RunsOrReplaced
      <3>4. target'[d][g] \in {"succeeded", "rolled_back"} => ~LeftOn(d, g)'
        BY <1>3, <2>1, <2>2 DEF RowTruth
      <3> QED BY <3>1, <3>2, <3>3, <3>4 DEF RowTruth
    <2>3. CASE MayTell(d, g, target'[d][g])
      <3>1. target'[d][g] \in Untouching => g \notin touched'[d] BY <2>3 DEF MayTell
      <3>2. Strayed(d, g) =>
              \E e \in Deployments \ {d} : g \in touched'[e] /\ LeftOn(e, g)'
        BY <1>3, StrayedReplaced
      <3>3. target'[d][g] = "succeeded" => RunsOrReplaced(d, g, d)'
        BY <2>3, <3>2 DEF MayTell, RunsOrReplaced
      <3>4. ASSUME target'[d][g] = "rolled_back"
            PROVE  g \in touched'[d] /\ RunsOrReplaced(d, g, Before(d, g))'
        <4>1. g \in touched[d] /\ (host[g] = Before(d, g) \/ Strayed(d, g))
          BY <2>3, <3>4 DEF MayTell
        <4>2. host[g] = Before(d, g) => host'[g] = Before(d, g)' BY <1>2, <4>1
        <4> QED BY <3>2, <4>1, <4>2 DEF RunsOrReplaced
      <3>5. target'[d][g] \in {"succeeded", "rolled_back"} => ~LeftOn(d, g)'
        BY <1>3, <2>3 DEF MayTell
      <3> QED BY <3>1, <3>3, <3>4, <3>5 DEF RowTruth
    <2> QED BY <2>2, <2>3
  <1>8. ASSUME NEW s \in adrift' PROVE DriftFits(s)'
    <2>1. DriftFits(s) BY DEF Truth
    <2>2. s.host \in touched[s.dep] /\ s.dep \in Deployments BY <2>1 DEF DriftFits
    <2>3. Before(s.dep, s.host)' = Before(s.dep, s.host) BY <1>2, <2>2
    <2> QED BY <2>1, <2>3 DEF DriftFits
  <1> QED BY <1>5, <1>6, <1>7, <1>8 DEF Truth

\* Two deployments with a lease never work on one host.
LEMMA OneAtWork ==
    ASSUME Ledger, NEW d \in Deployments, NEW h \in TargetHosts(d),
           dep[d].live, dep[d].phase = "apply",
           NEW e \in Deployments \ {d}, h \in touched[e]
    PROVE  ~dep[e].live
  <1>1. SUFFICES ASSUME dep[e].live PROVE FALSE OBVIOUS
  <1>2. LedgerFits(d) /\ LedgerFits(e) BY DEF Ledger
  <1>3. dep[e].phase # "preflight" /\ dep[e].phase # "complete" /\ dep[e] \in RowType(e)
    BY <1>1, <1>2 DEF LedgerFits, SoundPast, SoundRow
  <1>4. dep[e].phase = "apply" BY <1>3 DEF RowType, Phases
  <1>5. h \in TargetHosts(e) BY DEF Ledger, LedgerTypes
  <1>6. lock[h] = e BY <1>1, <1>2, <1>4, <1>5 DEF LedgerFits, SoundLocks
  <1>7. lock[h] = d BY <1>2 DEF LedgerFits, SoundLocks
  <1> QED BY <1>6, <1>7

\* The start of an activation on a host where the preview shows what ran there once.
LEMMA TruthOfTouch ==
    ASSUME Ledger, Truth, NEW d \in Deployments, NEW h \in TargetHosts(d),
           dep[d].live, dep[d].phase = "apply", target[d][h] = "deploying",
           Before(d, h) \in Deployments => h \in touched[Before(d, h)],
           touched' = [touched EXCEPT ![d] = @ \cup {h}], UNCHANGED <<dep, target, host, adrift>>
    PROVE  Truth'
  <1>1. /\ touched'[d] = touched[d] \cup {h}
        /\ \A e \in Deployments \ {d} : touched'[e] = touched[e]
        /\ \A e \in Deployments : touched[e] \subseteq touched'[e]
    BY DEF Ledger, LedgerTypes
  <1>2. \A e, g : Before(e, g)' = Before(e, g) BY DEF Before
  <1>3. h \in Hosts BY OrderFacts
  <1>4. \A e \in Deployments : \A g : LeftOn(e, g)' <=> LeftOn(e, g) BY DEF LeftOn
  <1>5. \A e \in Deployments : \A g, c : RunsOrReplaced(e, g, c) => RunsOrReplaced(e, g, c)'
    BY <1>1, <1>2, <1>4 DEF RunsOrReplaced
  <1>6. host' \in [Hosts -> Closures] BY DEF Truth
  <1>7. ASSUME NEW g \in Hosts PROVE HostFits(g)'
    <2>1. HostFits(g) BY DEF Truth
    <2> QED BY <1>1, <2>1 DEF HostFits
  <1>8. ASSUME NEW e \in Deployments PROVE Supersedes(e)'
    <2> SUFFICES ASSUME NEW g \in touched'[e], Before(e, g) \in Deployments \ {e}
                 PROVE  g \in touched'[Before(e, g)] /\ ~dep[Before(e, g)].live
      BY <1>2 DEF Supersedes
    <2>1. CASE g \in touched[e]
      <3>1. g \in touched[Before(e, g)] /\ ~dep[Before(e, g)].live
        BY <2>1 DEF Truth, Supersedes
      <3> QED BY <1>1, <3>1
    <2>2. CASE g \notin touched[e]
      <3>1. e = d /\ g = h BY <1>1, <2>2
      <3>2. h \in touched[Before(d, h)] BY <3>1
      <3>3. ~dep[Before(d, h)].live BY <3>1, <3>2, OneAtWork
      <3> QED BY <1>1, <3>1, <3>2, <3>3
    <2> QED BY <2>1, <2>2
  <1>9. ASSUME NEW e \in Deployments, NEW g \in TargetHosts(e) PROVE RowTruth(e, g)'
    <2>1. RowTruth(e, g) BY DEF Truth
    <2>2. target[e][g] \in Untouching => g \notin touched'[e]
      <3>1. CASE e = d /\ g = h BY <3>1 DEF Untouching
      <3>2. CASE ~(e = d /\ g = h) BY <1>1, <2>1, <3>2 DEF RowTruth
      <3> QED BY <3>1, <3>2
    <2>3. target[e][g] = "succeeded" => RunsOrReplaced(e, g, e)'
      BY <1>5, <2>1 DEF RowTruth
    <2>4. ASSUME target[e][g] = "rolled_back"
          PROVE  g \in touched'[e] /\ RunsOrReplaced(e, g, Before(e, g))'
      <3>1. PICK c : c = Before(e, g) OBVIOUS
      <3>2. g \in touched[e] /\ RunsOrReplaced(e, g, c) BY <2>1, <2>4, <3>1 DEF RowTruth
      <3>3. RunsOrReplaced(e, g, c)' BY <1>5, <3>2
      <3>4. Before(e, g)' = c BY <1>2, <3>1
      <3>5. host'[g] = c \/ \E x \in Deployments \ {e} :
               g \in touched'[x] /\ (Before(x, g)' = c \/ LeftOn(x, g)')
        BY <3>3 DEF RunsOrReplaced
      <3> QED BY <1>1, <3>2, <3>4, <3>5 DEF RunsOrReplaced
    <2>5. target[e][g] \in {"succeeded", "rolled_back"} => ~LeftOn(e, g)'
      BY <1>4, <2>1 DEF RowTruth
    <2> QED BY <2>2, <2>3, <2>4, <2>5 DEF RowTruth
  <1>10. ASSUME NEW s \in adrift' PROVE DriftFits(s)'
    <2>1. DriftFits(s) BY DEF Truth
    <2>2. s.dep \in Deployments BY <2>1 DEF DriftFits
    <2> QED BY <1>1, <1>2, <2>1, <2>2 DEF DriftFits
  <1> QED BY <1>6, <1>7, <1>8, <1>9, <1>10 DEF Truth

\* A row stays true when what it says of its host does.
LEMMA RowStaysTrue ==
    ASSUME Truth, UNCHANGED <<dep, target, touched>>,
           NEW e \in Deployments, NEW g \in TargetHosts(e),
           target[e][g] \in {"succeeded", "rolled_back"} => (LeftOn(e, g)' => LeftOn(e, g)),
           \A x : /\ RunsOrReplaced(e, g, x) /\ ~LeftOn(e, g)
                  /\ target[e][g] \in {"succeeded", "rolled_back"}
                  /\ x = e \/ (x = Before(e, g) /\ g \in touched[e])
                  => RunsOrReplaced(e, g, x)'
    PROVE  RowTruth(e, g)'
  <1>1. RowTruth(e, g) BY DEF Truth
  <1>2. target[e][g] = "succeeded" => RunsOrReplaced(e, g, e)'
    BY <1>1 DEF RowTruth
  <1>3. ASSUME target[e][g] = "rolled_back"
        PROVE  g \in touched[e] /\ RunsOrReplaced(e, g, Before(e, g))'
    <2>1. PICK x : x = Before(e, g) OBVIOUS
    <2>2. g \in touched[e] /\ RunsOrReplaced(e, g, x) /\ ~LeftOn(e, g)
      BY <1>1, <1>3, <2>1 DEF RowTruth
    <2>3. RunsOrReplaced(e, g, x)' BY <1>3, <2>1, <2>2
    <2>4. Before(e, g)' = x BY <2>1 DEF Before
    <2>5. host'[g] = x \/ \E f \in Deployments \ {e} :
             g \in touched'[f] /\ (Before(f, g)' = x \/ LeftOn(f, g)')
      BY <2>3 DEF RunsOrReplaced
    <2> QED BY <2>2, <2>4, <2>5 DEF RunsOrReplaced
  <1>4. target[e][g] \in {"succeeded", "rolled_back"} => ~LeftOn(e, g)' BY <1>1 DEF RowTruth
  <1>5. target'[e][g] = target[e][g] OBVIOUS
  <1> QED BY <1>1, <1>2, <1>3, <1>4, <1>5 DEF RowTruth

\* What a deployment switches a host to, that host has been touched for.
LEMMA WhereItSwitches ==
    ASSUME Ledger, Truth, NEW d \in Deployments, NEW h \in TargetHosts(d), NEW c,
           dep[d].phase = "apply", h \in touched[d], c \in {d, Before(d, h)}
    PROVE  h \in Hosts /\ c \in Closures /\ (c \in Deployments => h \in touched[c])
  <1>1. h \in Hosts BY OrderFacts
  <1>2. c \in Closures
    <2>1. dep[d].preview \in [DOMAIN Order[d] -> Closures]
      BY DEF Ledger, LedgerFits, SoundRow
    <2>2. PICK i \in DOMAIN Order[d] : Order[d][i] = h BY OrderFacts
    <2>3. Pos(d, h) = i BY <2>2, OrderFacts
    <2>4. Before(d, h) \in Closures BY <2>1, <2>3 DEF Before
    <2> QED BY <2>4 DEF Closures
  <1>3. ASSUME c \in Deployments PROVE h \in touched[c]
    <2>1. CASE c = d BY <2>1
    <2>2. CASE c # d
      <3>1. Supersedes(d) /\ c = Before(d, h) BY <2>2 DEF Truth
      <3> QED BY <1>3, <2>2, <3>1 DEF Supersedes
    <2> QED BY <2>1, <2>2
  <1> QED BY <1>1, <1>2, <1>3

\* A switch of a host that the deployment has touched and that runs its closure or
\* the one before, if no other switch was left behind there, to one of the two.
LEMMA TruthOfSwitch ==
    ASSUME Ledger, Truth, NEW d \in Deployments, NEW h \in TargetHosts(d), NEW c,
           dep[d].live, dep[d].phase = "apply", h \in touched[d],
           target[d][h] \in {"deploying", "rolling_back"},
           host[h] \in {d, Before(d, h)} \/ Strayed(d, h), c \in {d, Before(d, h)},
           host' = [host EXCEPT ![h] = c], UNCHANGED <<dep, target, touched, adrift>>
    PROVE  Truth'
  <1>1. h \in Hosts /\ host \in [Hosts -> Closures] /\ c \in Closures
        /\ (c \in Deployments => h \in touched[c])
    BY WhereItSwitches DEF Truth
  <1>2. host'[h] = c /\ \A g \in Hosts \ {h} : host'[g] = host[g] BY <1>1
  <1>3. \A e, g : Before(e, g)' = Before(e, g) BY DEF Before
  <1>4. \A e, g : LeftOn(e, g)' <=> LeftOn(e, g) BY DEF LeftOn
  <1>5. host' \in [Hosts -> Closures] BY <1>1
  <1>6. ASSUME NEW g \in Hosts PROVE HostFits(g)'
    <2>1. HostFits(g) BY DEF Truth
    <2> QED BY <1>1, <1>2, <2>1 DEF HostFits
  <1>7. ASSUME NEW e \in Deployments PROVE Supersedes(e)'
    <2>1. Supersedes(e) BY DEF Truth
    <2> QED BY <1>3, <2>1 DEF Supersedes
  <1>8. ASSUME NEW e \in Deployments, NEW g \in TargetHosts(e), NEW x, RunsOrReplaced(e, g, x),
               e # d \/ g # h, x = e \/ (x = Before(e, g) /\ g \in touched[e]), ~LeftOn(e, g)
        PROVE  RunsOrReplaced(e, g, x)'
    <2>1. CASE \E f \in Deployments \ {e} : g \in touched[f] /\ (Before(f, g) = x \/ LeftOn(f, g))
      BY <1>3, <1>4, <2>1 DEF RunsOrReplaced
    <2>2. CASE host[g] = x /\ host'[g] = host[g] BY <2>2 DEF RunsOrReplaced
    <2>3. CASE host[g] = x /\ host'[g] # host[g]
      <3>1. g = h
        <4>1. g \in Hosts BY OrderFacts
        <4> QED BY <1>2, <2>3, <4>1
      <3>2. e # d /\ c # x BY <1>2, <1>8, <2>3, <3>1
      <3>3. CASE x = Before(d, h)
        <4>1. h \in touched[d] /\ Before(d, h)' = x BY <1>3, <3>3
        <4> QED BY <3>1, <3>2, <4>1 DEF RunsOrReplaced
      <3>4. CASE x = d
        <4>1. x = Before(e, h) /\ h \in touched[e] BY <1>8, <3>1, <3>2, <3>4
        <4>2. Supersedes(e) BY DEF Truth
        <4>3. ~dep[d].live BY <3>2, <3>4, <4>1, <4>2 DEF Supersedes
        <4> QED BY <4>3
      <3>5. CASE Strayed(d, h)
        <4>1. PICK f \in Deployments \ {d} : h \in touched[f] /\ LeftOn(f, h)
          BY <3>5, StrayedReplaced
        <4>2. f # e BY <1>8, <3>1, <4>1
        <4> QED BY <1>4, <3>1, <4>1, <4>2 DEF RunsOrReplaced
      <3> QED BY <2>3, <3>1, <3>3, <3>4, <3>5
    <2> QED BY <1>8, <2>1, <2>2, <2>3 DEF RunsOrReplaced
  <1>9. ASSUME NEW e \in Deployments, NEW g \in TargetHosts(e) PROVE RowTruth(e, g)'
    <2>1. target[e][g] \in {"succeeded", "rolled_back"} => e # d \/ g # h OBVIOUS
    <2>2. \A x : /\ RunsOrReplaced(e, g, x) /\ ~LeftOn(e, g)
                 /\ target[e][g] \in {"succeeded", "rolled_back"}
                 /\ x = e \/ (x = Before(e, g) /\ g \in touched[e])
                 => RunsOrReplaced(e, g, x)'
      BY <1>8, <2>1
    <2>3. LeftOn(e, g)' => LeftOn(e, g) BY <1>4
    <2> QED BY <2>2, <2>3, RowStaysTrue
  <1>10. ASSUME NEW s \in adrift' PROVE DriftFits(s)'
    <2>1. DriftFits(s) BY DEF Truth
    <2> QED BY <1>3, <2>1 DEF DriftFits
  <1> QED BY <1>5, <1>6, <1>7, <1>9, <1>10 DEF Truth

\* Such a switch is left behind.
LEMMA TruthOfDrift ==
    ASSUME Ledger, Truth, NEW d \in Deployments, NEW h \in TargetHosts(d), NEW c,
           dep[d].phase = "apply", h \in touched[d],
           target[d][h] \in {"deploying", "rolling_back"}, c \in {d, Before(d, h)},
           adrift' = adrift \cup {[dep |-> d, host |-> h, to |-> c, over |-> FALSE]},
           UNCHANGED <<dep, target, touched, host>>
    PROVE  Truth'
  <1> DEFINE n == [dep |-> d, host |-> h, to |-> c, over |-> FALSE]
  <1>1. h \in Hosts /\ c \in Closures /\ (c \in Deployments => h \in touched[c])
    BY WhereItSwitches
  <1>2. \A e, g : Before(e, g)' = Before(e, g) BY DEF Before
  <1>3. \A e, g : LeftOn(e, g) => LeftOn(e, g)' BY DEF LeftOn
  <1>4. \A e, g : LeftOn(e, g)' => LeftOn(e, g) \/ (e = d /\ g = h) BY DEF LeftOn
  <1>5. host' \in [Hosts -> Closures] /\ \A g \in Hosts : HostFits(g)' BY DEF Truth, HostFits
  <1>6. ASSUME NEW e \in Deployments PROVE Supersedes(e)'
    <2>1. Supersedes(e) BY DEF Truth
    <2> QED BY <1>2, <2>1 DEF Supersedes
  <1>7. ASSUME NEW e \in Deployments, NEW g \in TargetHosts(e) PROVE RowTruth(e, g)'
    <2>1. \A x : RunsOrReplaced(e, g, x) => RunsOrReplaced(e, g, x)'
      BY <1>2, <1>3 DEF RunsOrReplaced
    <2>2. target[e][g] \in {"succeeded", "rolled_back"} => (LeftOn(e, g)' => LeftOn(e, g)) BY <1>4
    <2> QED BY <2>1, <2>2, RowStaysTrue
  <1>8. ASSUME NEW s \in adrift' PROVE DriftFits(s)'
    <2>1. CASE s \in adrift
      <3>1. DriftFits(s) BY <2>1 DEF Truth
      <3> QED BY <1>2, <3>1 DEF DriftFits
    <2>2. CASE s = n
      <3>1. n \in [dep : Deployments, host : Hosts, to : Closures, over : BOOLEAN] BY <1>1
      <3>2. s.dep = d /\ s.host = h /\ s.to = c BY <2>2
      <3> QED BY <1>1, <1>2, <2>2, <3>1, <3>2 DEF DriftFits
    <2> QED BY <2>1, <2>2
  <1> QED BY <1>5, <1>6, <1>7, <1>8 DEF Truth

\* A switch that was left behind takes effect.
LEMMA TruthOfLanding ==
    ASSUME Truth, NEW s \in adrift, AdriftLands(s)
    PROVE  Truth' /\ \A e, g : LeftOn(e, g)' <=> LeftOn(e, g)
  <1> DEFINE n == [s EXCEPT !.over = TRUE]
  <1>1. /\ s \in [dep : Deployments, host : Hosts, to : Closures, over : BOOLEAN]
        /\ s.host \in touched[s.dep]
        /\ s.to \in {s.dep, Before(s.dep, s.host)}
        /\ s.to \in Deployments => s.host \in touched[s.to]
    BY DEF Truth, DriftFits
  <1>2. /\ host' = [host EXCEPT ![s.host] = s.to] /\ adrift' = (adrift \ {s}) \cup {n}
        /\ UNCHANGED <<dep, target, touched>>
    BY DEF AdriftLands, storeVars
  <1>3. /\ n \in [dep : Deployments, host : Hosts, to : Closures, over : BOOLEAN]
        /\ n.dep = s.dep /\ n.host = s.host /\ n.to = s.to
    BY <1>1
  <1> HIDE DEF n
  <1>4. host \in [Hosts -> Closures] BY DEF Truth
  <1>5. host'[s.host] = s.to /\ \A g \in Hosts \ {s.host} : host'[g] = host[g]
    BY <1>1, <1>2, <1>4
  <1>6. \A e, g : Before(e, g)' = Before(e, g) BY <1>2 DEF Before
  <1>7. \A e, g : LeftOn(e, g)' <=> LeftOn(e, g) BY <1>2, <1>3 DEF LeftOn
  <1>8. host' \in [Hosts -> Closures] BY <1>1, <1>2, <1>4
  <1>9. ASSUME NEW g \in Hosts PROVE HostFits(g)'
    <2>1. HostFits(g) BY DEF Truth
    <2> QED BY <1>1, <1>2, <1>5, <2>1 DEF HostFits
  <1>10. ASSUME NEW e \in Deployments PROVE Supersedes(e)'
    <2>1. Supersedes(e) BY DEF Truth
    <2> QED BY <1>2, <1>6, <2>1 DEF Supersedes
  <1>11. ASSUME NEW e \in Deployments, NEW g \in TargetHosts(e) PROVE RowTruth(e, g)'
    <2>1. ASSUME NEW x, RunsOrReplaced(e, g, x), ~LeftOn(e, g) PROVE RunsOrReplaced(e, g, x)'
      <3>1. CASE g = s.host
        <4>1. LeftOn(s.dep, g) BY <3>1 DEF LeftOn
        <4>2. s.dep \in Deployments \ {e} BY <1>1, <2>1, <4>1
        <4>3. g \in touched'[s.dep] /\ LeftOn(s.dep, g)' BY <1>1, <1>2, <1>7, <3>1, <4>1
        <4> QED BY <4>2, <4>3 DEF RunsOrReplaced
      <3>2. CASE g # s.host
        <4>1. host'[g] = host[g] BY <1>5, <3>2, OrderFacts
        <4> QED BY <1>2, <1>6, <1>7, <2>1, <4>1 DEF RunsOrReplaced
      <3> QED BY <3>1, <3>2
    <2>2. LeftOn(e, g)' => LeftOn(e, g) BY <1>7
    <2> QED BY <1>2, <2>1, <2>2, RowStaysTrue
  <1>12. ASSUME NEW r \in adrift' PROVE DriftFits(r)'
    <2>1. CASE r \in adrift
      <3>1. DriftFits(r) BY <2>1 DEF Truth
      <3> QED BY <1>2, <1>6, <3>1 DEF DriftFits
    <2>2. CASE r = n
      <3>1. Before(n.dep, n.host)' = Before(s.dep, s.host) BY <1>3, <1>6
      <3> QED BY <1>1, <1>2, <1>3, <2>2, <3>1 DEF DriftFits
    <2> QED BY <1>2, <2>1, <2>2
  <1> QED BY <1>7, <1>8, <1>9, <1>10, <1>11, <1>12 DEF Truth

\* The truth of the rows, in the words of the property.
LEMMA TruthIsProperty ==
    ASSUME Ledger, Truth PROVE HostRowsTruthful
  <1> SUFFICES ASSUME NEW d \in Deployments, NEW h \in TargetHosts(d)
               PROVE  /\ target[d][h] \in {"pending", "preflighting", "build_ready", "failed",
                                           "skipped"} => h \notin touched[d]
                      /\ target[d][h] \in {"succeeded", "rolled_back"} => ~LeftOn(d, h)
                      /\ target[d][h] = "succeeded" => RunsOrReplaced(d, h, d)
                      /\ target[d][h] = "rolled_back" => RunsOrReplaced(d, h, Before(d, h))
    BY Zenon DEF HostRowsTruthful, RunsOrReplaced, Before, Pos
  <1>1. RowTruth(d, h) BY DEF Truth
  <1> QED BY <1>1 DEF RowTruth, Untouching

-----------------------------------------------------------------------------
(* Deployers that do not move.                                             *)

\* What a step that is not of d does to a host of d: it leaves it alone, unless a switch of
\* another deployment was left behind on it or one of d itself takes effect.
Unshaken(d, h) ==
    /\ LeftOn(d, h)' => LeftOn(d, h)
    /\ Strayed(d, h) => Strayed(d, h)'
    /\ \/ host'[h] = host[h]
       \/ Strayed(d, h)'
       \/ LeftOn(d, h) /\ host'[h] \in {d, Before(d, h)}

\* The hosts and the rows of d stay as they were, up to that.
Spared(d) ==
    /\ target'[d] = target[d] /\ touched'[d] = touched[d]
    /\ \A e \in Deployments : touched[e] \subseteq touched'[e]
    /\ dep[d].phase # "preflight" => \A h \in TargetHosts(d) : Unshaken(d, h)

\* Whoever has the lease of d has it alone, and its hosts with it.
LEMMA KnowsStays ==
    ASSUME Truth, NEW me, me.dep \in Deployments, me.at \in DOMAIN Order[me.dep], Knows(me),
           dep'[me.dep].phase = dep[me.dep].phase,
           dep'[me.dep].preview = dep[me.dep].preview, Spared(me.dep)
    PROVE  Knows(me)'
  <1> DEFINE d == me.dep
             O == DOMAIN Order[d]
  <1>1. CASE dep[d].phase = "preflight" BY <1>1 DEF Knows, KnowsBuild
  <1>2. CASE dep[d].phase # "preflight"
    <2>1. \A j \in O : Order[d][j] \in TargetHosts(d) BY OrderFacts
    <2>2. \A h : LeftOn(d, h) => h \in touched[d] BY DEF Truth, DriftFits, LeftOn
    <2>3. \A j \in O : Begun(d, j)' <=> Begun(d, j) BY DEF Begun, Spared
    <2>4. \A j \in O : Left(d, j)' => Left(d, j) BY <1>2, <2>1 DEF Left, Spared, Unshaken
    <2>5. \A j \in O : Left(d, j) => Begun(d, j) BY <2>2 DEF Left, Begun
    <2>6. ASSUME NEW j \in O
          PROVE  /\ Shows(d, j) /\ ~Left(d, j) => Shows(d, j)'
                 /\ Serves(d, j) /\ ~Left(d, j) => Serves(d, j)'
                 /\ Shows(d, j) \/ Serves(d, j) => Shows(d, j)' \/ Serves(d, j)'
      <3>1. Unshaken(d, Order[d][j]) BY <1>2, <2>1 DEF Spared
      <3>2. dep'[d].preview[j] = dep[d].preview[j] OBVIOUS
      <3>3. Before(d, Order[d][j]) = dep[d].preview[j] BY BeforeHere
      <3> QED BY <3>1, <3>2, <3>3 DEF Unshaken, Shows, Serves, Left
    <2>7. ASSUME NEW j \in O, AsSeen(d, j), ~Left(d, j) PROVE AsSeen(d, j)'
      <3>1. PICK c : c = dep[d].preview[j] OBVIOUS
      <3>2. c \in Deployments => Order[d][j] \in touched'[c] BY <2>7, <3>1 DEF AsSeen, Spared
      <3>3. dep'[d].preview[j] = c BY <3>1
      <3> QED BY <2>6, <2>7, <3>2, <3>3 DEF AsSeen
    <2>8. /\ KnowsHosts(me.pc, me.fate, d, me.at) /\ KnowsRow(me.pc, d, me.at)
          /\ KnowsPast(d)
      BY <1>2 DEF Knows
    <2>9. touched'[d] = touched[d] BY DEF Spared
    <2>10. me.at \in O OBVIOUS
    <2> HIDE DEF O
    <2>11. KnowsHosts(me.pc, me.fate, d, me.at)'
      <3>1. me.pc = "check" => \A j \in O : ~Left(d, j)
        BY <2>2, <2>8 DEF KnowsHosts, Left
      <3>2. me.pc \in Switching \cup {"restored"} => ~Left(d, me.at)
        BY <2>8 DEF KnowsHosts, Restoring
      <3>3. me.pc \in {"begin", "copy", "switch", "switching", "report", "verify", "verified"} =>
               me.pc \in Switching
        BY DEF Switching
      <3>4. me.pc = "check" => \A j \in O : j < me.at => AsSeen(d, j)'
        BY <2>7, <2>8, <3>1 DEF KnowsHosts, O
      <3>5. me.pc \in Switching => \A j \in O : j > me.at => AsSeen(d, j)' /\ ~Begun(d, j)'
        BY <2>3, <2>5, <2>7, <2>8 DEF KnowsHosts, O
      <3>6. me.pc \in {"begin", "copy", "switch", "switching"} => AsSeen(d, me.at)'
        BY <2>7, <2>8, <2>10, <3>2, <3>3 DEF KnowsHosts
      <3>7. me.pc \in {"report", "verify", "verified"} => Serves(d, me.at)'
        BY <2>6, <2>8, <2>10, <3>2, <3>3 DEF KnowsHosts
      <3>8. me.pc = "restored" => Shows(d, me.at)'
        BY <2>6, <2>8, <2>10, <3>2 DEF KnowsHosts
      <3>9. /\ me.pc \in Switching \cup (Restoring \ {"stuck"}) => ~Left(d, me.at)'
            /\ me.pc \in Switching \cup Restoring \cup {"record", "skip"} =>
                  \A j \in O : j < me.at => ~Left(d, j)'
        BY <2>4, <2>8, <2>10 DEF KnowsHosts, O
      <3> QED BY <2>3, <2>8, <2>9, <2>10, <3>9, <3>4, <3>5, <3>6, <3>7, <3>8 DEF KnowsHosts, O
    <2>12. KnowsRow(me.pc, d, me.at)' BY <2>8 DEF KnowsRow, Spared
    <2>13. KnowsPast(d)' BY <2>3, <2>6, <2>8 DEF KnowsPast, O
    <2> QED BY <1>2, <2>11, <2>12, <2>13 DEF Knows
  <1> QED BY <1>1, <1>2

\* What a step may do to the deployment of a deployer q that is not part of it.
Undisturbed(q, me) == HoldsLease(q, me.dep, me.fence) => Stays(me.dep) /\ Spared(me.dep)

LEMMA WorkerStays ==
    ASSUME Truth, NEW q \in Deployers, NEW me, WorkerFits(q, me), NEW S, q \notin S,
           Turns(me.dep, S), Undisturbed(q, me)
    PROVE  WorkerFits(q, me)'
  <1>1. AtWork(me) /\ me.dep \in Deployments /\ me.at \in DOMAIN Order[me.dep]
    BY DEF WorkerFits, AtWork, Worker, SshBacked
  <1>2. AtWork(me)' BY <1>1 DEF AtWork
  <1>3. Vouches(q, me)' BY DEF WorkerFits, Vouches, Undisturbed, HoldsLease, Stays, SameHold
  <1>4. ASSUME HoldsLease(q, me.dep, me.fence)' PROVE Knows(me)'
    <2>1. dep'[me.dep].live /\ dep'[me.dep].deployer = q /\ dep'[me.dep].fence = me.fence
      BY <1>4 DEF HoldsLease
    <2>2. dep[me.dep].live /\ SameHold(me.dep) BY <2>1 DEF Turns
    <2>3. HoldsLease(q, me.dep, me.fence) BY <2>1, <2>2 DEF HoldsLease, SameHold
    <2>4. Knows(me) BY <2>3 DEF WorkerFits
    <2> QED BY <1>1, <2>2, <2>3, <2>4, KnowsStays DEF Undisturbed, SameHold
  <1> QED BY <1>2, <1>3, <1>4 DEF WorkerFits

\* What leaves the hosts alone spares a deployment whose row stays.
LEMMA HostsSpared ==
    ASSUME NEW d, UNCHANGED <<host, touched, adrift>>, target'[d] = target[d]
    PROVE  Spared(d)
  <1>1. \A e, h : LeftOn(e, h)' <=> LeftOn(e, h) BY DEF LeftOn
  <1>2. \A h : Strayed(d, h)' <=> Strayed(d, h) BY <1>1 DEF Strayed
  <1>3. \A h : Unshaken(d, h) BY <1>1, <1>2 DEF Unshaken
  <1> QED BY <1>3 DEF Spared

\* A call that no deployer at work is part of.
LEMMA CallByOthers ==
    ASSUME FleetIInv, Ledger', NEW S, UNCHANGED <<proc, target, host, touched, adrift>>,
           \A e \in Deployments : Turns(e, S) /\ Stays(e),
           \A q \in S : proc[q] = Resting
    PROVE  FleetIInv'
  <1>1. Truth'
    <2>1. \A d \in Deployments : \A g \in TargetHosts(d) : target'[d][g] = target[d][g]
      OBVIOUS
    <2> QED BY <2>1, TruthOfCalls DEF FleetIInv
  <1>2. ASSUME NEW q \in Deployers PROVE DeployerFits(q)'
    <2>1. CASE proc[q] = Resting BY <2>1 DEF DeployerFits, Resting
    <2>2. CASE proc[q] # Resting
      <3>1. PICK me : me = proc[q] OBVIOUS
      <3>2. WorkerFits(q, me) BY <2>2, <3>1 DEF FleetIInv, Team, DeployerFits
      <3>3. me.dep \in Deployments BY <3>2 DEF WorkerFits, AtWork, Worker, SshBacked
      <3>4. Undisturbed(q, me) BY <3>3, HostsSpared DEF Undisturbed
      <3>5. Turns(me.dep, S) BY <3>3
      <3>6. q \notin S BY <2>2
      <3>7. WorkerFits(q, me)' BY <3>2, <3>4, <3>5, <3>6, WorkerStays DEF FleetIInv
      <3>8. proc'[q] = me BY <3>1
      <3> QED BY <3>7, <3>8 DEF DeployerFits
    <2> QED BY <2>1, <2>2
  <1>3. Team' BY <1>2 DEF FleetIInv, Team
  <1> QED BY <1>1, <1>3 DEF FleetIInv

\* What the others have the leases of, p leaves alone.
LeavesToOthers(p) ==
    /\ \A e \in Deployments : touched[e] \subseteq touched'[e]
    /\ \A e \in Deployments : \A h : LeftOn(e, h) => LeftOn(e, h)'
    /\ \A e \in Deployments : dep[e].live /\ dep[e].deployer # p =>
          /\ Stays(e) /\ target'[e] = target[e] /\ touched'[e] = touched[e]
          /\ \A h : LeftOn(e, h)' => LeftOn(e, h)
          /\ \A h \in Hosts : lock[h] = e => host'[h] = host[h]

\* As when the hosts are left alone.
LEMMA NoneDisturbed ==
    ASSUME NEW p, UNCHANGED <<host, touched, adrift>>,
           \A e \in Deployments : dep[e].live /\ dep[e].deployer # p =>
              Stays(e) /\ target'[e] = target[e]
    PROVE  LeavesToOthers(p)
  <1>1. \A e, h : LeftOn(e, h)' <=> LeftOn(e, h) BY DEF LeftOn
  <1> QED BY <1>1 DEF LeavesToOthers

LEMMA OneMoves ==
    ASSUME FleetIInv, Ledger', Truth', NEW p \in Deployers, NEW to,
           DOMAIN proc' = Deployers, proc'[p] = to, \A q \in Deployers \ {p} : proc'[q] = proc[q],
           to = Resting \/ WorkerFits(p, to)',
           NEW S, S \subseteq {p}, \A e \in Deployments : Turns(e, S), LeavesToOthers(p)
    PROVE  FleetIInv'
  <1>1. DeployerFits(p)'
    <2>1. CASE to = Resting BY <2>1 DEF DeployerFits, Resting
    <2>2. CASE WorkerFits(p, to)' BY <2>2 DEF DeployerFits
    <2> QED BY <2>1, <2>2
  <1>2. ASSUME NEW q \in Deployers \ {p} PROVE DeployerFits(q)'
    <2>1. proc'[q] = proc[q] OBVIOUS
    <2>2. CASE proc[q] = Resting BY <2>1, <2>2 DEF DeployerFits, Resting
    <2>3. CASE proc[q] # Resting
      <3>1. PICK me : me = proc[q] OBVIOUS
      <3>2. WorkerFits(q, me) BY <2>3, <3>1 DEF FleetIInv, Team, DeployerFits
      <3>3. me.dep \in Deployments BY <3>2 DEF WorkerFits, AtWork, Worker, SshBacked
      <3>4. Undisturbed(q, me)
        <4> SUFFICES ASSUME HoldsLease(q, me.dep, me.fence) PROVE Undisturbed(q, me)
          BY DEF Undisturbed
        <4>1. dep[me.dep].live /\ dep[me.dep].deployer = q BY DEF HoldsLease
        <4>2. dep[me.dep].deployer # p BY <4>1
        <4>3. ASSUME dep[me.dep].phase # "preflight", NEW h \in TargetHosts(me.dep)
              PROVE  Unshaken(me.dep, h)
          <5>1. LedgerFits(me.dep) BY <3>3 DEF FleetIInv, Ledger
          <5>2. dep[me.dep].phase = "apply"
            BY <4>1, <4>3, <5>1 DEF LedgerFits, SoundRow, RowType, Phases
          <5>3. lock[h] = me.dep BY <4>1, <5>1, <5>2 DEF LedgerFits, SoundLocks
          <5>4. h \in Hosts BY <3>3, OrderFacts
          <5>5. host'[h] = host[h] /\ (LeftOn(me.dep, h)' => LeftOn(me.dep, h))
            BY <3>3, <4>1, <4>2, <5>3, <5>4 DEF LeavesToOthers
          <5>6. Strayed(me.dep, h) => Strayed(me.dep, h)' BY DEF Strayed, LeavesToOthers
          <5> QED BY <5>5, <5>6 DEF Unshaken
        <4>4. Stays(me.dep) /\ Spared(me.dep)
          BY <3>3, <4>1, <4>2, <4>3 DEF Spared, LeavesToOthers
        <4> QED BY <4>4 DEF Undisturbed
      <3>5. Turns(me.dep, S) /\ q \notin S BY <3>3
      <3>6. WorkerFits(q, me)' BY <3>2, <3>4, <3>5, WorkerStays DEF FleetIInv
      <3> QED BY <2>1, <3>1, <3>6 DEF DeployerFits
    <2> QED BY <2>2, <2>3
  <1>3. Team' BY <1>1, <1>2 DEF Team
  <1> QED BY <1>3 DEF FleetIInv

LEMMA StepOfOne ==
    ASSUME FleetIInv, Ledger', Truth', NEW p \in Deployers, NEW to,
           Goes(p, to), to = Resting \/ WorkerFits(p, to)',
           NEW S, S \subseteq {p}, \A e \in Deployments : Turns(e, S), LeavesToOthers(p)
    PROVE  FleetIInv'
  <1>1. DOMAIN proc = Deployers BY DEF FleetIInv, Team
  <1>2. /\ DOMAIN proc' = Deployers /\ proc'[p] = to
        /\ \A q \in Deployers \ {p} : proc'[q] = proc[q]
    BY <1>1 DEF Goes
  <1> QED BY <1>2, OneMoves

\* A step of p that changes nothing but its own record.
LEMMA QuietStep ==
    ASSUME FleetIInv, NEW p \in Deployers, NEW to, Goes(p, to),
           to = Resting \/ WorkerFits(p, to), UNCHANGED <<storeVars, host, seen, touched, adrift>>
    PROVE  FleetIInv'
  <1>1. UNCHANGED <<dep, target, lock, approval>> BY DEF storeVars
  <1>2. Ledger' BY <1>1 DEF FleetIInv, Ledger, LedgerTypes, LedgerFits
  <1>3. \A e \in Deployments : Turns(e, {}) /\ Stays(e) BY <1>1, SameRowTurns
  <1>4. \A e \in Deployments : Turns(e, {}) BY <1>3
  <1>5. Truth'
    <2>1. \A d \in Deployments : \A g \in TargetHosts(d) : target'[d][g] = target[d][g]
      BY <1>1
    <2> QED BY <1>1, <1>4, <2>1, TruthOfCalls DEF FleetIInv
  <1>6. LeavesToOthers(p) BY <1>1, <1>3, NoneDisturbed
  <1>7. to = Resting \/ WorkerFits(p, to)'
    <2> SUFFICES ASSUME WorkerFits(p, to) PROVE WorkerFits(p, to)' OBVIOUS
    <2>1. to.dep \in Deployments BY DEF WorkerFits, AtWork, Worker, SshBacked
    <2>2. Undisturbed(p, to) BY <1>1, <1>3, <2>1, HostsSpared DEF Undisturbed
    <2> QED BY <1>4, <2>1, <2>2, WorkerStays DEF FleetIInv
  <1> QED BY <1>2, <1>4, <1>5, <1>6, <1>7, StepOfOne

-----------------------------------------------------------------------------
(* What a deployer goes on to.                                             *)

\* The record of a deployer after a step: what is not named stays.
Edit(me, to, pc, at) ==
    /\ to \in Worker
    /\ to.dep = me.dep /\ to.fence = me.fence /\ to.guard = me.guard
    /\ to.pc = pc /\ to.at = at

LEMMA ToEdit ==
    ASSUME NEW p, proc[p] \in Worker, NEW pc \in Busyness
    PROVE  /\ Edit(proc[p], To(p, pc), pc, proc[p].at)
           /\ To(p, pc).fate = proc[p].fate /\ To(p, pc).found = proc[p].found
           /\ To(p, pc).cursor = proc[p].cursor
  <1>1. To(p, pc) \in Worker BY DEF To, Worker
  <1> QED BY <1>1 DEF To, Edit, Worker

LEMMA FailsEdit ==
    ASSUME NEW p, proc[p] \in Worker, NEW fate \in {"failed", "cancelled", "unknown"}
    PROVE  Edit(proc[p], Fails(p, fate), "record", proc[p].at) /\ Fails(p, fate).fate = fate
  <1> DEFINE c == "record"
  <1>1. c \in Busyness BY DEF Busyness
  <1>2. Fails(p, fate) = [proc[p] EXCEPT !.pc = c, !.fate = fate] BY DEF Fails
  <1>3. c = "record" OBVIOUS
  <1> HIDE DEF c
  <1>4. Fails(p, fate) \in Worker BY <1>1, <1>2 DEF Worker
  <1> QED BY <1>2, <1>3, <1>4 DEF Edit, Worker

LEMMA OnwardEdit ==
    ASSUME NEW p, AtWork(proc[p]), NEW pc \in Busyness \ {"skip"}, NEW first \in Busyness \ {"skip"}
    PROVE  LET me == proc[p]
               to == Onward(p, pc, first)
           IN /\ to.fate = me.fate /\ to.found = me.found
              /\ me.at < Len(Order[me.dep]) =>
                    Edit(me, to, pc, me.at + 1) /\ me.at + 1 \in DOMAIN Order[me.dep]
              /\ ~(me.at < Len(Order[me.dep])) =>
                    /\ Edit(me, to, first, 1) /\ 1 \in DOMAIN Order[me.dep]
                    /\ me.at = Len(Order[me.dep])
  <1> DEFINE me == proc[p]
             n == me.at + 1
  <1>1. /\ me \in Worker /\ me.dep \in Deployments /\ me.at \in DOMAIN Order[me.dep]
    BY DEF AtWork, Worker, SshBacked
  <1>2. /\ Len(Order[me.dep]) \in Nat /\ Len(Order[me.dep]) >= 1
        /\ DOMAIN Order[me.dep] = 1 .. Len(Order[me.dep])
    BY <1>1, OrderFacts
  <1>3. me.at \in Nat /\ n \in Nat BY <1>1 DEF Worker
  <1>4. CASE me.at < Len(Order[me.dep])
    <2>1. Onward(p, pc, first) = [me EXCEPT !.at = n, !.pc = pc] BY <1>1, <1>4 DEF Onward, Worker
    <2>2. n \in DOMAIN Order[me.dep] BY <1>2, <1>3, <1>4
    <2> HIDE DEF n
    <2>3. Onward(p, pc, first) \in Worker BY <1>1, <1>3, <2>1 DEF Worker
    <2>4. /\ Edit(me, Onward(p, pc, first), pc, n)
          /\ Onward(p, pc, first).fate = me.fate /\ Onward(p, pc, first).found = me.found
      BY <1>1, <2>1, <2>3 DEF Edit, Worker
    <2> QED BY <1>4, <2>2, <2>4 DEF n
  <1>5. CASE ~(me.at < Len(Order[me.dep]))
    <2> DEFINE o == 1
    <2>1. Onward(p, pc, first) = [me EXCEPT !.at = o, !.pc = first] BY <1>5 DEF Onward
    <2>2. o \in DOMAIN Order[me.dep] /\ me.at = Len(Order[me.dep]) BY <1>1, <1>2, <1>5
    <2>3. o \in Nat OBVIOUS
    <2> HIDE DEF o
    <2>4. Onward(p, pc, first) \in Worker BY <1>1, <2>1, <2>3 DEF Worker
    <2>5. /\ Edit(me, Onward(p, pc, first), first, o)
          /\ Onward(p, pc, first).fate = me.fate /\ Onward(p, pc, first).found = me.found
      BY <1>1, <2>1, <2>4 DEF Edit, Worker
    <2> QED BY <1>5, <2>2, <2>5 DEF o
  <1> QED BY <1>4, <1>5

\* Back to the host before, or to the end.
LEMMA BackEdit ==
    ASSUME NEW p, AtWork(proc[p]), proc[p].at > 1
    PROVE  LET to == [proc[p] EXCEPT !.pc = "undo", !.at = @ - 1]
           IN Edit(proc[p], to, "undo", proc[p].at - 1) /\ proc[p].at - 1 \in DOMAIN Order[proc[p].dep]
  <1> DEFINE me == proc[p]
             n == me.at - 1
             c == "undo"
             to == [me EXCEPT !.pc = "undo", !.at = @ - 1]
  <1>1. me \in Worker /\ me.dep \in Deployments /\ me.at \in DOMAIN Order[me.dep]
    BY DEF AtWork, Worker, SshBacked
  <1>2. n \in Nat /\ n \in DOMAIN Order[me.dep] BY <1>1, OrderFacts DEF Worker
  <1>3. to = [me EXCEPT !.pc = c, !.at = n] BY <1>1 DEF Worker
  <1>4. c \in Busyness /\ c = "undo" BY DEF Busyness, Restoring
  <1> HIDE DEF n, c, to
  <1>5. to \in Worker BY <1>1, <1>2, <1>3, <1>4 DEF Worker
  <1>6. Edit(me, to, c, n) BY <1>1, <1>3, <1>5 DEF Edit, Worker
  <1> QED BY <1>2, <1>4, <1>6 DEF n, to

\* The hosts to be skipped, then the rollback or the end.
LEMMA SkipEdit ==
    ASSUME NEW p, AtWork(proc[p]), NEW i \in Nat \ {0}
    PROVE  LET me == proc[p]
               to == SkipFrom(p, i)
           IN \/ /\ i \in DOMAIN Order[me.dep]
                 /\ Edit(me, to, "skip", me.at) /\ to.cursor = i
              \/ /\ i \notin DOMAIN Order[me.dep]
                 /\ \/ /\ Edit(me, to, "undo", me.at - 1)
                       /\ me.at - 1 \in DOMAIN Order[me.dep]
                    \/ Edit(me, to, "finish", me.at)
  <1> DEFINE me == proc[p]
             to == SkipFrom(p, i)
             c == "skip"
  <1>1. me \in Worker /\ me.dep \in Deployments /\ me.at \in DOMAIN Order[me.dep]
    BY DEF AtWork, Worker, SshBacked
  <1>2. Len(Order[me.dep]) \in Nat /\ DOMAIN Order[me.dep] = 1 .. Len(Order[me.dep])
    BY <1>1, OrderFacts
  <1>3. CASE i <= Len(Order[me.dep])
    <2>1. to = [me EXCEPT !.pc = c, !.cursor = i] BY <1>3 DEF SkipFrom
    <2>2. c \in Busyness /\ c = "skip" BY DEF Busyness
    <2>3. i \in DOMAIN Order[me.dep] BY <1>2, <1>3
    <2> HIDE DEF to, c
    <2>4. to \in Worker BY <1>1, <2>1, <2>2 DEF Worker
    <2>5. Edit(me, to, c, me.at) /\ to.cursor = i BY <1>1, <2>1, <2>4 DEF Edit, Worker
    <2> QED BY <2>2, <2>3, <2>5 DEF to
  <1>4. CASE ~(i <= Len(Order[me.dep]))
    <2>1. to = AfterFailure(p) BY <1>4 DEF SkipFrom
    <2>2. i \notin DOMAIN Order[me.dep] BY <1>2, <1>4
    <2>3. CASE me.fate = "failed" /\ me.dep \in RollsBack /\ me.at > 1
      <3>1. to = [me EXCEPT !.pc = "undo", !.at = @ - 1] BY <2>1, <2>3 DEF AfterFailure
      <3> HIDE DEF to
      <3> QED BY <2>2, <2>3, <3>1, BackEdit DEF to
    <2>4. CASE ~(me.fate = "failed" /\ me.dep \in RollsBack /\ me.at > 1)
      <3>1. to = To(p, "finish") BY <2>1, <2>4, Zenon DEF AfterFailure
      <3>2. "finish" \in Busyness BY DEF Busyness
      <3> HIDE DEF to
      <3>3. Edit(me, to, "finish", me.at) BY <1>1, <3>1, <3>2, ToEdit
      <3> QED BY <2>2, <3>3 DEF to
    <2> QED BY <2>3, <2>4
  <1> QED BY <1>3, <1>4

\* What holds of a deployer at work.
LEMMA AtWorkFacts ==
    ASSUME FleetIInv, NEW p \in Deployers, proc[p].pc # "idle"
    PROVE  /\ proc[p] # Resting /\ WorkerFits(p, proc[p]) /\ AtWork(proc[p])
           /\ proc[p] \in Worker /\ proc[p].dep \in Deployments /\ proc[p].dep \in SshBacked
           /\ proc[p].at \in DOMAIN Order[proc[p].dep] /\ proc[p].at \in Nat \ {0}
           /\ Here(p) \in TargetHosts(proc[p].dep) /\ Here(p) \in Hosts
           /\ GuardOn(p) /\ proc[p].pc # "giveup" => HoldsFence(p)
           /\ HoldsFence(p) =>
                 /\ Knows(proc[p]) /\ dep[proc[p].dep].live /\ dep[proc[p].dep].deployer = p
                 /\ dep[proc[p].dep].phase \in {"preflight", "apply"}
                 /\ lock \in [Hosts -> Deployments \cup {Nobody}]
                 /\ dep[proc[p].dep].phase = "apply" =>
                       \A h \in TargetHosts(proc[p].dep) : lock[h] = proc[p].dep
  <1> DEFINE me == proc[p]
  <1>1. me # Resting BY DEF Resting
  <1>2. WorkerFits(p, me) BY <1>1 DEF FleetIInv, Team, DeployerFits
  <1>3. AtWork(me) /\ me \in Worker /\ me.dep \in SshBacked /\ me.dep \in Deployments
        /\ me.at \in DOMAIN Order[me.dep]
    BY <1>2 DEF WorkerFits, AtWork, Worker, SshBacked
  <1>4. me.at \in Nat \ {0} /\ Here(p) \in TargetHosts(me.dep) /\ Here(p) \in Hosts
    BY <1>3, OrderFacts DEF Here
  <1>5. GuardOn(p) /\ me.pc # "giveup" => HoldsFence(p)
    BY <1>2 DEF WorkerFits, Vouches, GuardOn, HoldsFence
  <1>6. ASSUME HoldsFence(p)
        PROVE  /\ Knows(me) /\ dep[me.dep].live /\ dep[me.dep].deployer = p
               /\ dep[me.dep].phase \in {"preflight", "apply"}
               /\ lock \in [Hosts -> Deployments \cup {Nobody}]
               /\ dep[me.dep].phase = "apply" => \A h \in TargetHosts(me.dep) : lock[h] = me.dep
    <2>1. HoldsLease(p, me.dep, me.fence) BY <1>6 DEF HoldsFence
    <2>2. Knows(me) /\ dep[me.dep].live /\ dep[me.dep].deployer = p
      BY <1>2, <2>1 DEF WorkerFits, HoldsLease
    <2>3. LedgerFits(me.dep) BY <1>3 DEF FleetIInv, Ledger
    <2>4. dep[me.dep].phase \in {"preflight", "apply"}
      BY <2>2, <2>3 DEF LedgerFits, SoundRow, RowType, Phases
    <2>5. lock \in [Hosts -> Deployments \cup {Nobody}]
      BY DEF FleetIInv, Ledger, LedgerTypes
    <2> QED BY <2>2, <2>3, <2>4, <2>5 DEF LedgerFits, SoundLocks
  <1> QED BY <1>1, <1>2, <1>3, <1>4, <1>5, <1>6

\* What p knows allows it to go on to: as long as no host and no history changes.
Leads(p, to) ==
    \/ to = Resting
    \/ /\ AtWork(to)
       /\ to.dep = proc[p].dep /\ to.fence = proc[p].fence /\ to.guard = proc[p].guard
       /\ to.pc \notin {"switching", "restoring"}
       /\ HoldsFence(p) =>
             IF dep[proc[p].dep].phase = "preflight" THEN KnowsBuild(to, proc[p].dep, to.at)
             ELSE KnowsHosts(to.pc, to.fate, proc[p].dep, to.at)

\* Nothing is known of the row of the host.
Plain(to) == to.pc \notin {"copy", "switch", "restore"}

LEMMA StepAlone ==
    ASSUME FleetIInv, NEW p \in Deployers, proc[p].pc \notin {"idle", "giveup"},
           NEW to, Goes(p, to), Leads(p, to),
           HoldsFence(p) => Plain(to) \/ KnowsRow(to.pc, to.dep, to.at),
           UNCHANGED <<storeVars, host, seen, touched, adrift>>
    PROVE  FleetIInv'
  <1> DEFINE me == proc[p]
  <1>1. WorkerFits(p, me) /\ me.dep \in Deployments BY AtWorkFacts
  <1>2. CASE to = Resting BY <1>2, QuietStep
  <1>3. CASE to # Resting
    <2>1. /\ AtWork(to) /\ to.dep = me.dep /\ to.fence = me.fence /\ to.guard = me.guard
          /\ to.pc \notin {"switching", "restoring"}
          /\ HoldsFence(p) =>
                IF dep[me.dep].phase = "preflight" THEN KnowsBuild(to, me.dep, to.at)
                ELSE KnowsHosts(to.pc, to.fate, me.dep, to.at)
      BY <1>3 DEF Leads
    <2>2. Vouches(p, to) BY <1>1, <2>1 DEF WorkerFits, Vouches
    <2>3. ASSUME HoldsLease(p, to.dep, to.fence) PROVE Knows(to)
      <3>1. HoldsFence(p) BY <2>1, <2>3 DEF HoldsFence
      <3>2. Knows(me) BY <3>1, AtWorkFacts
      <3>3. CASE dep[me.dep].phase = "preflight" BY <2>1, <3>1, <3>3 DEF Knows
      <3>4. CASE dep[me.dep].phase # "preflight"
        <4>1. KnowsPast(to.dep) BY <2>1, <3>2, <3>4 DEF Knows
        <4>2. KnowsRow(to.pc, to.dep, to.at) BY <2>1, <3>1 DEF Plain, KnowsRow
        <4> QED BY <2>1, <3>1, <3>4, <4>1, <4>2 DEF Knows
      <3> QED BY <3>3, <3>4
    <2>4. WorkerFits(p, to) BY <2>1, <2>2, <2>3 DEF WorkerFits
    <2> QED BY <2>4, QuietStep
  <1> QED BY <1>2, <1>3

\* What is known of the hosts, when they stay and the preview does.
LEMMA SameSight ==
    ASSUME NEW d, UNCHANGED <<host, touched, adrift>>, dep'[d].preview = dep[d].preview, NEW j
    PROVE  /\ AsSeen(d, j)' <=> AsSeen(d, j)
           /\ Shows(d, j)' <=> Shows(d, j)
           /\ Serves(d, j)' <=> Serves(d, j)
           /\ Left(d, j)' <=> Left(d, j)
  <1>1. \A e, h : LeftOn(e, h)' <=> LeftOn(e, h) BY DEF LeftOn
  <1>2. Strayed(d, Order[d][j])' <=> Strayed(d, Order[d][j]) BY <1>1 DEF Strayed
  <1>3. Shows(d, j)' <=> Shows(d, j) BY <1>2 DEF Shows
  <1>4. PICK c : c = dep[d].preview[j] OBVIOUS
  <1>5. dep'[d].preview[j] = c BY <1>4
  <1>6. AsSeen(d, j)' <=> AsSeen(d, j) BY <1>3, <1>4, <1>5 DEF AsSeen
  <1> QED BY <1>1, <1>2, <1>3, <1>6 DEF Serves, Left

\* No switch is left behind where none was started.
LEMMA NoneLeft ==
    ASSUME Truth, NEW d, NEW j, ~Begun(d, j) PROVE ~Left(d, j)
  BY DEF Truth, DriftFits, LeftOn, Left, Begun

\* A call of p that is applied to the row of a host.
LEMMA StepTold ==
    ASSUME FleetIInv, NEW p \in Deployers, proc[p].pc \notin {"idle", "giveup"},
           HoldsFence(p), NEW h \in TargetHosts(proc[p].dep), NEW s \in TargetStatuses,
           UpdateTarget(proc[p].dep, h, s), MayTell(proc[p].dep, h, s),
           NEW to, Goes(p, to), Leads(p, to),
           \/ Plain(to)
           \/ to.pc = "copy" /\ s = "deploying" /\ h = Order[to.dep][to.at]
           \/ to.pc = "restore" /\ s = "rolling_back" /\ h = Order[to.dep][to.at],
           UNCHANGED <<host, seen, touched, adrift>>
    PROVE  FleetIInv'
  <1>0. PICK me : me = proc[p] OBVIOUS
  <1>1. /\ WorkerFits(p, me) /\ me.dep \in Deployments /\ dep[me.dep].live
        /\ dep[me.dep].deployer = p /\ Knows(me)
    BY <1>0, AtWorkFacts
  <1>2. /\ Ledger' /\ target'[me.dep][h] = s
        /\ \A g \in TargetHosts(me.dep) : g # h => target'[me.dep][g] = target[me.dep][g]
        /\ \A e \in Deployments \ {me.dep} : target'[e] = target[e]
        /\ \A e \in Deployments : Turns(e, {}) /\ Stays(e)
    BY <1>0, <1>1, UpdateStep DEF FleetIInv
  <1>3. Truth'
    <2>1. \A d \in Deployments : \A g \in TargetHosts(d) :
            target'[d][g] = target[d][g] \/ MayTell(d, g, target'[d][g])
      BY <1>0, <1>2
    <2>2. \A d \in Deployments : Turns(d, {}) BY <1>2
    <2> QED BY <2>1, <2>2, TruthOfCalls DEF FleetIInv
  <1>4. LeavesToOthers(p) BY <1>1, <1>2, NoneDisturbed
  <1>5. \A e \in Deployments : Turns(e, {}) BY <1>2
  <1>6. CASE to = Resting BY <1>2, <1>3, <1>4, <1>5, <1>6, StepOfOne
  <1>7. CASE to # Resting
    <2>1. /\ AtWork(to) /\ to.dep = me.dep /\ to.fence = me.fence /\ to.guard = me.guard
          /\ to.pc \notin {"switching", "restoring"}
          /\ IF dep[me.dep].phase = "preflight" THEN KnowsBuild(to, me.dep, to.at)
             ELSE KnowsHosts(to.pc, to.fate, me.dep, to.at)
      BY <1>0, <1>7 DEF Leads
    <2>2. SameHold(me.dep) /\ dep'[me.dep].live BY <1>1, <1>2 DEF Stays
    <2>3. HoldsLease(p, to.dep, to.fence)'
      BY <1>0, <2>1, <2>2 DEF HoldsFence, HoldsLease, SameHold
    <2>4. Vouches(p, to)' BY <2>3 DEF Vouches
    <2>5. AtWork(to)' BY <2>1 DEF AtWork
    <2>6. Knows(to)'
      <3>1. CASE dep[me.dep].phase = "preflight"
        <4>1. dep'[to.dep].phase = "preflight" BY <2>1, <2>2, <3>1 DEF SameHold
        <4> QED BY <2>1, <3>1, <4>1 DEF Knows, KnowsBuild
      <3>2. CASE dep[me.dep].phase # "preflight"
        <4>1. dep'[to.dep].phase # "preflight" BY <2>1, <2>2, <3>2 DEF SameHold
        <4>2. \A j : /\ AsSeen(to.dep, j)' <=> AsSeen(to.dep, j)
                     /\ Shows(to.dep, j)' <=> Shows(to.dep, j)
                     /\ Serves(to.dep, j)' <=> Serves(to.dep, j)
                     /\ Left(to.dep, j)' <=> Left(to.dep, j)
          <5>1. dep'[to.dep].preview = dep[to.dep].preview BY <2>1, <2>2 DEF SameHold
          <5> QED BY <5>1, SameSight
        <4>3. \A j : Begun(to.dep, j)' <=> Begun(to.dep, j) BY DEF Begun
        <4>4. KnowsHosts(to.pc, to.fate, to.dep, to.at) /\ KnowsPast(to.dep)
          BY <1>1, <2>1, <3>2 DEF Knows
        <4>5. KnowsHosts(to.pc, to.fate, to.dep, to.at)' BY <4>2, <4>3, <4>4 DEF KnowsHosts
        <4>6. KnowsPast(to.dep)' BY <4>2, <4>3, <4>4 DEF KnowsPast
        <4>7. KnowsRow(to.pc, to.dep, to.at)' BY <1>2, <2>1 DEF Plain, KnowsRow
        <4> QED BY <4>1, <4>5, <4>6, <4>7 DEF Knows
      <3> QED BY <3>1, <3>2
    <2>7. WorkerFits(p, to)' BY <2>4, <2>5, <2>6 DEF WorkerFits
    <2> QED BY <1>2, <1>3, <1>4, <1>5, <2>7, StepOfOne
  <1> QED BY <1>6, <1>7

\* Tell: whatever becomes of the call.
LEMMA StepTells ==
    ASSUME FleetIInv, NEW p \in Deployers, proc[p].pc \notin {"idle", "giveup"},
           NEW h \in TargetHosts(proc[p].dep), NEW s \in TargetStatuses, NEW yes, NEW no,
           Tell(p, h, s, yes, no), Leads(p, yes), Leads(p, no), Plain(no),
           \/ Plain(yes)
           \/ yes.pc = "copy" /\ s = "deploying" /\ h = Order[yes.dep][yes.at]
           \/ yes.pc = "restore" /\ s = "rolling_back" /\ h = Order[yes.dep][yes.at],
           HoldsFence(p) /\ s \in TargetTransitions(target[proc[p].dep][h]) =>
              MayTell(proc[p].dep, h, s)
    PROVE  FleetIInv'
  <1> DEFINE told == /\ HoldsFence(p) /\ MayTell(proc[p].dep, h, s)
                     /\ UpdateTarget(proc[p].dep, h, s)
  <1>1. UNCHANGED <<host, seen, touched, adrift>> BY DEF Tell
  <1>2. TargetUpdateAccepted(p, proc[p].dep, proc[p].fence, h, s) =>
           HoldsFence(p) /\ MayTell(proc[p].dep, h, s)
    BY DEF TargetUpdateAccepted, HoldsFence
  <1>3. \/ told /\ Goes(p, yes)
        \/ told /\ Goes(p, no)
        \/ UNCHANGED storeVars /\ Goes(p, no)
    BY <1>2 DEF Tell
  <1>4. CASE told /\ Goes(p, yes) BY <1>1, <1>4, StepTold
  <1>5. CASE told /\ Goes(p, no) BY <1>1, <1>5, StepTold
  <1>6. CASE UNCHANGED storeVars /\ Goes(p, no) BY <1>1, <1>6, StepAlone
  <1> QED BY <1>3, <1>4, <1>5, <1>6

-----------------------------------------------------------------------------
(* The steps of a deployer, one by one.                                    *)

LEMMA GiveUpLeads ==
    ASSUME FleetIInv, NEW p \in Deployers, proc[p].pc # "idle"
    PROVE  Leads(p, To(p, "giveup")) /\ Plain(To(p, "giveup"))
  <1>1. AtWork(proc[p]) /\ proc[p] \in Worker BY AtWorkFacts
  <1>2. "giveup" \in Busyness BY DEF Busyness
  <1>3. Edit(proc[p], To(p, "giveup"), "giveup", proc[p].at) BY <1>1, <1>2, ToEdit
  <1>4. AtWork(To(p, "giveup")) BY <1>1, <1>3 DEF AtWork, Edit
  <1>5. ASSUME NEW to, to.pc = "giveup", NEW d, NEW i
        PROVE  KnowsBuild(to, d, i) /\ KnowsHosts(to.pc, to.fate, d, i)
    BY <1>5 DEF KnowsBuild, KnowsHosts, Reading, Switching, Restoring
  <1> QED BY <1>3, <1>4, <1>5 DEF Leads, Plain, Edit

LEMMA StoppedLeads ==
    ASSUME NEW p, NEW to, Leads(p, to), Plain(to)
    PROVE  Leads(p, Stopped(p, to)) /\ Plain(Stopped(p, to))
  BY DEF Leads, Plain, Stopped, Resting

\* A failure with the hosts before begun and, unless it is in doubt, this one not.
LEMMA FailsLeads ==
    ASSUME FleetIInv, NEW p \in Deployers, proc[p].pc # "idle",
           NEW fate \in {"failed", "cancelled", "unknown"},
           HoldsFence(p) =>
              /\ dep[proc[p].dep].phase # "preflight"
              /\ \A j \in DOMAIN Order[proc[p].dep] : j < proc[p].at =>
                    Begun(proc[p].dep, j) /\ ~Left(proc[p].dep, j)
              /\ fate # "unknown" => ~Begun(proc[p].dep, proc[p].at)
    PROVE  Leads(p, Fails(p, fate)) /\ Plain(Fails(p, fate))
  <1> DEFINE to == Fails(p, fate)
  <1>1. AtWork(proc[p]) /\ proc[p] \in Worker BY AtWorkFacts
  <1>2. Edit(proc[p], to, "record", proc[p].at) /\ to.fate = fate BY <1>1, FailsEdit
  <1> HIDE DEF to
  <1>3. AtWork(to) BY <1>1, <1>2 DEF AtWork, Edit
  <1>4. HoldsFence(p) => /\ dep[proc[p].dep].phase # "preflight"
                         /\ KnowsHosts(to.pc, to.fate, proc[p].dep, to.at)
    BY <1>2 DEF KnowsHosts, Edit, Reading, Switching, Restoring
  <1>5. Leads(p, to) /\ Plain(to) BY <1>2, <1>3, <1>4 DEF Leads, Plain, Edit
  <1> QED BY <1>5 DEF to

\* A step inside the apply that stays at the host.
LEMMA HereLeads ==
    ASSUME FleetIInv, NEW p \in Deployers, proc[p].pc # "idle",
           NEW pc \in Busyness \ {"skip", "switching", "restoring"},
           HoldsFence(p) =>
              /\ dep[proc[p].dep].phase # "preflight"
              /\ KnowsHosts(pc, proc[p].fate, proc[p].dep, proc[p].at)
    PROVE  /\ Leads(p, To(p, pc))
           /\ To(p, pc).pc = pc /\ To(p, pc).dep = proc[p].dep /\ To(p, pc).at = proc[p].at
  <1> DEFINE to == To(p, pc)
  <1>1. AtWork(proc[p]) /\ proc[p] \in Worker BY AtWorkFacts
  <1>2. Edit(proc[p], to, pc, proc[p].at) /\ to.fate = proc[p].fate BY <1>1, ToEdit
  <1> HIDE DEF to
  <1>3. AtWork(to) BY <1>1, <1>2 DEF AtWork, Edit
  <1>4. Leads(p, to) BY <1>2, <1>3 DEF Leads, Edit
  <1> QED BY <1>2, <1>4 DEF to, Edit

LEMMA StartKeeps ==
    ASSUME FleetIInv, NEW p \in Deployers, Start(p) PROVE FleetIInv'
  <1> DEFINE me == proc[p]
             d == me.dep
  <1>1. me.pc = "start" BY DEF Start
  <1>2. me.pc \notin {"idle", "giveup"} BY <1>1
  <1>3. PICK ok : ok = To(p, IF dep[d].phase = "apply" THEN "check" ELSE "mark") OBVIOUS
  <1>4. PICK no : no = To(p, "giveup") OBVIOUS
  <1>5. UNCHANGED <<storeVars, host, seen, touched, adrift>> BY DEF Start, Runs
  <1>6. Goes(p, ok) \/ Goes(p, no) \/ Goes(p, Stopped(p, no))
    BY <1>3, <1>4 DEF Start, Runs
  <1>7. Leads(p, no) /\ Plain(no) BY <1>2, <1>4, GiveUpLeads
  <1>8. Leads(p, ok) /\ Plain(ok)
    <2>1. /\ AtWork(me) /\ me \in Worker
          /\ HoldsFence(p) => Knows(me) /\ dep[d].phase \in {"preflight", "apply"}
      BY <1>2, AtWorkFacts
    <2>2. PICK pc : pc = IF dep[d].phase = "apply" THEN "check" ELSE "mark" OBVIOUS
    <2>3. pc \in Busyness /\ pc \in {"check", "mark"} BY <2>2 DEF Busyness, Reading
    <2>4. Edit(me, ok, pc, me.at) /\ ok.fate = me.fate /\ ok.found = me.found
      BY <1>3, <2>1, <2>2, <2>3, ToEdit
    <2>5. AtWork(ok) BY <2>1, <2>3, <2>4 DEF AtWork, Edit
    <2>6. ASSUME HoldsFence(p), dep[d].phase = "preflight" PROVE KnowsBuild(ok, d, ok.at)
      <3>1. KnowsBuild(me, d, me.at) BY <2>1, <2>6 DEF Knows
      <3>2. me.at = 1 /\ me.found = <<>> BY <1>1, <3>1 DEF KnowsBuild
      <3>3. pc = "mark" BY <2>2, <2>6
      <3>4. ok.pc = "mark" /\ ok.found = <<>> /\ ok.at = 1 BY <2>4, <3>2, <3>3 DEF Edit
      <3>5. Len(<<>>) = 0 OBVIOUS
      <3> QED BY <3>4, <3>5 DEF KnowsBuild, Reading
    <2>7. ASSUME HoldsFence(p), dep[d].phase # "preflight"
          PROVE  KnowsHosts(ok.pc, ok.fate, d, ok.at)
      <3>1. KnowsHosts(me.pc, me.fate, d, me.at) BY <2>1, <2>7 DEF Knows
      <3>2. me.at = 1 /\ touched[d] = {} BY <1>1, <3>1 DEF KnowsHosts
      <3>3. ok.pc = "check" /\ ok.at = 1 BY <2>1, <2>2, <2>4, <2>7, <3>2 DEF Edit
      <3>4. \A j \in DOMAIN Order[d] : ~(j < 1) BY <1>2, AtWorkFacts, OrderFacts
      <3> QED BY <3>2, <3>3, <3>4 DEF KnowsHosts, Reading, Switching, Restoring
    <2> QED BY <2>3, <2>4, <2>5, <2>6, <2>7 DEF Leads, Plain, Edit
  <1>9. Leads(p, Stopped(p, no)) /\ Plain(Stopped(p, no)) BY <1>7, StoppedLeads
  <1> QED BY <1>2, <1>5, <1>6, <1>7, <1>8, <1>9, StepAlone

\* Calls that say of a host nothing that the deployer must know.
LEMMA EarlyCalls ==
    ASSUME FleetIInv, NEW d \in Deployments, NEW h \in TargetHosts(d),
           NEW s \in {"preflighting", "build_ready", "skipped", "deploying", "verifying", "unknown",
                      "rollback_pending", "rolling_back", "rollback_failed"},
           s \in TargetTransitions(target[d][h])
    PROVE  MayTell(d, h, s) /\ s \in TargetStatuses
  <1>1. RowTruth(d, h) BY DEF FleetIInv, Truth
  <1>2. s \in TargetStatuses BY DEF TargetStatuses
  <1>3. target[d][h] \in TargetStatuses BY DEF FleetIInv, Ledger, LedgerTypes
  <1>4. s \in {"preflighting", "build_ready", "skipped"} => target[d][h] \in Untouching
    BY <1>3 DEF TargetTransitions, TargetStatuses, Untouching
  <1>5. s \in Untouching => s \in {"preflighting", "build_ready", "skipped"} BY DEF Untouching
  <1> QED BY <1>1, <1>2, <1>4, <1>5 DEF MayTell, RowTruth

LEMMA PreflightKeeps ==
    ASSUME FleetIInv, NEW p \in Deployers, Preflight(p) PROVE FleetIInv'
  <1> DEFINE me == proc[p]
             d == me.dep
  <1>1. me.pc \in Reading BY DEF Preflight, Reading
  <1>2. me.pc \notin {"idle", "giveup"} BY <1>1 DEF Reading
  <1>3. PICK no : no = To(p, "giveup") OBVIOUS
  <1>4. Leads(p, no) /\ Plain(no) BY <1>2, <1>3, GiveUpLeads
  <1>5. PICK h : h = Here(p) OBVIOUS
  <1>6. /\ AtWork(me) /\ me \in Worker /\ d \in Deployments /\ h \in TargetHosts(d) /\ h \in Hosts
        /\ me.at \in DOMAIN Order[d] /\ me.at \in Nat
        /\ HoldsFence(p) => Knows(me) /\ dep[d].phase \in {"preflight", "apply"}
    BY <1>2, <1>5, AtWorkFacts
  <1>7. HoldsFence(p) => dep[d].phase = "preflight" /\ KnowsBuild(me, d, me.at)
    BY <1>1, <1>6 DEF Knows, KnowsHosts
  \* The step of p from here to "to" within the preflight.
  <1>8. ASSUME NEW to, NEW pc \in Reading \cup {"finish"}, NEW i \in DOMAIN Order[d],
               Edit(me, to, pc, i), HoldsFence(p) => KnowsBuild(to, d, i)
        PROVE  Leads(p, to) /\ Plain(to)
    <2>1. AtWork(to) BY <1>6, <1>8 DEF AtWork, Edit, Reading
    <2> QED BY <1>7, <1>8, <2>1 DEF Leads, Plain, Edit, Reading
  <1>9. CASE me.pc = "mark"
    <2>1. PICK yes : yes = To(p, "read") OBVIOUS
    <2>2. Tell(p, h, "preflighting", yes, no) BY <1>3, <1>5, <1>9, <2>1 DEF Preflight
    <2>3. "read" \in Busyness /\ "read" \in Reading BY DEF Busyness, Reading
    <2>4. Edit(me, yes, "read", me.at) /\ yes.found = me.found BY <1>6, <2>1, <2>3, ToEdit
    <2>5. HoldsFence(p) => KnowsBuild(yes, d, me.at)
      BY <1>7, <1>9, <2>4 DEF KnowsBuild, Edit, Reading
    <2>6. Leads(p, yes) /\ Plain(yes) BY <1>6, <1>8, <2>3, <2>4, <2>5
    <2>7. "preflighting" \in TargetStatuses BY DEF TargetStatuses
    <2>8. "preflighting" \in TargetTransitions(target[d][h]) => MayTell(d, h, "preflighting")
      BY <1>6, EarlyCalls
    <2> QED BY <1>2, <1>4, <1>6, <2>2, <2>6, <2>7, <2>8, StepTells
  <1>10. CASE me.pc = "read"
    <2>1. PICK c : c = host[h] OBVIOUS
    <2>2. PICK ok : ok = [To(p, "ready") EXCEPT !.found = Append(@, c)] OBVIOUS
    <2>3. PICK bad : bad = To(p, "spoilt") OBVIOUS
    <2>4. UNCHANGED <<storeVars, host, seen, touched, adrift>> BY <1>10 DEF Preflight, Runs
    <2>5. Goes(p, ok) \/ Goes(p, bad) \/ Goes(p, Stopped(p, no))
      BY <1>3, <1>5, <1>10, <2>1, <2>2, <2>3 DEF Preflight, Runs
    <2>6. "ready" \in Busyness /\ "ready" \in Reading /\ "spoilt" \in Busyness /\ "spoilt" \in Reading
      BY DEF Busyness, Reading
    <2>7. c \in Closures BY <1>6, <2>1 DEF FleetIInv, Truth
    <2>8. me.found \in Seq(Closures) BY <1>6 DEF Worker
    <2>9. PICK f : f = Append(me.found, c) OBVIOUS
    <2>10. f \in Seq(Closures) /\ Len(f) = Len(me.found) + 1 BY <2>7, <2>8, <2>9
    <2>11. Edit(me, To(p, "ready"), "ready", me.at) /\ To(p, "ready").found = me.found
      BY <1>6, <2>6, ToEdit
    <2>12. ok = [To(p, "ready") EXCEPT !.found = f] BY <2>2, <2>9, <2>11 DEF Edit, Worker
    <2>13. Edit(me, ok, "ready", me.at) /\ ok.found = f
      <3>1. PICK r : r = To(p, "ready") OBVIOUS
      <3>2. r \in Worker /\ Edit(me, r, "ready", me.at) /\ ok = [r EXCEPT !.found = f]
        BY <2>11, <2>12, <3>1 DEF Edit
      <3>3. ok \in Worker BY <2>10, <3>2 DEF Worker
      <3> QED BY <3>2, <3>3 DEF Edit, Worker
    <2>14. HoldsFence(p) => KnowsBuild(ok, d, me.at)
      <3>1. HoldsFence(p) => Len(me.found) = me.at - 1 BY <1>7, <1>10 DEF KnowsBuild
      <3>2. Len(me.found) \in Nat BY <2>8
      <3>3. HoldsFence(p) => Len(ok.found) = me.at BY <1>6, <2>10, <2>13, <3>1, <3>2
      <3> QED BY <2>13, <3>3 DEF KnowsBuild, Edit, Reading
    <2>15. Leads(p, ok) /\ Plain(ok) BY <1>6, <1>8, <2>6, <2>13, <2>14
    <2>16. Edit(me, bad, "spoilt", me.at) /\ bad.found = me.found BY <1>6, <2>3, <2>6, ToEdit
    <2>17. HoldsFence(p) => KnowsBuild(bad, d, me.at)
      BY <1>7, <1>10, <2>16 DEF KnowsBuild, Edit, Reading
    <2>18. Leads(p, bad) /\ Plain(bad) BY <1>6, <1>8, <2>6, <2>16, <2>17
    <2>19. Leads(p, Stopped(p, no)) /\ Plain(Stopped(p, no)) BY <1>4, StoppedLeads
    <2> QED BY <1>2, <2>4, <2>5, <2>15, <2>18, <2>19, StepAlone
  <1>11. CASE me.pc = "spoilt"
    <2>1. Tell(p, h, "failed", no, no) BY <1>3, <1>5, <1>11 DEF Preflight
    <2>2. "failed" \in TargetStatuses BY DEF TargetStatuses
    <2>3. HoldsFence(p) => MayTell(d, h, "failed")
      <3>1. HoldsFence(p) => touched[d] = {}
        BY <1>6, <1>7 DEF FleetIInv, Ledger, LedgerFits, SoundPast
      <3> QED BY <3>1 DEF MayTell
    <2> QED BY <1>2, <1>4, <1>6, <2>1, <2>2, <2>3, StepTells
  <1>12. CASE me.pc = "ready"
    <2>1. PICK yes : yes = Onward(p, "mark", "finish") OBVIOUS
    <2>2. Tell(p, h, "build_ready", yes, no) BY <1>3, <1>5, <1>12, <2>1 DEF Preflight
    <2>3. "mark" \in Busyness \ {"skip"} /\ "finish" \in Busyness \ {"skip"} /\ "mark" \in Reading
      BY DEF Busyness, Reading
    <2>4. /\ yes.found = me.found
          /\ me.at < Len(Order[d]) => Edit(me, yes, "mark", me.at + 1) /\ me.at + 1 \in DOMAIN Order[d]
          /\ ~(me.at < Len(Order[d])) =>
                Edit(me, yes, "finish", 1) /\ 1 \in DOMAIN Order[d] /\ me.at = Len(Order[d])
      BY <1>6, <2>1, <2>3, OnwardEdit
    <2>5. HoldsFence(p) => Len(me.found) = me.at BY <1>7, <1>12 DEF KnowsBuild
    <2>6. Leads(p, yes) /\ Plain(yes)
      <3>1. CASE me.at < Len(Order[d])
        <4>1. HoldsFence(p) => KnowsBuild(yes, d, me.at + 1)
          BY <1>6, <2>4, <2>5, <3>1 DEF KnowsBuild, Edit, Reading
        <4> QED BY <1>8, <2>3, <2>4, <3>1, <4>1
      <3>2. CASE ~(me.at < Len(Order[d]))
        <4>1. HoldsFence(p) => KnowsBuild(yes, d, 1)
          BY <2>4, <2>5, <3>2 DEF KnowsBuild, Edit, Reading
        <4> QED BY <1>8, <2>4, <3>2, <4>1
      <3> QED BY <3>1, <3>2
    <2>7. "build_ready" \in TargetStatuses BY DEF TargetStatuses
    <2>8. "build_ready" \in TargetTransitions(target[d][h]) => MayTell(d, h, "build_ready")
      BY <1>6, EarlyCalls
    <2> QED BY <1>2, <1>4, <1>6, <2>2, <2>6, <2>7, <2>8, StepTells
  <1> QED BY <1>1, <1>9, <1>10, <1>11, <1>12 DEF Reading

\* A deployer with the lease, past the comparison of the hosts, is in the apply.
LEMMA InApply ==
    ASSUME FleetIInv, NEW p \in Deployers,
           proc[p].pc \notin Reading \cup {"idle", "start", "finish", "giveup"}, HoldsFence(p)
    PROVE  /\ dep[proc[p].dep].phase = "apply" /\ dep[proc[p].dep].phase # "preflight"
           /\ KnowsHosts(proc[p].pc, proc[p].fate, proc[p].dep, proc[p].at)
           /\ KnowsRow(proc[p].pc, proc[p].dep, proc[p].at)
           /\ KnowsPast(proc[p].dep)
  <1>1. /\ Knows(proc[p]) /\ dep[proc[p].dep].phase \in {"preflight", "apply"}
    BY AtWorkFacts
  <1>2. dep[proc[p].dep].phase # "preflight" BY <1>1 DEF Knows, KnowsBuild
  <1> QED BY <1>1, <1>2 DEF Knows

LEMMA CheckHostKeeps ==
    ASSUME FleetIInv, NEW p \in Deployers, CheckHost(p) PROVE FleetIInv'
  <1> DEFINE me == proc[p]
             d == me.dep
  <1>1. me.pc = "check" BY DEF CheckHost
  <1>2. me.pc \notin {"idle", "giveup"} BY <1>1
  <1>3. PICK no : no = To(p, "giveup") OBVIOUS
  <1>4. Leads(p, no) /\ Plain(no) BY <1>2, <1>3, GiveUpLeads
  <1>5. Leads(p, Stopped(p, no)) /\ Plain(Stopped(p, no)) BY <1>4, StoppedLeads
  <1>6. PICK ok : ok = Onward(p, "check", "begin") OBVIOUS
  <1>7. UNCHANGED <<storeVars, host, seen, touched, adrift>> BY DEF CheckHost, Runs
  <1>8. (Unchanged(p) /\ Goes(p, ok)) \/ Goes(p, no) \/ Goes(p, Stopped(p, no))
    BY <1>3, <1>6 DEF CheckHost, Runs
  <1>9. ASSUME Unchanged(p) PROVE Leads(p, ok) /\ Plain(ok)
    <2>1. /\ AtWork(me) /\ d \in Deployments /\ me.at \in DOMAIN Order[d] /\ me.at \in Nat \ {0}
      BY <1>2, AtWorkFacts
    <2>2. DOMAIN Order[d] = 1 .. Len(Order[d]) /\ Len(Order[d]) \in Nat BY <2>1, OrderFacts
    <2>3. "check" \in Busyness \ {"skip"} /\ "begin" \in Busyness \ {"skip"}
      BY DEF Busyness, Switching
    <2>4. /\ me.at < Len(Order[d]) => Edit(me, ok, "check", me.at + 1) /\ me.at + 1 \in DOMAIN Order[d]
          /\ ~(me.at < Len(Order[d])) =>
                Edit(me, ok, "begin", 1) /\ 1 \in DOMAIN Order[d] /\ me.at = Len(Order[d])
      BY <1>6, <2>1, <2>3, OnwardEdit
    <2>5. ok.pc \in {"check", "begin"} /\ Edit(me, ok, ok.pc, ok.at) /\ ok.at \in DOMAIN Order[d]
      BY <2>4 DEF Edit
    <2>6. AtWork(ok) BY <2>5 DEF AtWork, Edit
    <2>7. ASSUME HoldsFence(p)
          PROVE  dep[d].phase # "preflight" /\ KnowsHosts(ok.pc, ok.fate, d, ok.at)
      <3>1. dep[d].phase # "preflight" /\ KnowsHosts("check", me.fate, d, me.at)
        BY <1>1, <2>7, InApply DEF Reading
      <3>2. touched[d] = {} /\ \A j \in DOMAIN Order[d] : j < me.at => AsSeen(d, j)
        BY <3>1 DEF KnowsHosts
      <3>3. AsSeen(d, me.at)
        <4>1. PICK c : c = host[Here(p)] OBVIOUS
        <4>2. dep[d].preview[me.at] = c /\ host[Order[d][me.at]] = c
          BY <1>9, <4>1 DEF Unchanged, Here
        <4>3. HostFits(Here(p)) BY <1>2, AtWorkFacts DEF FleetIInv, Truth
        <4>4. c \in Deployments => Order[d][me.at] \in touched[c]
          BY <4>1, <4>3 DEF HostFits, Here
        <4> QED BY <4>2, <4>4 DEF AsSeen, Shows
      <3>4. \A j \in DOMAIN Order[d] : j < me.at + 1 => AsSeen(d, j)
        BY <2>1, <2>2, <3>2, <3>3
      <3>5. CASE me.at < Len(Order[d])
        <4>1. ok.pc = "check" /\ ok.at = me.at + 1 BY <2>4, <3>5 DEF Edit
        <4> QED BY <3>1, <3>2, <3>4, <4>1 DEF KnowsHosts, Reading, Switching, Restoring
      <3>6. CASE ~(me.at < Len(Order[d]))
        <4>1. ok.pc = "begin" /\ ok.at = 1 /\ me.at = Len(Order[d]) /\ 1 \in DOMAIN Order[d]
          BY <2>4, <3>6 DEF Edit
        <4>2. \A j \in DOMAIN Order[d] : AsSeen(d, j) /\ ~Begun(d, j) /\ ~Left(d, j) /\ ~(j < 1)
          BY <2>2, <3>2, <3>4, <4>1, NoneLeft DEF Begun, FleetIInv
        <4> QED BY <3>1, <4>1, <4>2 DEF KnowsHosts, Reading, Switching, Restoring
      <3> QED BY <3>5, <3>6
    <2> QED BY <2>5, <2>6, <2>7 DEF Leads, Plain, Edit
  <1> QED BY <1>2, <1>4, <1>5, <1>7, <1>8, <1>9, StepAlone

\* begin: the host is announced.
LEMMA BeginKeeps ==
    ASSUME FleetIInv, NEW p \in Deployers, proc[p].pc = "begin", Activate(p) PROVE FleetIInv'
  <1> DEFINE me == proc[p]
             d == me.dep
  <1>1. me.pc \notin {"idle", "giveup"} OBVIOUS
  <1>2. PICK h : h = Here(p) OBVIOUS
  <1>3. /\ AtWork(me) /\ me \in Worker /\ d \in Deployments /\ h \in TargetHosts(d)
        /\ me.at \in DOMAIN Order[d] /\ me.at \in Nat \ {0}
    BY <1>1, <1>2, AtWorkFacts
  <1>4. HoldsFence(p) => dep[d].phase # "preflight" /\ KnowsHosts("begin", me.fate, d, me.at)
    BY InApply DEF Reading
  <1>5. CASE GuardOn(p)
    <2>1. PICK yes : yes = To(p, "copy") OBVIOUS
    <2>2. PICK no : no = Fails(p, "failed") OBVIOUS
    <2>3. Tell(p, h, "deploying", yes, no) BY <1>2, <1>5, <2>1, <2>2 DEF Activate
    <2>4. Leads(p, no) /\ Plain(no)
      <3>1. HoldsFence(p) =>
               /\ dep[d].phase # "preflight"
               /\ \A j \in DOMAIN Order[d] : j < me.at => Begun(d, j) /\ ~Left(d, j)
               /\ ~Begun(d, me.at)
        BY <1>4 DEF KnowsHosts, Switching
      <3> QED BY <1>1, <2>2, <3>1, FailsLeads
    <2>5. "copy" \in Busyness \ {"skip", "switching", "restoring"} BY DEF Busyness, Switching
    <2>6. HoldsFence(p) => KnowsHosts("copy", me.fate, d, me.at)
      BY <1>4 DEF KnowsHosts, Switching, Restoring, Reading
    <2>7. Leads(p, yes) /\ yes.pc = "copy" /\ yes.dep = d /\ yes.at = me.at
      BY <1>1, <1>4, <2>1, <2>5, <2>6, HereLeads
    <2>8. h = Order[yes.dep][yes.at] BY <1>2, <2>7 DEF Here
    <2>9. "deploying" \in TargetStatuses BY DEF TargetStatuses
    <2>10. "deploying" \in TargetTransitions(target[d][h]) => MayTell(d, h, "deploying")
      BY <1>3, EarlyCalls
    <2> QED BY <1>1, <1>3, <2>3, <2>4, <2>7, <2>8, <2>9, <2>10, StepTells
  <1>6. CASE ~GuardOn(p)
    <2>1. PICK x : x = SkipFrom(p, me.at) OBVIOUS
    <2>2. PICK to : to = [x EXCEPT !.fate = "cancelled"] OBVIOUS
    <2>3. Goes(p, Stopped(p, to)) /\ UNCHANGED <<storeVars, host, seen, touched, adrift>>
      BY <1>6, <2>1, <2>2 DEF Activate
    <2>4. Edit(me, x, "skip", me.at) /\ x.cursor = me.at BY <1>3, <2>1, SkipEdit
    <2>5. Edit(me, to, "skip", me.at) /\ to.cursor = me.at
      <3>1. x \in Worker BY <2>4 DEF Edit
      <3>2. to \in Worker BY <2>2, <3>1 DEF Worker
      <3> QED BY <2>2, <2>4, <3>1, <3>2 DEF Edit, Worker
    <2>6. AtWork(to) BY <1>3, <2>5 DEF AtWork, Edit
    <2>7. HoldsFence(p) => KnowsHosts("skip", to.fate, d, me.at)
      BY <1>4 DEF KnowsHosts, Switching, Restoring, Reading
    <2>8. Leads(p, to) /\ Plain(to) BY <1>4, <2>5, <2>6, <2>7 DEF Leads, Plain, Edit
    <2>9. Leads(p, Stopped(p, to)) /\ Plain(Stopped(p, to)) BY <2>8, StoppedLeads
    <2> QED BY <1>1, <2>3, <2>9, StepAlone
  <1> QED BY <1>5, <1>6

\* copy: what is not there yet is copied; the host is still as it was.
LEMMA CopyKeeps ==
    ASSUME FleetIInv, NEW p \in Deployers, proc[p].pc = "copy", Activate(p) PROVE FleetIInv'
  <1> DEFINE me == proc[p]
             d == me.dep
  <1>1. me.pc \notin {"idle", "giveup"} OBVIOUS
  <1>2. HoldsFence(p) => /\ dep[d].phase # "preflight" /\ KnowsHosts("copy", me.fate, d, me.at)
                         /\ KnowsRow("copy", d, me.at)
    BY InApply DEF Reading
  <1>3. PICK ok : ok = To(p, "switch") OBVIOUS
  <1>4. PICK bad : bad = Fails(p, "failed") OBVIOUS
  <1>5. PICK end : end = Fails(p, "cancelled") OBVIOUS
  <1>6. UNCHANGED <<storeVars, host, seen, touched, adrift>> BY DEF Activate, Runs
  <1>7. Goes(p, ok) \/ Goes(p, bad) \/ Goes(p, Stopped(p, end))
    BY <1>3, <1>4, <1>5 DEF Activate, Runs
  <1>8. HoldsFence(p) =>
           /\ dep[d].phase # "preflight"
           /\ \A j \in DOMAIN Order[d] : j < me.at => Begun(d, j) /\ ~Left(d, j)
           /\ ~Begun(d, me.at)
    BY <1>2 DEF KnowsHosts, Switching
  <1>9. Leads(p, bad) /\ Plain(bad) BY <1>1, <1>4, <1>8, FailsLeads
  <1>10. Leads(p, Stopped(p, end)) /\ Plain(Stopped(p, end))
    <2>1. Leads(p, end) /\ Plain(end) BY <1>1, <1>5, <1>8, FailsLeads
    <2> QED BY <2>1, StoppedLeads
  <1>11. "switch" \in Busyness \ {"skip", "switching", "restoring"} BY DEF Busyness, Switching
  <1>12. HoldsFence(p) => KnowsHosts("switch", me.fate, d, me.at)
    BY <1>2 DEF KnowsHosts, Switching, Restoring, Reading
  <1>13. Leads(p, ok) /\ ok.pc = "switch" /\ ok.dep = d /\ ok.at = me.at
    BY <1>1, <1>2, <1>3, <1>11, <1>12, HereLeads
  <1>14. HoldsFence(p) => KnowsRow(ok.pc, ok.dep, ok.at) BY <1>2, <1>13 DEF KnowsRow
  <1>15. CASE Goes(p, ok) BY <1>1, <1>6, <1>13, <1>14, <1>15, StepAlone
  <1>16. CASE Goes(p, bad) BY <1>1, <1>6, <1>9, <1>16, StepAlone
  <1>17. CASE Goes(p, Stopped(p, end)) BY <1>1, <1>6, <1>10, <1>17, StepAlone
  <1> QED BY <1>7, <1>15, <1>16, <1>17

\* switch: the activation is announced, and from now on the host is in doubt.
LEMMA SwitchKeeps ==
    ASSUME FleetIInv, NEW p \in Deployers, proc[p].pc = "switch", Activate(p) PROVE FleetIInv'
  <1>0. PICK me : me = proc[p] OBVIOUS
  <1>1. PICK d : d = me.dep OBVIOUS
  <1>2. PICK h : h = Here(p) OBVIOUS
  <1>3. me.pc = "switch" /\ proc[p].pc \notin {"idle", "giveup"} BY <1>0
  <1>4. /\ WorkerFits(p, me) /\ AtWork(me) /\ me \in Worker /\ d \in Deployments
        /\ h \in TargetHosts(d) /\ me.at \in DOMAIN Order[d] /\ me.at \in Nat \ {0}
        /\ h = Order[d][me.at] /\ (GuardOn(p) => HoldsFence(p))
    BY <1>0, <1>1, <1>2, <1>3, AtWorkFacts DEF Here
  <1>5. HoldsFence(p) =>
           /\ dep[d].phase = "apply" /\ dep[d].phase # "preflight" /\ dep[d].live
           /\ dep[d].deployer = p
           /\ KnowsHosts("switch", me.fate, d, me.at)
           /\ KnowsRow("switch", d, me.at) /\ KnowsPast(d)
    BY <1>0, <1>1, <1>3, AtWorkFacts, InApply DEF Reading
  <1>6. CASE GuardOn(p)
    <2>1. HoldsFence(p) /\ HoldsLease(p, me.dep, me.fence) BY <1>0, <1>4, <1>6 DEF HoldsFence
    <2>2. PICK to : to = To(p, "switching") OBVIOUS
    <2>3. /\ Goes(p, to) /\ touched' = [touched EXCEPT ![d] = @ \cup {h}]
          /\ UNCHANGED <<storeVars, host, seen, adrift>>
      BY <1>0, <1>1, <1>2, <1>3, <1>6, <2>2 DEF Activate
    <2>4. UNCHANGED <<dep, target, lock, approval>> BY <2>3 DEF storeVars
    <2>5. "switching" \in Busyness BY DEF Busyness, Switching
    <2>6. Edit(me, to, "switching", me.at) /\ to.fate = me.fate BY <1>0, <1>4, <2>2, <2>5, ToEdit
    <2>7. Ledger' /\ \A e \in Deployments : Turns(e, {}) /\ Stays(e)
      BY <1>4, <1>5, <2>1, <2>3, TouchStep DEF FleetIInv
    <2>8. /\ target[d][h] = "deploying" /\ AsSeen(d, me.at)
          /\ Before(d, h) \in Deployments => h \in touched[Before(d, h)]
      <3>1. AsSeen(d, me.at) BY <1>5, <2>1 DEF KnowsHosts
      <3>2. target[d][h] = "deploying" BY <1>4, <1>5, <2>1 DEF KnowsRow
      <3>3. Before(d, h) = dep[d].preview[me.at] BY <1>4, BeforeHere
      <3> QED BY <1>4, <3>1, <3>2, <3>3 DEF AsSeen
    <2>9. Truth' BY <1>4, <1>5, <2>1, <2>3, <2>4, <2>8, TruthOfTouch DEF FleetIInv
    <2>10. /\ touched'[d] = touched[d] \cup {h}
           /\ \A e \in Deployments \ {d} : touched'[e] = touched[e]
      BY <1>4, <2>3 DEF FleetIInv, Ledger, LedgerTypes
    <2>11. \A j \in DOMAIN Order[d] : Begun(d, j)' <=> Begun(d, j) \/ j = me.at
      <3>1. \A j \in DOMAIN Order[d] : Order[d][j] = h <=> j = me.at
        BY <1>4, OrderFacts
      <3> QED BY <2>10, <3>1 DEF Begun
    <2>12. \A e, g : LeftOn(e, g)' <=> LeftOn(e, g) BY <2>3 DEF LeftOn
    <2>13. \A e, g : Strayed(e, g)' <=> Strayed(e, g) BY <2>12 DEF Strayed
    <2>14. \A j : /\ Shows(d, j)' <=> Shows(d, j)
                  /\ Serves(d, j)' <=> Serves(d, j)
                  /\ Left(d, j)' <=> Left(d, j)
      BY <2>3, <2>4, <2>12, <2>13 DEF Shows, Serves, Left
    <2>15. \A j : AsSeen(d, j) => AsSeen(d, j)' BY <2>4, <2>10, <2>14 DEF AsSeen
    <2>16. HoldsLease(p, to.dep, to.fence)' BY <2>1, <2>4, <2>6 DEF HoldsLease, Edit
    <2>17. Knows(to)'
      <3>1. KnowsHosts("switching", me.fate, d, me.at)'
        BY <1>4, <1>5, <2>1, <2>11, <2>14, <2>15
        DEF KnowsHosts, Reading, Switching, Restoring
      <3>2. KnowsRow("switching", d, me.at)' BY <1>4, <2>4, <2>8 DEF KnowsRow
      <3>3. KnowsPast(d)'
        <4>1. \A j \in DOMAIN Order[d] : Begun(d, j) => Serves(d, j) \/ Shows(d, j)
          BY <1>5, <2>1 DEF KnowsPast
        <4>2. Shows(d, me.at) BY <2>8 DEF AsSeen
        <4> QED BY <2>11, <2>14, <4>1, <4>2 DEF KnowsPast
      <3>4. dep'[d].phase # "preflight" BY <1>5, <2>1, <2>4
      <3> QED BY <1>1, <2>6, <3>1, <3>2, <3>3, <3>4 DEF Knows, Edit
    <2>18. WorkerFits(p, to)'
      <3>1. AtWork(to)' BY <1>1, <1>4, <2>6 DEF AtWork, Edit
      <3>2. Vouches(p, to)' BY <2>16 DEF Vouches
      <3> QED BY <2>17, <3>1, <3>2 DEF WorkerFits
    <2>19. LeavesToOthers(p)
      <3>1. \A e \in Deployments : touched[e] \subseteq touched'[e] BY <2>10
      <3> QED BY <1>5, <2>1, <2>3, <2>4, <2>7, <2>10, <2>12, <3>1 DEF LeavesToOthers
    <2>20. \A e \in Deployments : Turns(e, {}) BY <2>7
    <2> QED BY <2>3, <2>7, <2>9, <2>18, <2>19, <2>20, StepOfOne
  <1>7. CASE ~GuardOn(p)
    <2>1. PICK to : to = Fails(p, "unknown") OBVIOUS
    <2>2. Goes(p, Stopped(p, to)) /\ UNCHANGED <<storeVars, host, seen, touched, adrift>>
      BY <1>0, <1>3, <1>7, <2>1 DEF Activate
    <2>3. HoldsFence(p) =>
             /\ dep[d].phase # "preflight"
             /\ \A j \in DOMAIN Order[d] : j < me.at => Begun(d, j) /\ ~Left(d, j)
      BY <1>5 DEF KnowsHosts, Switching
    <2>4. Leads(p, to) /\ Plain(to) BY <1>0, <1>1, <1>3, <2>1, <2>3, FailsLeads
    <2>5. Leads(p, Stopped(p, to)) /\ Plain(Stopped(p, to)) BY <2>4, StoppedLeads
    <2> QED BY <1>3, <2>2, <2>5, StepAlone
  <1> QED BY <1>6, <1>7

\* What becomes of a switch to c on the host that p is at.
HostPut(p, c) == host' = [host EXCEPT ![Here(p)] = c] /\ adrift' = adrift

Drifts(p, c) ==
    /\ adrift' = adrift \cup {[dep |-> proc[p].dep, host |-> Here(p), to |-> c, over |-> FALSE]}
    /\ host' = host

Severs(p, c) == HostPut(p, c) \/ Drifts(p, c) \/ UNCHANGED <<host, adrift>>

\* A switch without an exit status is one of these.
LEMMA SeveredSevers ==
    ASSUME Truth, NEW p, NEW c, Severed(proc[p].dep, Here(p), c)
    PROVE  Severs(p, c)
  <1>1. CASE \E x \in {host[Here(p)], c} : host' = [host EXCEPT ![Here(p)] = x] /\ UNCHANGED adrift
    <2>1. PICK x \in {host[Here(p)], c} : host' = [host EXCEPT ![Here(p)] = x] /\ UNCHANGED adrift
      BY <1>1
    <2>2. CASE x = c BY <2>1, <2>2 DEF Severs, HostPut
    <2>3. CASE x = host[Here(p)]
      <3>1. host' = host BY <2>1, <2>3 DEF Truth
      <3> QED BY <2>1, <3>1 DEF Severs
    <2> QED BY <2>1, <2>2, <2>3
  <1>2. CASE ~\E x \in {host[Here(p)], c} : host' = [host EXCEPT ![Here(p)] = x] /\ UNCHANGED adrift
    BY <1>2 DEF Severed, Severs, Drifts
  <1> QED BY <1>1, <1>2

\* The hosts that me is not at are as they were.
OthersSeen(me) ==
    /\ dep'[me.dep].phase # "preflight"
    /\ \A j : Begun(me.dep, j)' <=> Begun(me.dep, j)
    /\ \A j \in DOMAIN Order[me.dep] : j # me.at =>
          /\ AsSeen(me.dep, j)' <=> AsSeen(me.dep, j)
          /\ Shows(me.dep, j)' <=> Shows(me.dep, j)
          /\ Serves(me.dep, j)' <=> Serves(me.dep, j)
          /\ Left(me.dep, j)' <=> Left(me.dep, j)

\* On its own host there is now c.
HostIs(me, c) ==
    /\ Left(me.dep, me.at)' <=> Left(me.dep, me.at)
    /\ c = me.dep => Serves(me.dep, me.at)'
    /\ c = dep[me.dep].preview[me.at] => Shows(me.dep, me.at)'

\* A command on the host of p, whatever becomes of it: what it leaves, ...
LEMMA HostAfter ==
    ASSUME FleetIInv, NEW p \in Deployers, NEW me, me = proc[p],
           me.pc \in {"switching", "restoring"}, NEW c, Severs(p, c),
           UNCHANGED <<storeVars, touched>>
    PROVE  /\ HoldsFence(p) /\ dep[me.dep].phase = "apply"
           /\ KnowsHosts(me.pc, me.fate, me.dep, me.at)
           /\ OthersSeen(me)
           /\ HostPut(p, c) => HostIs(me, c)
           /\ ~HostPut(p, c) => /\ Shows(me.dep, me.at)' <=> Shows(me.dep, me.at)
                                /\ Serves(me.dep, me.at)' <=> Serves(me.dep, me.at)
  <1>1. PICK d : d = me.dep OBVIOUS
  <1>2. PICK i : i = me.at OBVIOUS
  <1>3. PICK h : h = Here(p) OBVIOUS
  <1>4. proc[p].pc \notin {"idle", "start", "finish", "giveup"} OBVIOUS
  <1>5. /\ WorkerFits(p, me) /\ d \in Deployments /\ i \in DOMAIN Order[d]
        /\ h = Order[d][i] /\ h \in Hosts
    BY <1>1, <1>2, <1>3, <1>4, AtWorkFacts DEF Here
  <1>6. HoldsFence(p) BY <1>1, <1>5 DEF WorkerFits, Vouches, HoldsFence
  <1>7. dep[d].phase = "apply" /\ KnowsHosts(me.pc, me.fate, d, i)
    BY <1>1, <1>2, <1>4, <1>6, InApply DEF Reading
  <1>8. dep' = dep /\ touched' = touched BY DEF storeVars
  <1>9. \A j : Begun(d, j)' <=> Begun(d, j) BY DEF Begun
  <1>10. HostPut(p, c) => host'[h] = c /\ \A g \in Hosts \ {h} : host'[g] = host[g]
    BY <1>3, <1>5 DEF FleetIInv, Truth, HostPut
  <1>11. ~HostPut(p, c) => host' = host BY DEF Severs, Drifts
  <1>12. /\ \A e, g : e # d \/ g # h => (LeftOn(e, g)' <=> LeftOn(e, g))
         /\ HostPut(p, c) => \A e, g : LeftOn(e, g)' <=> LeftOn(e, g)
    <2>1. CASE adrift' = adrift BY <2>1 DEF LeftOn
    <2>2. CASE Drifts(p, c)
      <3>1. adrift' = adrift \cup {[dep |-> d, host |-> h, to |-> c, over |-> FALSE]}
        BY <1>1, <1>3, <2>2 DEF Drifts
      <3> QED BY <3>1 DEF LeftOn, HostPut
    <2> QED BY <2>1, <2>2 DEF Severs, HostPut
  <1>13. \A g : Strayed(d, g)' <=> Strayed(d, g) BY <1>12 DEF Strayed
  <1>14. ASSUME NEW j \in DOMAIN Order[d], j # i
         PROVE  /\ AsSeen(d, j)' <=> AsSeen(d, j)
                /\ Shows(d, j)' <=> Shows(d, j)
                /\ Serves(d, j)' <=> Serves(d, j)
                /\ Left(d, j)' <=> Left(d, j)
    <2>1. Order[d][j] \in Hosts \ {h} BY <1>5, <1>14, OrderFacts
    <2>2. host'[Order[d][j]] = host[Order[d][j]] BY <1>10, <1>11, <2>1
    <2>3. (Shows(d, j)' <=> Shows(d, j)) /\ (Serves(d, j)' <=> Serves(d, j))
      BY <1>8, <1>13, <2>2 DEF Shows, Serves
    <2>4. Left(d, j)' <=> Left(d, j) BY <1>12, <2>1 DEF Left
    <2>5. AsSeen(d, j)' <=> AsSeen(d, j) BY <1>8, <2>3 DEF AsSeen
    <2> QED BY <2>3, <2>4, <2>5
  <1>15. dep'[d].phase # "preflight" BY <1>7, <1>8
  <1>16. OthersSeen(me) BY <1>1, <1>2, <1>9, <1>14, <1>15 DEF OthersSeen
  <1>17. HostPut(p, c) => HostIs(me, c)
    BY <1>1, <1>2, <1>5, <1>8, <1>10, <1>12 DEF HostIs, Left, Serves, Shows
  <1>18. ~HostPut(p, c) => (Shows(d, i)' <=> Shows(d, i)) /\ (Serves(d, i)' <=> Serves(d, i))
    BY <1>8, <1>11, <1>13 DEF Shows, Serves
  <1> QED BY <1>1, <1>2, <1>6, <1>7, <1>16, <1>17, <1>18

\* Before that, the host ran one of the two closures, unless a switch was left behind there.
LEMMA HostKnown ==
    ASSUME FleetIInv, NEW p \in Deployers, proc[p].pc \in {"switching", "restoring"}
    PROVE  /\ HoldsFence(p) /\ Begun(proc[p].dep, proc[p].at)
           /\ Serves(proc[p].dep, proc[p].at) \/ Shows(proc[p].dep, proc[p].at)
  <1> DEFINE me == proc[p]
             d == me.dep
  <1>1. me.pc \notin Reading \cup {"idle", "start", "finish", "giveup"} BY DEF Reading
  <1>2. WorkerFits(p, me) /\ me.at \in DOMAIN Order[d] /\ me.at \in Nat BY <1>1, AtWorkFacts
  <1>3. HoldsFence(p) BY <1>2 DEF WorkerFits, Vouches, HoldsFence
  <1>4. KnowsHosts(me.pc, me.fate, d, me.at) /\ KnowsPast(d) BY <1>1, <1>3, InApply
  <1>5. Begun(d, me.at) BY <1>2, <1>4 DEF KnowsHosts, Restoring
  <1>6. Serves(d, me.at) \/ Shows(d, me.at) BY <1>2, <1>4, <1>5 DEF KnowsPast
  <1> QED BY <1>3, <1>5, <1>6

\* ... and that every other deployer, and what the rows say, can live with it.
LEMMA HostStep ==
    ASSUME FleetIInv, NEW p \in Deployers, proc[p].pc \in {"switching", "restoring"},
           NEW c \in {proc[p].dep, dep[proc[p].dep].preview[proc[p].at]},
           Severs(p, c), UNCHANGED <<storeVars, seen, touched>>,
           NEW to, Goes(p, to),
           \/ to = Resting
           \/ /\ AtWork(to) /\ Plain(to) /\ to.pc \notin {"switching", "restoring"}
              /\ to.dep = proc[p].dep /\ to.fence = proc[p].fence
              /\ KnowsHosts(to.pc, to.fate, to.dep, to.at)'
    PROVE  FleetIInv'
  <1>0. PICK me : me = proc[p] OBVIOUS
  <1>1. PICK d : d = me.dep OBVIOUS
  <1>2. PICK i : i = me.at OBVIOUS
  <1>3. PICK h : h = Here(p) OBVIOUS
  <1>4. proc[p].pc \notin {"idle", "start", "finish", "giveup"} OBVIOUS
  <1>5. /\ HoldsFence(p) /\ dep[d].phase = "apply" /\ OthersSeen(me)
        /\ HostPut(p, c) => HostIs(me, c)
        /\ ~HostPut(p, c) => /\ Shows(d, i)' <=> Shows(d, i)
                             /\ Serves(d, i)' <=> Serves(d, i)
        /\ Begun(d, i) /\ (Serves(d, i) \/ Shows(d, i))
    <2>1. me.pc \in {"switching", "restoring"} BY <1>0
    <2>2. UNCHANGED <<storeVars, touched>> OBVIOUS
    <2>3. /\ HoldsFence(p) /\ dep[me.dep].phase = "apply" /\ OthersSeen(me)
          /\ HostPut(p, c) => HostIs(me, c)
          /\ ~HostPut(p, c) => /\ Shows(me.dep, me.at)' <=> Shows(me.dep, me.at)
                               /\ Serves(me.dep, me.at)' <=> Serves(me.dep, me.at)
      BY <1>0, <2>1, <2>2, HostAfter
    <2>4. Begun(me.dep, me.at) /\ (Serves(me.dep, me.at) \/ Shows(me.dep, me.at))
      BY <1>0, HostKnown
    <2> QED BY <1>1, <1>2, <2>3, <2>4
  <1>6. /\ d \in Deployments /\ i \in DOMAIN Order[d] /\ h \in TargetHosts(d) /\ h \in Hosts
        /\ h = Order[d][i] /\ dep[d].live /\ dep[d].deployer = p
        /\ \A g \in TargetHosts(d) : lock[g] = d
    <2>1. HoldsFence(p) /\ dep[d].phase = "apply" BY <1>5
    <2>2. h = Order[d][i] BY <1>0, <1>1, <1>2, <1>3 DEF Here
    <2>3. /\ me.dep \in Deployments /\ me.at \in DOMAIN Order[me.dep]
          /\ h \in TargetHosts(me.dep) /\ h \in Hosts
      BY <1>0, <1>3, <1>4, AtWorkFacts
    <2>4. /\ dep[me.dep].live /\ dep[me.dep].deployer = p
          /\ dep[me.dep].phase = "apply" => \A g \in TargetHosts(me.dep) : lock[g] = me.dep
      BY <1>0, <1>4, <2>1, AtWorkFacts
    <2> QED BY <1>1, <1>2, <2>1, <2>2, <2>3, <2>4
  <1>7. KnowsRow(me.pc, d, i) /\ KnowsPast(d)
    BY <1>0, <1>1, <1>2, <1>4, <1>5, InApply DEF Reading
  <1>8. UNCHANGED <<dep, target, lock, approval>> BY DEF storeVars
  <1>9. Ledger' BY <1>8 DEF FleetIInv, Ledger, LedgerTypes, LedgerFits
  <1>10. \A e \in Deployments : Turns(e, {}) /\ Stays(e) BY <1>8, SameRowTurns
  <1>11. c \in {d, dep[d].preview[i]} BY <1>0, <1>1, <1>2
  <1>12. Truth'
    <2>1. h \in touched[d] BY <1>5, <1>6 DEF Begun
    <2>2. target[d][h] \in {"deploying", "rolling_back"} BY <1>0, <1>6, <1>7 DEF KnowsRow
    <2>3. Before(d, h) = dep[d].preview[i] BY <1>6, BeforeHere
    <2>4. host[h] \in {d, Before(d, h)} \/ Strayed(d, h)
      BY <1>5, <1>6, <2>3 DEF Serves, Shows
    <2>5. c \in {d, Before(d, h)} BY <1>11, <2>3
    <2>6. Ledger /\ Truth BY DEF FleetIInv
    <2>7. UNCHANGED <<dep, target, touched>> BY <1>8
    <2>8. CASE HostPut(p, c)
      <3>1. host' = [host EXCEPT ![h] = c] /\ adrift' = adrift BY <1>3, <2>8 DEF HostPut
      <3> QED BY <1>5, <1>6, <2>1, <2>2, <2>4, <2>5, <2>6, <2>7, <3>1, TruthOfSwitch
    <2>9. CASE Drifts(p, c)
      <3>1. /\ adrift' = adrift \cup {[dep |-> d, host |-> h, to |-> c, over |-> FALSE]}
            /\ host' = host
        BY <1>0, <1>1, <1>3, <2>9 DEF Drifts
      <3> QED BY <1>5, <1>6, <2>1, <2>2, <2>5, <2>6, <2>7, <3>1, TruthOfDrift
    <2>10. CASE UNCHANGED <<host, adrift>>
      <3>1. \A e \in Deployments : Turns(e, {}) BY <1>10
      <3>2. \A e \in Deployments : \A g \in TargetHosts(e) : target'[e][g] = target[e][g] BY <1>8
      <3> QED BY <2>6, <2>7, <2>10, <3>1, <3>2, TruthOfCalls
    <2> QED BY <2>8, <2>9, <2>10 DEF Severs
  <1>13. LeavesToOthers(p)
    <2>1. \A e, g : LeftOn(e, g) => LeftOn(e, g)' BY DEF LeftOn, Severs, HostPut, Drifts
    <2>2. \A e, g : LeftOn(e, g)' => LeftOn(e, g) \/ e = d
      <3>1. CASE adrift' = adrift BY <3>1 DEF LeftOn
      <3>2. CASE Drifts(p, c) BY <1>0, <1>1, <3>2 DEF LeftOn, Drifts
      <3> QED BY <3>1, <3>2 DEF Severs, HostPut
    <2>3. \A g \in Hosts \ {h} : host'[g] = host[g]
      BY <1>3, <1>6 DEF FleetIInv, Truth, Severs, HostPut, Drifts
    <2>4. ASSUME NEW e \in Deployments, dep[e].live, dep[e].deployer # p
          PROVE  /\ Stays(e) /\ target'[e] = target[e] /\ touched'[e] = touched[e]
                 /\ \A g : LeftOn(e, g)' => LeftOn(e, g)
                 /\ \A g \in Hosts : lock[g] = e => host'[g] = host[g]
      <3>1. lock[h] # e /\ e # d BY <1>6, <2>4
      <3> QED BY <1>8, <1>10, <2>2, <2>3, <3>1
    <2> QED BY <2>1, <2>4 DEF LeavesToOthers
  <1>14. to = Resting \/ WorkerFits(p, to)'
    <2> SUFFICES ASSUME to # Resting PROVE WorkerFits(p, to)' OBVIOUS
    <2>1. /\ AtWork(to) /\ Plain(to) /\ to.pc \notin {"switching", "restoring"}
          /\ to.dep = d /\ to.fence = me.fence /\ KnowsHosts(to.pc, to.fate, to.dep, to.at)'
      BY <1>0, <1>1
    <2>2. AtWork(to)' BY <2>1 DEF AtWork
    <2>3. HoldsLease(p, to.dep, to.fence)'
      BY <1>0, <1>1, <1>5, <1>8, <2>1 DEF HoldsFence, HoldsLease
    <2>4. Vouches(p, to)' BY <2>3 DEF Vouches
    <2>5. KnowsPast(d)'
      <3>1. \A j \in DOMAIN Order[d] \ {i} : Begun(d, j)' => Serves(d, j)' \/ Shows(d, j)'
        BY <1>1, <1>2, <1>5, <1>7 DEF KnowsPast, OthersSeen
      <3>2. Serves(d, i)' \/ Shows(d, i)'
        BY <1>1, <1>2, <1>5, <1>11 DEF HostIs
      <3> QED BY <3>1, <3>2 DEF KnowsPast
    <2>6. KnowsRow(to.pc, to.dep, to.at)' BY <2>1 DEF KnowsRow, Plain
    <2>7. dep'[d].phase # "preflight" BY <1>1, <1>5 DEF OthersSeen
    <2>8. Knows(to)' BY <2>1, <2>5, <2>6, <2>7 DEF Knows
    <2> QED BY <2>2, <2>4, <2>8 DEF WorkerFits
  <1>15. \A e \in Deployments : Turns(e, {}) BY <1>10
  <1> QED BY <1>9, <1>12, <1>13, <1>14, <1>15, StepOfOne

\* switching: the new closure is on the host, or nobody knows.
LEMMA SwitchingKeeps ==
    ASSUME FleetIInv, NEW p \in Deployers, proc[p].pc = "switching", Activate(p) PROVE FleetIInv'
  <1>0. PICK me : me = proc[p] OBVIOUS
  <1>1. PICK d : d = me.dep OBVIOUS
  <1>2. PICK old : old = dep[d].preview[me.at] OBVIOUS
  <1>3. PICK ok : ok = To(p, "report") OBVIOUS
  <1>4. PICK bad : bad = Fails(p, "unknown") OBVIOUS
  <1>5. AtWork(me) /\ me \in Worker /\ me.at \in DOMAIN Order[d] /\ me.at \in Nat \ {0}
    BY <1>0, <1>1, AtWorkFacts
  <1>6. /\ UNCHANGED <<storeVars, seen, touched>>
        /\ \/ HostPut(p, d) /\ Goes(p, ok)
           \/ /\ Goes(p, bad) \/ Goes(p, Stopped(p, bad))
              /\ Severed(d, Here(p), d)
    BY <1>0, <1>1, <1>3, <1>4 DEF Activate, Switches, HostPut
  <1>7. Severs(p, d) BY <1>0, <1>1, <1>6, SeveredSevers DEF FleetIInv, Severs
  <1>8. /\ KnowsHosts("switching", me.fate, d, me.at) /\ OthersSeen(me)
        /\ HostPut(p, d) => HostIs(me, d)
    <2>1. me.pc \in {"switching", "restoring"} /\ me.pc = "switching" BY <1>0
    <2>2. UNCHANGED <<storeVars, touched>> BY <1>6
    <2>3. /\ KnowsHosts(me.pc, me.fate, me.dep, me.at) /\ OthersSeen(me)
          /\ HostPut(p, d) => HostIs(me, d)
      BY <1>0, <1>7, <2>1, <2>2, HostAfter
    <2> QED BY <1>1, <2>1, <2>3
  <1>9. CASE HostPut(p, d) /\ Goes(p, ok)
    <2>1. "report" \in Busyness BY DEF Busyness, Switching
    <2>2. Edit(me, ok, "report", me.at) BY <1>0, <1>3, <1>5, <2>1, ToEdit
    <2>3. AtWork(ok) /\ Plain(ok) BY <1>1, <1>5, <2>2 DEF AtWork, Edit, Plain
    <2>4. KnowsHosts(ok.pc, ok.fate, ok.dep, ok.at)'
      <3>1. (Left(d, me.at)' <=> Left(d, me.at)) /\ Serves(d, me.at)'
        BY <1>1, <1>8, <1>9 DEF HostIs
      <3>2. KnowsHosts("report", ok.fate, d, me.at)'
        BY <1>1, <1>5, <1>8, <3>1 DEF KnowsHosts, OthersSeen, Reading, Switching, Restoring
      <3> QED BY <1>1, <2>2, <3>2 DEF Edit
    <2>5. d \in {d, old} OBVIOUS
    <2> QED BY <1>0, <1>1, <1>2, <1>6, <1>7, <1>9, <2>2, <2>3, <2>4, <2>5, HostStep DEF Edit
  <1>10. CASE Goes(p, bad) \/ Goes(p, Stopped(p, bad))
    <2>1. PICK to : (to = bad \/ to = Resting) /\ Goes(p, to) BY <1>10 DEF Stopped
    <2>2. Edit(me, bad, "record", me.at) /\ bad.fate = "unknown" BY <1>0, <1>4, <1>5, FailsEdit
    <2>3. AtWork(bad) /\ Plain(bad) BY <1>1, <1>5, <2>2 DEF AtWork, Edit, Plain
    <2>4. KnowsHosts(bad.pc, bad.fate, bad.dep, bad.at)'
      <3>1. KnowsHosts("record", "unknown", d, me.at)'
        BY <1>1, <1>5, <1>8 DEF KnowsHosts, OthersSeen, Reading, Switching, Restoring
      <3> QED BY <1>1, <2>2, <3>1 DEF Edit
    <2>5. d \in {d, old} OBVIOUS
    <2> QED BY <1>0, <1>1, <1>2, <1>6, <1>7, <2>1, <2>2, <2>3, <2>4, <2>5, HostStep DEF Edit
  <1> QED BY <1>6, <1>9, <1>10

\* The rest of an activation: the host runs the new closure until the row says so.
LEMMA ReportKeeps ==
    ASSUME FleetIInv, NEW p \in Deployers, proc[p].pc \in {"report", "verify", "verified"},
           Activate(p)
    PROVE  FleetIInv'
  <1> DEFINE me == proc[p]
             d == me.dep
  <1>1. me.pc \notin {"idle", "giveup"} OBVIOUS
  <1>2. PICK h : h = Here(p) OBVIOUS
  <1>3. /\ AtWork(me) /\ me \in Worker /\ d \in Deployments /\ h \in TargetHosts(d)
        /\ me.at \in DOMAIN Order[d] /\ me.at \in Nat \ {0} /\ h = Order[d][me.at]
    BY <1>1, <1>2, AtWorkFacts DEF Here
  <1>4. HoldsFence(p) =>
           /\ dep[d].phase # "preflight" /\ KnowsHosts(me.pc, me.fate, d, me.at)
           /\ Begun(d, me.at) /\ Serves(d, me.at) /\ ~Left(d, me.at)
           /\ \A j \in DOMAIN Order[d] : j > me.at => AsSeen(d, j) /\ ~Begun(d, j)
           /\ \A j \in DOMAIN Order[d] : j < me.at => Begun(d, j) /\ ~Left(d, j)
    <2>1. me.pc \notin Reading \cup {"idle", "start", "finish", "giveup"} BY DEF Reading
    <2>2. HoldsFence(p) => dep[d].phase # "preflight" /\ KnowsHosts(me.pc, me.fate, d, me.at)
      BY <2>1, InApply
    <2> QED BY <1>3, <2>2 DEF KnowsHosts, Switching
  <1>5. PICK no : no = Fails(p, "unknown") OBVIOUS
  <1>6. Leads(p, no) /\ Plain(no) BY <1>1, <1>4, <1>5, FailsLeads
  <1>7. CASE me.pc = "report"
    <2>1. PICK yes : yes = To(p, "verify") OBVIOUS
    <2>2. Tell(p, h, "verifying", yes, no) BY <1>2, <1>5, <1>7, <2>1 DEF Activate
    <2>3. "verify" \in Busyness \ {"skip", "switching", "restoring"} BY DEF Busyness, Switching
    <2>4. HoldsFence(p) => KnowsHosts("verify", me.fate, d, me.at)
      BY <1>4, <1>7 DEF KnowsHosts, Switching, Restoring, Reading
    <2>5. Leads(p, yes) /\ yes.pc = "verify" BY <1>1, <1>4, <2>1, <2>3, <2>4, HereLeads
    <2>6. Plain(yes) BY <2>5 DEF Plain
    <2>7. "verifying" \in TargetStatuses BY DEF TargetStatuses
    <2>8. "verifying" \in TargetTransitions(target[d][h]) => MayTell(d, h, "verifying")
      BY <1>3, EarlyCalls
    <2> QED BY <1>1, <1>3, <1>6, <2>2, <2>5, <2>6, <2>7, <2>8, StepTells
  <1>8. CASE me.pc = "verify"
    <2>1. PICK ok : ok = To(p, "verified") OBVIOUS
    <2>2. UNCHANGED <<storeVars, host, seen, touched, adrift>> BY <1>8 DEF Activate, Runs
    <2>3. Goes(p, ok) \/ Goes(p, no) \/ Goes(p, Stopped(p, no))
      BY <1>5, <1>8, <2>1 DEF Activate, Runs
    <2>4. "verified" \in Busyness \ {"skip", "switching", "restoring"} BY DEF Busyness, Switching
    <2>5. HoldsFence(p) => KnowsHosts("verified", me.fate, d, me.at)
      BY <1>4, <1>8 DEF KnowsHosts, Switching, Restoring, Reading
    <2>6. Leads(p, ok) /\ ok.pc = "verified" BY <1>1, <1>4, <2>1, <2>4, <2>5, HereLeads
    <2>7. Plain(ok) BY <2>6 DEF Plain
    <2>8. Leads(p, Stopped(p, no)) /\ Plain(Stopped(p, no)) BY <1>6, StoppedLeads
    <2>9. PICK to : to \in {ok, no, Stopped(p, no)} /\ Goes(p, to) BY <2>3
    <2>10. Leads(p, to) /\ Plain(to) BY <1>6, <2>6, <2>7, <2>8, <2>9
    <2> QED BY <1>1, <2>2, <2>9, <2>10, StepAlone
  <1>9. CASE me.pc = "verified"
    <2>1. PICK yes : yes = Onward(p, "begin", "finish") OBVIOUS
    <2>2. Tell(p, h, "succeeded", yes, no) BY <1>2, <1>5, <1>9, <2>1 DEF Activate
    <2>3. "begin" \in Busyness \ {"skip"} /\ "finish" \in Busyness \ {"skip"}
      BY DEF Busyness, Switching
    <2>4. /\ me.at < Len(Order[d]) => Edit(me, yes, "begin", me.at + 1) /\ me.at + 1 \in DOMAIN Order[d]
          /\ ~(me.at < Len(Order[d])) =>
                Edit(me, yes, "finish", 1) /\ 1 \in DOMAIN Order[d] /\ me.at = Len(Order[d])
      BY <1>3, <2>1, <2>3, OnwardEdit
    <2>5. /\ yes.pc \in {"begin", "finish"} /\ Edit(me, yes, yes.pc, yes.at)
          /\ yes.at \in DOMAIN Order[d]
      BY <2>4 DEF Edit
    <2>6. AtWork(yes) BY <2>5 DEF AtWork, Edit
    <2>7. ASSUME HoldsFence(p) PROVE KnowsHosts(yes.pc, yes.fate, d, yes.at)
      <3>1. CASE me.at < Len(Order[d])
        <4>1. yes.pc = "begin" /\ yes.at = me.at + 1 /\ me.at + 1 \in DOMAIN Order[d]
          BY <2>4, <3>1 DEF Edit
        <4>2. DOMAIN Order[d] \subseteq Nat BY <1>3, OrderFacts
        <4>3. /\ \A j \in DOMAIN Order[d] : j > me.at + 1 => AsSeen(d, j) /\ ~Begun(d, j)
              /\ AsSeen(d, me.at + 1) /\ ~Begun(d, me.at + 1)
              /\ \A j \in DOMAIN Order[d] : j < me.at + 1 => Begun(d, j) /\ ~Left(d, j)
              /\ ~Left(d, me.at + 1)
          BY <1>3, <1>4, <2>7, <4>1, <4>2, NoneLeft DEF FleetIInv
        <4> QED BY <4>1, <4>3 DEF KnowsHosts, Reading, Switching, Restoring
      <3>2. CASE ~(me.at < Len(Order[d]))
        <4>1. yes.pc = "finish" BY <2>4, <3>2 DEF Edit
        <4> QED BY <4>1 DEF KnowsHosts, Reading, Switching, Restoring
      <3> QED BY <3>1, <3>2
    <2>8. Leads(p, yes) /\ Plain(yes) BY <1>4, <2>5, <2>6, <2>7 DEF Leads, Plain, Edit
    <2>9. "succeeded" \in TargetStatuses BY DEF TargetStatuses
    <2>10. HoldsFence(p) => MayTell(d, h, "succeeded")
      BY <1>3, <1>4 DEF MayTell, Untouching, Serves, Left
    <2> QED BY <1>1, <1>3, <1>6, <2>2, <2>8, <2>9, <2>10, StepTells
  <1> QED BY <1>7, <1>8, <1>9

\* _activate_target.
LEMMA ActivateKeeps ==
    ASSUME FleetIInv, NEW p \in Deployers, Activate(p) PROVE FleetIInv'
  <1>1. proc[p].pc \in {"begin", "copy", "switch", "switching", "report", "verify", "verified"}
    BY DEF Activate
  <1> QED BY <1>1, BeginKeeps, CopyKeeps, SwitchKeeps, SwitchingKeeps, ReportKeeps

\* A failure is recorded, and the hosts after it are skipped.
LEMMA HandleFailureKeeps ==
    ASSUME FleetIInv, NEW p \in Deployers, HandleFailure(p) PROVE FleetIInv'
  <1> DEFINE me == proc[p]
             d == me.dep
  <1>1. me.pc \in {"record", "skip"} BY DEF HandleFailure
  <1>2. me.pc \notin {"idle", "giveup"} BY <1>1
  <1>3. /\ AtWork(me) /\ me \in Worker /\ d \in Deployments
        /\ me.at \in DOMAIN Order[d] /\ me.at \in Nat \ {0}
    BY <1>2, AtWorkFacts
  <1>4. HoldsFence(p) =>
           /\ dep[d].phase # "preflight" /\ KnowsHosts(me.pc, me.fate, d, me.at)
           /\ \A j \in DOMAIN Order[d] : j < me.at => Begun(d, j) /\ ~Left(d, j)
    <2>1. me.pc \notin Reading \cup {"idle", "start", "finish", "giveup"} BY <1>1 DEF Reading
    <2>2. HoldsFence(p) => dep[d].phase # "preflight" /\ KnowsHosts(me.pc, me.fate, d, me.at)
      BY <2>1, InApply
    <2> QED BY <1>1, <2>2 DEF KnowsHosts
  <1>5. ASSUME NEW i \in Nat \ {0}, NEW to, to = SkipFrom(p, i)
        PROVE  Leads(p, to) /\ Plain(to)
    <2>1. \/ i \in DOMAIN Order[d] /\ Edit(me, to, "skip", me.at) /\ to.cursor = i
          \/ Edit(me, to, "undo", me.at - 1) /\ me.at - 1 \in DOMAIN Order[d]
          \/ Edit(me, to, "finish", me.at)
      BY <1>3, <1>5, SkipEdit
    <2>2. /\ to.pc \in {"skip", "undo", "finish"} /\ Edit(me, to, to.pc, to.at)
          /\ to.at \in DOMAIN Order[d] /\ to.at <= me.at
          /\ to.pc = "undo" => to.at = me.at - 1
          /\ to.pc = "skip" => to.at = me.at /\ to.cursor \in DOMAIN Order[d]
      BY <1>3, <2>1 DEF Edit
    <2>3. AtWork(to) BY <2>2 DEF AtWork, Edit
    <2>4. ASSUME HoldsFence(p) PROVE KnowsHosts(to.pc, to.fate, d, to.at)
      <3>1. DOMAIN Order[d] \subseteq Nat BY <1>3, OrderFacts
      <3>2. \A j \in DOMAIN Order[d] : j < me.at => Begun(d, j) /\ ~Left(d, j) BY <1>4, <2>4
      <3>3. \A j \in DOMAIN Order[d] : to.pc = "undo" /\ j <= to.at => j < me.at
        BY <1>3, <2>2, <3>1
      <3>4. \A j \in DOMAIN Order[d] : j < to.at => j <= to.at /\ j < me.at
        BY <1>3, <2>2, <3>1
      <3>5. to.pc = "undo" => \A j \in DOMAIN Order[d] : j <= to.at => Begun(d, j)
        BY <3>2, <3>3
      <3>6. to.pc = "undo" => ~Left(d, to.at)
        <4>1. to.at \in DOMAIN Order[d] BY <2>2
        <4>2. to.at <= to.at BY <3>1, <4>1
        <4> QED BY <3>2, <3>3, <4>1, <4>2
      <3>7. \A j \in DOMAIN Order[d] : j < to.at => Begun(d, j) /\ ~Left(d, j) BY <3>2, <3>4
      <3> QED BY <2>2, <3>5, <3>6, <3>7 DEF KnowsHosts, Reading, Switching, Restoring
    <2> QED BY <1>4, <2>2, <2>3, <2>4 DEF Leads, Plain, Edit
  <1>6. CASE me.pc = "record"
    <2>1. PICK h : h = Here(p) OBVIOUS
    <2>2. PICK yes : yes = SkipFrom(p, me.at + 1) OBVIOUS
    <2>3. PICK no : no = To(p, "giveup") OBVIOUS
    <2>4. PICK s : s = Recorded(me.fate) OBVIOUS
    <2>5. Tell(p, h, s, yes, no) BY <1>6, <2>1, <2>2, <2>3, <2>4 DEF HandleFailure
    <2>6. Leads(p, no) /\ Plain(no) BY <1>2, <2>3, GiveUpLeads
    <2>7. me.at + 1 \in Nat \ {0} BY <1>3
    <2>8. Leads(p, yes) /\ Plain(yes) BY <1>5, <2>2, <2>7
    <2>9. h \in TargetHosts(d) /\ h = Order[d][me.at] BY <1>2, <2>1, AtWorkFacts DEF Here
    <2>10. s \in TargetStatuses BY <2>4 DEF Recorded, TargetStatuses
    <2>11. HoldsFence(p) => MayTell(d, h, s)
      <3>1. CASE me.fate = "unknown" BY <2>4, <3>1 DEF Recorded, MayTell, Untouching
      <3>2. CASE me.fate # "unknown"
        <4>1. HoldsFence(p) => ~Begun(d, me.at) BY <1>4, <1>6, <3>2 DEF KnowsHosts
        <4>2. s = "failed" BY <2>4, <3>2 DEF Recorded
        <4> QED BY <2>9, <4>1, <4>2 DEF Begun, MayTell
      <3> QED BY <3>1, <3>2
    <2> QED BY <1>2, <2>5, <2>6, <2>8, <2>9, <2>10, <2>11, StepTells
  <1>7. CASE me.pc = "skip"
    <2>1. PICK h : h = Skipped(p) OBVIOUS
    <2>2. PICK to : to = SkipFrom(p, me.cursor + 1) OBVIOUS
    <2>3. Tell(p, h, "skipped", to, to) BY <1>7, <2>1, <2>2 DEF HandleFailure
    <2>4. me.cursor \in DOMAIN Order[d] BY <1>3, <1>7 DEF AtWork
    <2>5. me.cursor + 1 \in Nat \ {0} BY <1>3, <2>4, OrderFacts
    <2>6. Leads(p, to) /\ Plain(to) BY <1>5, <2>2, <2>5
    <2>7. h \in TargetHosts(d) BY <1>3, <2>1, <2>4, OrderFacts DEF Skipped
    <2>8. "skipped" \in TargetStatuses BY DEF TargetStatuses
    <2>9. "skipped" \in TargetTransitions(target[d][h]) => MayTell(d, h, "skipped")
      BY <1>3, <2>7, EarlyCalls
    <2> QED BY <1>2, <2>3, <2>6, <2>7, <2>8, <2>9, StepTells
  <1> QED BY <1>1, <1>6, <1>7

\* restore: with the guard on, the host is being switched back.
LEMMA RestoreKeeps ==
    ASSUME FleetIInv, NEW p \in Deployers, proc[p].pc = "restore", Rollback(p) PROVE FleetIInv'
  <1>0. PICK me : me = proc[p] OBVIOUS
  <1>1. PICK d : d = me.dep OBVIOUS
  <1>2. proc[p].pc \notin {"idle", "giveup"} OBVIOUS
  <1>3. /\ AtWork(me) /\ me \in Worker /\ d \in Deployments /\ me.at \in DOMAIN Order[d]
        /\ GuardOn(p) => HoldsFence(p)
    BY <1>0, <1>1, <1>2, AtWorkFacts
  <1>4. UNCHANGED <<storeVars, host, seen, touched, adrift>> BY DEF Rollback
  <1>5. CASE ~GuardOn(p)
    <2>1. PICK to : to = To(p, "giveup") OBVIOUS
    <2>2. Goes(p, Stopped(p, to)) BY <1>5, <2>1 DEF Rollback
    <2>3. Leads(p, to) /\ Plain(to) BY <1>2, <2>1, GiveUpLeads
    <2>4. Leads(p, Stopped(p, to)) /\ Plain(Stopped(p, to)) BY <2>3, StoppedLeads
    <2> QED BY <1>2, <1>4, <2>2, <2>4, StepAlone
  <1>6. CASE GuardOn(p)
    <2>1. PICK to : to = To(p, "restoring") OBVIOUS
    <2>2. Goes(p, to) BY <1>6, <2>1 DEF Rollback
    <2>3. "restoring" \in Busyness BY DEF Busyness, Restoring
    <2>4. Edit(me, to, "restoring", me.at) /\ to.fate = me.fate BY <1>0, <1>3, <2>1, <2>3, ToEdit
    <2>5. HoldsFence(p) /\ HoldsLease(p, to.dep, to.fence)
      BY <1>0, <1>3, <1>6, <2>4 DEF HoldsFence, Edit
    <2>6. /\ dep[d].phase # "preflight" /\ KnowsHosts("restore", me.fate, d, me.at)
          /\ KnowsRow("restore", d, me.at) /\ KnowsPast(d)
      BY <1>0, <1>1, <2>5, InApply DEF Reading
    <2>7. KnowsHosts("restoring", me.fate, d, me.at) /\ KnowsRow("restoring", d, me.at)
      BY <2>6 DEF KnowsHosts, KnowsRow, Reading, Switching, Restoring
    <2>8. Knows(to) BY <1>1, <2>4, <2>6, <2>7 DEF Knows, Edit
    <2>9. AtWork(to) BY <1>1, <1>3, <2>4 DEF AtWork, Edit
    <2>10. Vouches(p, to) BY <2>5 DEF Vouches
    <2>11. WorkerFits(p, to) BY <2>8, <2>9, <2>10 DEF WorkerFits
    <2> QED BY <1>4, <2>2, <2>11, QuietStep
  <1> QED BY <1>5, <1>6

\* restoring: the old closure is on the host, or nobody knows.
LEMMA RestoringKeeps ==
    ASSUME FleetIInv, NEW p \in Deployers, proc[p].pc = "restoring", Rollback(p) PROVE FleetIInv'
  <1>0. PICK me : me = proc[p] OBVIOUS
  <1>1. PICK d : d = me.dep OBVIOUS
  <1>2. PICK old : old = dep[d].preview[me.at] OBVIOUS
  <1>3. PICK ok : ok = To(p, "restored") OBVIOUS
  <1>4. PICK bad : bad = To(p, "stuck") OBVIOUS
  <1>5. PICK end : end = To(p, "giveup") OBVIOUS
  <1>6. /\ AtWork(me) /\ me \in Worker /\ d \in Deployments /\ me.at \in DOMAIN Order[d]
        /\ me.at \in Nat /\ Here(p) = Order[d][me.at]
    BY <1>0, <1>1, AtWorkFacts DEF Here
  <1>7. me.pc \in {"switching", "restoring"} /\ me.pc = "restoring" BY <1>0
  <1>8. /\ UNCHANGED <<storeVars, seen, touched>>
        /\ \/ HostPut(p, old) /\ Goes(p, ok)
           \/ /\ Goes(p, bad) \/ Goes(p, Stopped(p, end))
              /\ Severed(d, Here(p), old)
    BY <1>0, <1>1, <1>2, <1>3, <1>4, <1>5 DEF Rollback, Switches, HostPut
  <1>9. Severs(p, old) BY <1>0, <1>1, <1>8, SeveredSevers DEF FleetIInv, Severs
  <1>10. /\ KnowsHosts("restoring", me.fate, d, me.at) /\ OthersSeen(me)
         /\ HostPut(p, old) => HostIs(me, old)
    <2>1. UNCHANGED <<storeVars, touched>> BY <1>8
    <2>2. /\ KnowsHosts(me.pc, me.fate, me.dep, me.at) /\ OthersSeen(me)
          /\ HostPut(p, old) => HostIs(me, old)
      BY <1>0, <1>7, <1>9, <2>1, HostAfter
    <2> QED BY <1>1, <1>7, <2>2
  <1>11. /\ Edit(me, ok, "restored", me.at) /\ Edit(me, bad, "stuck", me.at)
         /\ Edit(me, end, "giveup", me.at)
    <2>1. "restored" \in Busyness /\ "stuck" \in Busyness /\ "giveup" \in Busyness
      BY DEF Busyness, Restoring
    <2> QED BY <1>0, <1>3, <1>4, <1>5, <1>6, <2>1, ToEdit
  <1>12. CASE HostPut(p, old) /\ Goes(p, ok)
    <2>1. AtWork(ok) /\ Plain(ok) BY <1>1, <1>6, <1>11 DEF AtWork, Edit, Plain
    <2>2. KnowsHosts(ok.pc, ok.fate, ok.dep, ok.at)'
      <3>1. (Left(d, me.at)' <=> Left(d, me.at)) /\ Shows(d, me.at)'
        BY <1>1, <1>2, <1>10, <1>12 DEF HostIs
      <3>2. KnowsHosts("restored", ok.fate, d, me.at)'
        BY <1>1, <1>6, <1>10, <3>1 DEF KnowsHosts, OthersSeen, Reading, Switching, Restoring
      <3> QED BY <1>1, <1>11, <3>2 DEF Edit
    <2>3. old \in {d, old} OBVIOUS
    <2> QED BY <1>0, <1>1, <1>2, <1>8, <1>9, <1>11, <1>12, <2>1, <2>2, <2>3, HostStep DEF Edit
  <1>13. CASE Goes(p, bad) \/ Goes(p, Stopped(p, end))
    <2>1. PICK to : to \in {bad, end, Resting} /\ Goes(p, to) BY <1>13 DEF Stopped
    <2>2. AtWork(bad) /\ Plain(bad) /\ AtWork(end) /\ Plain(end)
      BY <1>1, <1>6, <1>11 DEF AtWork, Edit, Plain
    <2>3. KnowsHosts("stuck", bad.fate, d, me.at)'
      BY <1>1, <1>6, <1>10 DEF KnowsHosts, OthersSeen, Reading, Switching, Restoring
    <2>4. KnowsHosts("giveup", end.fate, d, me.at)'
      BY DEF KnowsHosts, Reading, Switching, Restoring
    <2>5. old \in {d, old} OBVIOUS
    <2>6. CASE to = Resting BY <1>0, <1>1, <1>2, <1>8, <1>9, <2>1, <2>5, <2>6, HostStep
    <2>7. CASE to # Resting
      <3>1. to \in {bad, end} BY <2>1, <2>7
      <3>2. /\ AtWork(to) /\ Plain(to) /\ to.dep = d /\ to.fence = me.fence
            /\ to.pc \notin {"switching", "restoring"}
            /\ KnowsHosts(to.pc, to.fate, to.dep, to.at)'
        BY <1>1, <1>11, <2>2, <2>3, <2>4, <3>1 DEF Edit
      <3> QED BY <1>0, <1>1, <1>2, <1>8, <1>9, <2>1, <2>5, <3>2, HostStep
    <2> QED BY <2>6, <2>7
  <1> QED BY <1>8, <1>12, <1>13

\* The calls of a rollback.
LEMMA RollbackCallsKeep ==
    ASSUME FleetIInv, NEW p \in Deployers,
           proc[p].pc \in {"undo", "undoing", "restored", "stuck"}, Rollback(p)
    PROVE  FleetIInv'
  <1> DEFINE me == proc[p]
             d == me.dep
  <1>1. me.pc \notin {"idle", "giveup"} OBVIOUS
  <1>2. PICK h : h = Here(p) OBVIOUS
  <1>3. /\ AtWork(me) /\ me \in Worker /\ d \in Deployments /\ h \in TargetHosts(d)
        /\ me.at \in DOMAIN Order[d] /\ me.at \in Nat \ {0} /\ h = Order[d][me.at]
    BY <1>1, <1>2, AtWorkFacts DEF Here
  <1>4. HoldsFence(p) =>
           /\ dep[d].phase # "preflight" /\ KnowsHosts(me.pc, me.fate, d, me.at)
           /\ \A j \in DOMAIN Order[d] : j <= me.at => Begun(d, j)
           /\ \A j \in DOMAIN Order[d] : j < me.at => ~Left(d, j)
           /\ me.pc # "stuck" => ~Left(d, me.at)
    <2>1. me.pc \notin Reading \cup {"idle", "start", "finish", "giveup"} BY DEF Reading
    <2>2. HoldsFence(p) => dep[d].phase # "preflight" /\ KnowsHosts(me.pc, me.fate, d, me.at)
      BY <2>1, InApply
    <2> QED BY <1>3, <2>2 DEF KnowsHosts, Restoring
  <1>5. PICK stuck : stuck = To(p, "stuck") OBVIOUS
  <1>6. Leads(p, stuck) /\ Plain(stuck)
    <2>1. "stuck" \in Busyness \ {"skip", "switching", "restoring"} BY DEF Busyness, Restoring
    <2>2. HoldsFence(p) => KnowsHosts("stuck", me.fate, d, me.at)
      BY <1>4 DEF KnowsHosts, Switching, Restoring, Reading
    <2>3. Leads(p, stuck) /\ stuck.pc = "stuck" BY <1>1, <1>4, <1>5, <2>1, <2>2, HereLeads
    <2> QED BY <2>3 DEF Plain
  <1>7. PICK onward : onward = IF me.at > 1 THEN [me EXCEPT !.pc = "undo", !.at = @ - 1]
                               ELSE To(p, "finish")
    OBVIOUS
  <1>8. Leads(p, onward) /\ Plain(onward)
    <2>1. CASE me.at > 1
      <3>1. onward = [me EXCEPT !.pc = "undo", !.at = @ - 1] BY <1>7, <2>1
      <3>2. Edit(me, onward, "undo", me.at - 1) /\ me.at - 1 \in DOMAIN Order[d]
        BY <1>3, <2>1, <3>1, BackEdit
      <3>3. AtWork(onward) BY <3>2 DEF AtWork, Edit
      <3>4. HoldsFence(p) =>
               \A j \in DOMAIN Order[d] : j <= me.at - 1 => Begun(d, j) /\ ~Left(d, j)
        <4>1. DOMAIN Order[d] \subseteq Nat BY <1>3, OrderFacts
        <4>2. \A j \in DOMAIN Order[d] : j <= me.at - 1 => j <= me.at /\ j < me.at
          BY <1>3, <4>1
        <4> QED BY <1>4, <4>2
      <3>5. HoldsFence(p) =>
               /\ ~Left(d, me.at - 1)
               /\ \A j \in DOMAIN Order[d] : j < me.at - 1 => ~Left(d, j)
        <4>1. DOMAIN Order[d] \subseteq Nat BY <1>3, OrderFacts
        <4>2. \A j \in DOMAIN Order[d] : j < me.at - 1 => j <= me.at - 1 BY <1>3, <4>1
        <4>3. me.at - 1 \in DOMAIN Order[d] /\ me.at - 1 <= me.at - 1 BY <1>3, <3>2
        <4> QED BY <3>4, <4>2, <4>3
      <3>6. HoldsFence(p) => KnowsHosts(onward.pc, onward.fate, d, onward.at)
        BY <3>2, <3>4, <3>5 DEF Edit, KnowsHosts, Switching, Restoring, Reading
      <3> QED BY <1>4, <3>2, <3>3, <3>6 DEF Leads, Plain, Edit
    <2>2. CASE ~(me.at > 1)
      <3>1. onward = To(p, "finish") BY <1>7, <2>2, Zenon
      <3>2. "finish" \in Busyness \ {"skip", "switching", "restoring"} BY DEF Busyness
      <3>3. HoldsFence(p) => KnowsHosts("finish", me.fate, d, me.at)
        BY DEF KnowsHosts, Switching, Restoring, Reading
      <3>4. Leads(p, onward) /\ onward.pc = "finish" BY <1>1, <1>4, <3>1, <3>2, <3>3, HereLeads
      <3> QED BY <3>4 DEF Plain
    <2> QED BY <2>1, <2>2
  <1>9. CASE me.pc = "undo"
    <2>1. PICK yes : yes = To(p, "undoing") OBVIOUS
    <2>2. Tell(p, h, "rollback_pending", yes, stuck) BY <1>2, <1>5, <1>9, <2>1 DEF Rollback
    <2>3. "undoing" \in Busyness \ {"skip", "switching", "restoring"} BY DEF Busyness, Restoring
    <2>4. HoldsFence(p) => KnowsHosts("undoing", me.fate, d, me.at)
      BY <1>4, <1>9 DEF KnowsHosts, Switching, Restoring, Reading
    <2>5. Leads(p, yes) /\ yes.pc = "undoing" BY <1>1, <1>4, <2>1, <2>3, <2>4, HereLeads
    <2>6. Plain(yes) BY <2>5 DEF Plain
    <2>7. "rollback_pending" \in TargetStatuses BY DEF TargetStatuses
    <2>8. "rollback_pending" \in TargetTransitions(target[d][h]) => MayTell(d, h, "rollback_pending")
      BY <1>3, EarlyCalls
    <2> QED BY <1>1, <1>3, <1>6, <2>2, <2>5, <2>6, <2>7, <2>8, StepTells
  <1>10. CASE me.pc = "undoing"
    <2>1. PICK yes : yes = To(p, "restore") OBVIOUS
    <2>2. Tell(p, h, "rolling_back", yes, stuck) BY <1>2, <1>5, <1>10, <2>1 DEF Rollback
    <2>3. "restore" \in Busyness \ {"skip", "switching", "restoring"} BY DEF Busyness, Restoring
    <2>4. HoldsFence(p) => KnowsHosts("restore", me.fate, d, me.at)
      BY <1>4, <1>10 DEF KnowsHosts, Switching, Restoring, Reading
    <2>5. Leads(p, yes) /\ yes.pc = "restore" /\ yes.dep = d /\ yes.at = me.at
      BY <1>1, <1>4, <2>1, <2>3, <2>4, HereLeads
    <2>6. h = Order[yes.dep][yes.at] BY <1>3, <2>5
    <2>7. "rolling_back" \in TargetStatuses BY DEF TargetStatuses
    <2>8. "rolling_back" \in TargetTransitions(target[d][h]) => MayTell(d, h, "rolling_back")
      BY <1>3, EarlyCalls
    <2> QED BY <1>1, <1>3, <1>6, <2>2, <2>5, <2>6, <2>7, <2>8, StepTells
  <1>11. CASE me.pc = "restored"
    <2>1. Tell(p, h, "rolled_back", onward, stuck) BY <1>2, <1>5, <1>7, <1>11, Zenon DEF Rollback
    <2>2. "rolled_back" \in TargetStatuses BY DEF TargetStatuses
    <2>3. HoldsFence(p) => MayTell(d, h, "rolled_back")
      <3>1. HoldsFence(p) => Shows(d, me.at) /\ ~Left(d, me.at) BY <1>4, <1>11 DEF KnowsHosts
      <3>2. HoldsFence(p) => Begun(d, me.at) BY <1>3, <1>4
      <3>3. Before(d, h) = dep[d].preview[me.at] BY <1>3, BeforeHere
      <3> QED BY <1>3, <3>1, <3>2, <3>3 DEF MayTell, Shows, Left, Begun, Untouching
    <2> QED BY <1>1, <1>3, <1>6, <1>8, <2>1, <2>2, <2>3, StepTells
  <1>12. CASE me.pc = "stuck"
    <2>1. PICK no : no = To(p, "giveup") OBVIOUS
    <2>2. Tell(p, h, "rollback_failed", onward, no)
      BY <1>2, <1>7, <1>12, <2>1, Zenon DEF Rollback
    <2>3. Leads(p, no) /\ Plain(no) BY <1>1, <2>1, GiveUpLeads
    <2>4. "rollback_failed" \in TargetStatuses BY DEF TargetStatuses
    <2>5. "rollback_failed" \in TargetTransitions(target[d][h]) => MayTell(d, h, "rollback_failed")
      BY <1>3, EarlyCalls
    <2> QED BY <1>1, <1>3, <1>8, <2>2, <2>3, <2>4, <2>5, StepTells
  <1> QED BY <1>9, <1>10, <1>11, <1>12

\* _rollback_target.
LEMMA RollbackKeeps ==
    ASSUME FleetIInv, NEW p \in Deployers, Rollback(p) PROVE FleetIInv'
  <1>1. proc[p].pc \in {"undo", "undoing", "restore", "restoring", "restored", "stuck"}
    BY DEF Rollback
  <1> QED BY <1>1, RestoreKeeps, RestoringKeeps, RollbackCallsKeep

\* A deployer that is idle has nothing in hand.
LEMMA IdleRests ==
    ASSUME FleetIInv, NEW p \in Deployers, proc[p].pc = "idle"
    PROVE  proc[p] = Resting
  <1>1. SUFFICES ASSUME proc[p] # Resting PROVE FALSE OBVIOUS
  <1>2. proc[p] \in Worker BY <1>1 DEF FleetIInv, Team, DeployerFits, WorkerFits, AtWork
  <1>3. "idle" \notin Busyness BY DEF Busyness, Reading, Switching, Restoring
  <1> QED BY <1>2, <1>3 DEF Worker

\* complete_phase by p, which has the lease.
LEMMA Completes ==
    ASSUME FleetIInv, NEW p \in Deployers, NEW d \in Deployments, NEW fence, HoldsLease(p, d, fence),
           NEW ok \in BOOLEAN, NEW x,
           ok /\ dep[d].phase = "preflight" => x \in [DOMAIN Order[d] -> Closures],
           CompletePhase(d, ok, x), UNCHANGED <<host, seen, touched, adrift>>
    PROVE  /\ Ledger' /\ Truth' /\ LeavesToOthers(p)
           /\ \A e \in Deployments : Turns(e, {})
           /\ ~dep'[d].live
  <1>1. dep[d].live /\ dep[d].deployer = p BY DEF HoldsLease
  <1>2. /\ Ledger' /\ target' = target /\ ~dep'[d].live
        /\ \A e \in Deployments : Turns(e, {})
        /\ \A e \in Deployments \ {d} : dep'[e] = dep[e]
    BY <1>1, CompleteStep DEF FleetIInv
  <1>3. Truth'
    <2>1. \A e \in Deployments : \A g \in TargetHosts(e) : target'[e][g] = target[e][g]
      BY <1>2
    <2> QED BY <1>2, <2>1, TruthOfCalls DEF FleetIInv
  <1>4. \A e \in Deployments \ {d} : Stays(e) BY <1>2, SameRowTurns
  <1>5. LeavesToOthers(p) BY <1>1, <1>2, <1>4, NoneDisturbed
  <1> QED BY <1>2, <1>3, <1>5

\* After it, p goes back to the loop or gives up.
LEMMA CompletesAndGoes ==
    ASSUME FleetIInv, NEW p \in Deployers, proc[p].pc # "idle", HoldsFence(p),
           NEW ok \in BOOLEAN, NEW x,
           ok /\ dep[proc[p].dep].phase = "preflight" =>
              x \in [DOMAIN Order[proc[p].dep] -> Closures],
           CompletePhase(proc[p].dep, ok, x), UNCHANGED <<host, seen, touched, adrift>>,
           NEW to, to = Resting \/ to = To(p, "giveup"), Goes(p, to)
    PROVE  FleetIInv'
  <1>0. PICK me : me = proc[p] OBVIOUS
  <1>1. AtWork(me) /\ me \in Worker /\ me.dep \in Deployments BY <1>0, AtWorkFacts
  <1>2. /\ Ledger' /\ Truth' /\ LeavesToOthers(p)
        /\ \A e \in Deployments : Turns(e, {})
        /\ ~dep'[me.dep].live
    BY <1>0, <1>1, Completes DEF HoldsFence
  <1>3. CASE to = Resting BY <1>2, <1>3, StepOfOne
  <1>4. CASE to = To(p, "giveup")
    <2>1. "giveup" \in Busyness BY DEF Busyness
    <2>2. Edit(me, to, "giveup", me.at) BY <1>0, <1>1, <1>4, <2>1, ToEdit
    <2>3. AtWork(to)' BY <1>1, <2>2 DEF AtWork, Edit
    <2>4. Vouches(p, to)' BY <2>2 DEF Vouches, Edit
    <2>5. ~HoldsLease(p, to.dep, to.fence)' BY <1>2, <2>2 DEF HoldsLease, Edit
    <2>6. WorkerFits(p, to)' BY <2>3, <2>4, <2>5 DEF WorkerFits
    <2> QED BY <1>2, <2>6, StepOfOne
  <1> QED BY <1>3, <1>4

\* The end of _run_deployment.
LEMMA FinishKeeps ==
    ASSUME FleetIInv, NEW p \in Deployers, FinishPhase(p) PROVE FleetIInv'
  <1> DEFINE me == proc[p]
             d == me.dep
             ok == me.fate = "ok"
  <1>1. me.pc = "finish" BY DEF FinishPhase
  <1>2. me.pc \notin {"idle", "giveup"} BY <1>1
  <1>3. PICK end : end = To(p, "giveup") OBVIOUS
  <1>4. UNCHANGED <<host, seen, touched, adrift>> BY DEF FinishPhase
  <1>5. \/ UNCHANGED storeVars /\ (Goes(p, end) \/ Goes(p, Stopped(p, end)))
        \/ /\ HoldsFence(p) /\ CompletePhase(d, ok, me.found)
           /\ Goes(p, Resting) \/ Goes(p, end)
    BY <1>3 DEF FinishPhase
  <1>6. CASE UNCHANGED storeVars /\ (Goes(p, end) \/ Goes(p, Stopped(p, end)))
    <2>1. Leads(p, end) /\ Plain(end) BY <1>2, <1>3, GiveUpLeads
    <2>2. Leads(p, Stopped(p, end)) /\ Plain(Stopped(p, end)) BY <2>1, StoppedLeads
    <2>3. PICK to : to \in {end, Stopped(p, end)} /\ Goes(p, to) BY <1>6
    <2>4. Leads(p, to) /\ Plain(to) BY <2>1, <2>2, <2>3
    <2> QED BY <1>2, <1>4, <1>6, <2>3, <2>4, StepAlone
  <1>7. CASE /\ HoldsFence(p) /\ CompletePhase(d, ok, me.found)
             /\ Goes(p, Resting) \/ Goes(p, end)
    <2>1. PICK x : x = me.found OBVIOUS
    <2>2. ASSUME dep[d].phase = "preflight" PROVE x \in [DOMAIN Order[d] -> Closures]
      <3>1. Knows(me) /\ me \in Worker /\ d \in Deployments BY <1>2, <1>7, AtWorkFacts
      <3>2. Len(x) = Len(Order[d]) BY <1>1, <2>1, <2>2, <3>1 DEF Knows, KnowsBuild
      <3>3. x \in Seq(Closures) BY <2>1, <3>1 DEF Worker
      <3>4. DOMAIN Order[d] = 1 .. Len(Order[d]) BY <3>1, OrderFacts
      <3> QED BY <3>2, <3>3, <3>4
    <2>3. ok \in BOOLEAN OBVIOUS
    <2>4. PICK to : (to = Resting \/ to = end) /\ Goes(p, to) BY <1>7
    <2>5. CompletePhase(proc[p].dep, ok, x) BY <1>7, <2>1
    <2> HIDE DEF ok
    <2> QED BY <1>2, <1>3, <1>4, <1>7, <2>2, <2>3, <2>4, <2>5, CompletesAndGoes
  <1> QED BY <1>5, <1>6, <1>7

\* _complete_best_effort: with or without the control plane, the deployer is free.
LEMMA GiveUpKeeps ==
    ASSUME FleetIInv, NEW p \in Deployers, GiveUp(p) PROVE FleetIInv'
  <1>1. proc[p].pc # "idle" /\ Goes(p, Resting) /\ UNCHANGED <<host, seen, touched, adrift>>
    BY DEF GiveUp
  <1>2. \/ UNCHANGED storeVars
        \/ HoldsFence(p) /\ CompletePhase(proc[p].dep, FALSE, NoPreview)
    BY DEF GiveUp
  <1>3. CASE UNCHANGED storeVars
    <2>1. UNCHANGED <<storeVars, host, seen, touched, adrift>> BY <1>1, <1>3
    <2> QED BY <1>1, <2>1, QuietStep
  <1>4. CASE HoldsFence(p) /\ CompletePhase(proc[p].dep, FALSE, NoPreview)
    BY <1>1, <1>4, CompletesAndGoes
  <1> QED BY <1>2, <1>3, <1>4

LEMMA PolicyChangedKeeps ==
    ASSUME FleetIInv, NEW p \in Deployers, PolicyChanged(p) PROVE FleetIInv'
  <1>1. /\ proc[p].pc # "idle" /\ HoldsFence(p) /\ Goes(p, Resting)
        /\ CompletePhase(proc[p].dep, FALSE, NoPreview) /\ UNCHANGED <<host, seen, touched, adrift>>
    BY DEF PolicyChanged
  <1> QED BY <1>1, CompletesAndGoes

\* A receipt is flushed between two deployments.
LEMMA FlushKeeps ==
    ASSUME FleetIInv, ReceiptsFit, NEW p \in Deployers, Flush(p) PROVE FleetIInv'
  <1>1. proc[p] = Resting BY IdleRests DEF Flush
  <1>2. UNCHANGED <<proc, host, seen, touched, adrift>> BY DEF Flush
  <1>3. PICK r \in diskReceipts[p] :
           IF HoldsLease(p, r.dep, r.fence) THEN CompletePhase(r.dep, FALSE, NoPreview)
           ELSE UNCHANGED storeVars
    BY DEF Flush
  <1>4. DOMAIN proc = Deployers BY DEF FleetIInv, Team
  <1>5. CASE HoldsLease(p, r.dep, r.fence)
    <2>1. PICK d : d = r.dep OBVIOUS
    <2>2. PICK fence : fence = r.fence OBVIOUS
    <2>3. d \in Deployments BY <1>3, <2>1 DEF ReceiptsFit
    <2>4. HoldsLease(p, d, fence) /\ CompletePhase(d, FALSE, NoPreview)
      BY <1>3, <1>5, <2>1, <2>2
    <2>5. /\ Ledger' /\ Truth' /\ LeavesToOthers(p)
          /\ \A e \in Deployments : Turns(e, {})
      BY <1>2, <2>3, <2>4, Completes
    <2>6. /\ DOMAIN proc' = Deployers /\ proc'[p] = Resting
          /\ \A q \in Deployers \ {p} : proc'[q] = proc[q]
      BY <1>1, <1>2, <1>4
    <2> QED BY <2>5, <2>6, OneMoves
  <1>6. CASE UNCHANGED storeVars
    <2>1. UNCHANGED <<dep, target, lock, approval>> BY <1>6 DEF storeVars
    <2>2. Ledger' BY <1>2, <2>1 DEF FleetIInv, Ledger, LedgerTypes, LedgerFits
    <2>3. \A e \in Deployments : Turns(e, {}) /\ Stays(e) BY <2>1, SameRowTurns
    <2> QED BY <1>2, <2>1, <2>2, <2>3, CallByOthers
  <1> QED BY <1>3, <1>5, <1>6

\* claim, and its answer.
LEMMA ClaimDeploymentKeeps ==
    ASSUME FleetIInv, NEW p \in Deployers, ClaimDeployment(p) PROVE FleetIInv'
  <1>1. proc[p] = Resting BY IdleRests DEF ClaimDeployment
  <1>2. UNCHANGED <<host, seen, touched, adrift>> BY DEF ClaimDeployment
  <1>3. PICK d \in SshBacked \cup {Nobody} :
          /\ ClaimRow(p, SshBacked, d)
          /\ IF d = Nobody THEN UNCHANGED proc
             ELSE Goes(p, [Resting EXCEPT !.dep = d, !.fence = dep'[d].fence, !.pc = "start", !.at = 1])
    BY DEF ClaimDeployment
  <1>4. /\ Ledger' /\ target' = target
        /\ \A e \in Deployments : Turns(e, {p}) /\ Stays(e)
        /\ d # Nobody => dep'[d].live /\ dep'[d].deployer = p /\ touched[d] = {}
    BY <1>2, <1>3, ClaimStep DEF FleetIInv
  <1>5. CASE d = Nobody BY <1>1, <1>2, <1>3, <1>4, <1>5, CallByOthers
  <1>6. CASE d # Nobody
    <2>1. d \in SshBacked /\ d \in Deployments BY <1>6 DEF SshBacked
    <2>2. PICK n : n = dep'[d].fence OBVIOUS
    <2>3. PICK to : to = [Resting EXCEPT !.dep = d, !.fence = n, !.pc = "start", !.at = 1] OBVIOUS
    <2>4. Goes(p, to) BY <1>3, <1>6, <2>2, <2>3
    <2>5. n \in Nat
      <3>1. LedgerFits(d)' BY <1>4, <2>1 DEF Ledger
      <3>2. dep'[d] \in RowType(d)' BY <3>1 DEF LedgerFits, SoundRow
      <3> QED BY <2>2, <3>2 DEF RowType
    <2>6. to = [dep |-> d, fence |-> n, pc |-> "start", at |-> 1, guard |-> "on",
                cursor |-> 0, found |-> <<>>, fate |-> "ok"]
      BY <2>3 DEF Resting
    <2>7. to \in Worker
      <3>1. "start" \in Busyness BY DEF Busyness
      <3>2. <<>> \in Seq(Closures) OBVIOUS
      <3> QED BY <2>1, <2>5, <2>6, <3>1, <3>2 DEF Worker
    <2>8. /\ to.dep = d /\ to.fence = n /\ to.pc = "start" /\ to.at = 1 /\ to.found = <<>>
      BY <2>6
    <2>9. 1 \in DOMAIN Order[d] BY <2>1, OrderFacts
    <2>10. AtWork(to)' BY <2>7, <2>8, <2>9 DEF AtWork
    <2>11. HoldsLease(p, to.dep, to.fence)' BY <1>4, <1>6, <2>2, <2>8 DEF HoldsLease
    <2>12. Vouches(p, to)' BY <2>11 DEF Vouches
    <2>13. Knows(to)'
      <3>1. KnowsBuild(to, to.dep, to.at)' BY <2>8 DEF KnowsBuild, Reading
      <3>2. touched'[d] = {} BY <1>2, <1>4, <1>6
      <3>3. KnowsHosts(to.pc, to.fate, to.dep, to.at)'
        BY <2>8, <3>2 DEF KnowsHosts, Reading, Switching, Restoring
      <3>4. KnowsRow(to.pc, to.dep, to.at)' BY <2>8 DEF KnowsRow
      <3>5. KnowsPast(to.dep)' BY <2>8, <3>2 DEF KnowsPast, Begun
      <3> QED BY <3>1, <3>3, <3>4, <3>5 DEF Knows
    <2>14. WorkerFits(p, to)' BY <2>10, <2>12, <2>13 DEF WorkerFits
    <2>15. \A e \in Deployments : Turns(e, {p}) BY <1>4
    <2>16. Truth'
      <3>1. \A e \in Deployments : \A g \in TargetHosts(e) : target'[e][g] = target[e][g]
        BY <1>4
      <3> QED BY <1>2, <2>15, <3>1, TruthOfCalls DEF FleetIInv
    <2>17. LeavesToOthers(p) BY <1>2, <1>4, NoneDisturbed
    <2> QED BY <1>4, <2>4, <2>14, <2>15, <2>16, <2>17, StepOfOne
  <1> QED BY <1>5, <1>6

LEMMA ClaimAnswerLostKeeps ==
    ASSUME FleetIInv, NEW p \in Deployers, ClaimAnswerLost(p) PROVE FleetIInv'
  <1>1. proc[p] = Resting BY IdleRests DEF ClaimAnswerLost
  <1>2. UNCHANGED <<proc, host, seen, touched, adrift>> BY DEF ClaimAnswerLost
  <1>3. PICK d \in SshBacked \cup {Nobody} : ClaimRow(p, SshBacked, d) BY DEF ClaimAnswerLost
  <1>4. Ledger' /\ target' = target /\ \A e \in Deployments : Turns(e, {p}) /\ Stays(e)
    BY <1>2, <1>3, ClaimStep DEF FleetIInv
  <1> QED BY <1>1, <1>2, <1>4, CallByOthers

\* The guard stops: it vouches for nothing any more.
LEMMA RenewLoopKeeps ==
    ASSUME FleetIInv, NEW p \in Deployers, RenewLoop(p) PROVE FleetIInv'
  <1>0. PICK me : me = proc[p] OBVIOUS
  <1>1. proc[p].pc # "idle" /\ UNCHANGED <<storeVars, host, seen, touched, adrift>> BY DEF RenewLoop
  <1>2. PICK g \in {"cancel", "lost"} : Goes(p, [me EXCEPT !.guard = g]) BY <1>0 DEF RenewLoop
  <1>3. PICK to : to = [me EXCEPT !.guard = g] OBVIOUS
  <1>4. WorkerFits(p, me) /\ AtWork(me) /\ me \in Worker BY <1>0, <1>1, AtWorkFacts
  <1>5. /\ to \in Worker /\ to.guard = g /\ to.dep = me.dep /\ to.fence = me.fence
        /\ to.pc = me.pc /\ to.at = me.at /\ to.cursor = me.cursor
        /\ to.found = me.found /\ to.fate = me.fate
    <2>1. to \in Worker BY <1>3, <1>4 DEF Worker
    <2> QED BY <1>3, <1>4, <2>1 DEF Worker
  <1>6. AtWork(to) BY <1>4, <1>5 DEF AtWork
  <1>7. Vouches(p, to) BY <1>4, <1>5 DEF WorkerFits, Vouches
  <1>8. HoldsLease(p, to.dep, to.fence) => Knows(to)
    <2>1. HoldsLease(p, me.dep, me.fence) => Knows(me) BY <1>4 DEF WorkerFits
    <2> QED BY <1>5, <2>1 DEF Knows, KnowsBuild
  <1>9. WorkerFits(p, to) BY <1>6, <1>7, <1>8 DEF WorkerFits
  <1> QED BY <1>1, <1>2, <1>3, <1>9, QuietStep

\* A deployer dies, with a command of its under way or not.
LEMMA DeployerCrashesKeeps ==
    ASSUME FleetIInv, NEW p \in Deployers, DeployerCrashes(p) PROVE FleetIInv'
  <1>1. Goes(p, Resting) /\ UNCHANGED <<storeVars, seen, touched>> BY DEF DeployerCrashes
  <1>2. CASE proc[p].pc \in {"switching", "restoring"}
    <2>1. PICK c \in {proc[p].dep, dep[proc[p].dep].preview[proc[p].at]} :
            Severed(proc[p].dep, Here(p), c)
      BY <1>2 DEF DeployerCrashes
    <2>2. Severs(p, c) BY <2>1, SeveredSevers DEF FleetIInv
    <2> QED BY <1>1, <1>2, <2>2, HostStep
  <1>3. CASE proc[p].pc \notin {"switching", "restoring"}
    <2>1. UNCHANGED <<storeVars, host, seen, touched, adrift>> BY <1>1, <1>3 DEF DeployerCrashes
    <2> QED BY <1>1, <2>1, QuietStep
  <1> QED BY <1>2, <1>3

\* The administrators.
LEMMA AdministerKeeps ==
    ASSUME FleetIInv, NEW d \in Deployments, Administer(d) PROVE FleetIInv'
  <1>1. UNCHANGED <<proc, target, host, touched, adrift>>
    BY DEF Administer, Prepare, Approve, Cancel, procVars, storeVars
  <1>2. Ledger' /\ \A e \in Deployments : Turns(e, {}) /\ Stays(e)
    <2>1. CASE Prepare(d) /\ UNCHANGED procVars
      <3>1. UNCHANGED <<seen, touched>> BY <2>1 DEF procVars
      <3> QED BY <2>1, <3>1, PrepareStep DEF FleetIInv
    <2>2. CASE /\ dep[d].status \in {"preflight_queued", "awaiting_approval"}
               /\ seen' = [seen EXCEPT ![d] = dep[d].version]
               /\ UNCHANGED <<storeVars, proc, diskReceipts, host, touched, adrift, trouble>>
      <3>1. UNCHANGED <<storeVars, touched>> BY <2>2
      <3> QED BY <2>2, <3>1, LookStep DEF FleetIInv
    <2>3. CASE Approve(d, seen[d]) /\ UNCHANGED procVars
      <3>1. UNCHANGED <<seen, touched>> BY <2>3 DEF procVars
      <3> QED BY <2>3, <3>1, ApproveStep DEF FleetIInv
    <2>4. CASE Cancel(d) /\ UNCHANGED <<proc, diskReceipts, host, seen, touched, adrift>>
      <3>1. UNCHANGED <<seen, touched>> BY <2>4
      <3> QED BY <2>4, <3>1, CancelStep DEF FleetIInv
    <2> QED BY <2>1, <2>2, <2>3, <2>4 DEF Administer
  <1> QED BY <1>1, <1>2, CallByOthers

LEMMA TimePassesKeeps ==
    ASSUME FleetIInv, NEW d \in Deployments, TimePasses(d) PROVE FleetIInv'
  <1>1. UNCHANGED <<proc, target, host, touched, adrift>> /\ UNCHANGED <<seen, touched>>
    BY DEF TimePasses, DeadlinePasses, ApprovalLapses, procVars
  <1>2. DeadlinePasses(d) \/ ApprovalLapses(d) BY DEF TimePasses
  <1>3. Ledger' /\ \A e \in Deployments : Turns(e, {}) /\ Stays(e)
    <2>1. CASE DeadlinePasses(d) BY <1>1, <2>1, DeadlineStep DEF FleetIInv
    <2>2. CASE ApprovalLapses(d) BY <1>1, <2>2, LapseStep DEF FleetIInv
    <2> QED BY <1>2, <2>1, <2>2
  <1> QED BY <1>1, <1>3, CallByOthers

\* A lease runs out under a deployer that has stopped, or is gone.
LEMMA LeaseEndsKeeps ==
    ASSUME FleetIInv, NEW d \in Deployments, LeaseEnds(d) PROVE FleetIInv'
  <1>1. UNCHANGED <<proc, host, seen, touched, adrift>> /\ LeaseRunsOut(d)
    BY DEF LeaseEnds, procVars
  <1>2. /\ Ledger' /\ \A e \in Deployments : Turns(e, {})
        /\ \A e \in Deployments \ {d} : dep'[e] = dep[e]
    BY <1>1, LeaseStep DEF FleetIInv
  <1>3. target' = target /\ ~dep'[d].live
    <2>1. dep[d] \in RowType(d) /\ DOMAIN dep = Deployments
      BY DEF FleetIInv, Ledger, LedgerTypes, LedgerFits, SoundRow
    <2> QED BY <1>1, <2>1 DEF LeaseRunsOut, RowType
  <1>4. Truth'
    <2>1. \A e \in Deployments : \A g \in TargetHosts(e) : target'[e][g] = target[e][g]
      BY <1>3
    <2> QED BY <1>1, <1>2, <2>1, TruthOfCalls DEF FleetIInv
  <1>5. ASSUME NEW q \in Deployers PROVE DeployerFits(q)'
    <2>1. CASE proc[q] = Resting BY <1>1, <2>1 DEF DeployerFits, Resting
    <2>2. CASE proc[q] # Resting
      <3>1. PICK me : me = proc[q] OBVIOUS
      <3>2. WorkerFits(q, me) BY <2>2, <3>1 DEF FleetIInv, Team, DeployerFits
      <3>3. me.dep \in Deployments BY <3>2 DEF WorkerFits, AtWork, Worker, SshBacked
      <3>4. WorkerFits(q, me)'
        <4>1. CASE HoldsLease(q, me.dep, me.fence) /\ me.dep = d
          <5>1. me.guard # "on" /\ me.pc \notin {"switching", "restoring"}
            BY <3>1, <4>1 DEF LeaseEnds, HoldsLease
          <5>2. AtWork(me)' BY <3>2 DEF WorkerFits, AtWork
          <5>3. Vouches(q, me)' BY <5>1 DEF Vouches
          <5>4. ~HoldsLease(q, me.dep, me.fence)' BY <1>3, <4>1 DEF HoldsLease
          <5> QED BY <5>2, <5>3, <5>4 DEF WorkerFits
        <4>2. CASE ~(HoldsLease(q, me.dep, me.fence) /\ me.dep = d)
          <5>1. HoldsLease(q, me.dep, me.fence) => Stays(me.dep)
            BY <1>2, <3>3, <4>2, SameRowTurns
          <5>2. Spared(me.dep) BY <1>1, <1>3, HostsSpared
          <5>3. Undisturbed(q, me) BY <5>1, <5>2 DEF Undisturbed
          <5>4. Turns(me.dep, {}) BY <1>2, <3>3
          <5> QED BY <3>2, <5>3, <5>4, WorkerStays DEF FleetIInv
        <4> QED BY <4>1, <4>2
      <3>5. proc'[q] = me BY <1>1, <3>1
      <3> QED BY <3>4, <3>5 DEF DeployerFits
    <2> QED BY <2>1, <2>2
  <1>6. Team' BY <1>1, <1>5 DEF FleetIInv, Team
  <1> QED BY <1>2, <1>4, <1>6 DEF FleetIInv

\* A switch that was left behind takes effect: whoever has the lease of its deployment no longer
\* relies on that host, and whoever has another one allows for it.
LEMMA AdriftLandsKeeps ==
    ASSUME FleetIInv, NEW s \in adrift, AdriftLands(s) PROVE FleetIInv'
  <1>1. /\ UNCHANGED <<dep, target, lock, approval, proc, seen, touched>>
        /\ host' = [host EXCEPT ![s.host] = s.to]
    BY DEF AdriftLands, storeVars
  <1>2. Ledger' BY <1>1 DEF FleetIInv, Ledger, LedgerTypes, LedgerFits
  <1>3. Truth' /\ \A e, g : LeftOn(e, g)' <=> LeftOn(e, g) BY TruthOfLanding DEF FleetIInv
  <1>4. /\ s.dep \in Deployments /\ s.host \in Hosts
        /\ s.to \in {s.dep, Before(s.dep, s.host)} /\ host \in [Hosts -> Closures]
    BY DEF FleetIInv, Truth, DriftFits
  <1>5. \A e, g : Strayed(e, g)' <=> Strayed(e, g) BY <1>3 DEF Strayed
  <1>6. \A e \in Deployments : Turns(e, {}) /\ Stays(e) BY <1>1, SameRowTurns
  <1>7. ASSUME NEW e \in Deployments, NEW h \in TargetHosts(e) PROVE Unshaken(e, h)
    <2>1. CASE h # s.host
      <3>1. host'[h] = host[h] BY <1>1, <1>4, <2>1, OrderFacts
      <3> QED BY <1>3, <1>5, <3>1 DEF Unshaken
    <2>2. CASE h = s.host /\ s.dep = e
      <3>1. LeftOn(e, h) BY <2>2 DEF LeftOn
      <3>2. host'[h] \in {e, Before(e, h)} BY <1>1, <1>4, <2>2
      <3> QED BY <1>3, <1>5, <3>1, <3>2 DEF Unshaken
    <2>3. CASE h = s.host /\ s.dep # e
      <3>1. LeftOn(s.dep, h) BY <2>3 DEF LeftOn
      <3>2. Strayed(e, h)' BY <1>4, <1>5, <2>3, <3>1 DEF Strayed
      <3> QED BY <1>3, <1>5, <3>2 DEF Unshaken
    <2> QED BY <2>1, <2>2, <2>3
  <1>8. \A e \in Deployments : Spared(e) BY <1>1, <1>7 DEF Spared
  <1>9. ASSUME NEW q \in Deployers PROVE DeployerFits(q)'
    <2>1. CASE proc[q] = Resting BY <1>1, <2>1 DEF DeployerFits, Resting
    <2>2. CASE proc[q] # Resting
      <3>1. PICK me : me = proc[q] OBVIOUS
      <3>2. WorkerFits(q, me) BY <2>2, <3>1 DEF FleetIInv, Team, DeployerFits
      <3>3. me.dep \in Deployments BY <3>2 DEF WorkerFits, AtWork, Worker, SshBacked
      <3>4. Undisturbed(q, me) BY <1>6, <1>8, <3>3 DEF Undisturbed
      <3>5. Turns(me.dep, {}) BY <1>6, <3>3
      <3>6. WorkerFits(q, me)' BY <3>2, <3>4, <3>5, WorkerStays DEF FleetIInv
      <3>7. proc'[q] = me BY <1>1, <3>1
      <3> QED BY <3>6, <3>7 DEF DeployerFits
    <2> QED BY <2>1, <2>2
  <1>10. Team' BY <1>1, <1>9 DEF FleetIInv, Team
  <1> QED BY <1>2, <1>3, <1>10 DEF FleetIInv

-----------------------------------------------------------------------------
(* The invariant.                                                          *)

FleetSound == FleetIInv /\ ReceiptsFit

LEMMA FleetStarts ==
    ASSUME FleetInit PROVE FleetSound
  <1>1. /\ dep = [d \in Deployments |-> NewRow]
        /\ target = [d \in Deployments |-> [h \in TargetHosts(d) |-> "pending"]]
        /\ lock = [h \in Hosts |-> Nobody]
        /\ approval = [d \in Deployments |-> NoApproval]
        /\ proc = [p \in Deployers |-> Resting]
        /\ diskReceipts = [p \in Deployers |-> {}]
        /\ host = [h \in Hosts |-> Base]
        /\ seen = [d \in Deployments |-> 0]
        /\ touched = [d \in Deployments |-> {}]
        /\ adrift = {}
    BY DEF FleetInit, StoreInit
  <1>2. ASSUME NEW d \in Deployments PROVE NewRow \in RowType(d) /\ NoApproval \in ApprovalType(d)
    <2>1. "absent" \in DeploymentStatuses /\ "preflight" \in Phases /\ NoPreview \in Evidence(d)
      BY DEF DeploymentStatuses, Phases, Evidence
    <2> QED BY <2>1 DEF NewRow, RowType, NoApproval, ApprovalType
  <1>3. LedgerTypes
    <2>1. "pending" \in TargetStatuses BY DEF TargetStatuses
    <2> QED BY <1>1, <1>2, <2>1 DEF LedgerTypes
  <1>4. ASSUME NEW d \in Deployments PROVE LedgerFits(d)
    <2>1. /\ dep[d] = NewRow /\ NewRow.status = "absent" /\ NewRow.phase = "preflight"
          /\ ~NewRow.live /\ touched[d] = {}
      BY <1>1 DEF NewRow
    <2> QED BY <1>2, <2>1
         DEF LedgerFits, SoundRow, SoundApproval, SoundLocks, SoundPast, SoundUse
  <1>5. Truth
    <2>1. Base \notin Deployments BY FleetAssumption
    <2>2. host \in [Hosts -> Closures] BY <1>1 DEF Closures
    <2>3. \A h \in Hosts : HostFits(h) BY <1>1, <2>1 DEF HostFits
    <2>4. \A d \in Deployments : Supersedes(d) BY <1>1 DEF Supersedes
    <2>5. \A d \in Deployments : \A h \in TargetHosts(d) : RowTruth(d, h)
      BY <1>1 DEF RowTruth
    <2> QED BY <1>1, <2>2, <2>3, <2>4, <2>5 DEF Truth
  <1>6. Team BY <1>1 DEF Team, DeployerFits
  <1>7. ReceiptsFit BY <1>1 DEF ReceiptsFit
  <1> QED BY <1>3, <1>4, <1>5, <1>6, <1>7 DEF FleetSound, FleetIInv, Ledger

LEMMA ReceiptsStay ==
    ASSUME FleetSound, FleetNext PROVE ReceiptsFit'
  <1>1. CASE diskReceipts' = diskReceipts BY <1>1 DEF FleetSound, ReceiptsFit
  <1>2. ASSUME NEW p \in Deployers, GiveUp(p) PROVE ReceiptsFit'
    <2>1. PICK x : x = [dep |-> proc[p].dep, fence |-> proc[p].fence] OBVIOUS
    <2>2. proc[p] \in Worker /\ proc[p].dep \in Deployments BY <1>2, AtWorkFacts DEF GiveUp, FleetSound
    <2>3. x \in [dep : Deployments, fence : Nat] BY <2>1, <2>2 DEF Worker
    <2>4. \/ diskReceipts' = diskReceipts
          \/ diskReceipts' = [diskReceipts EXCEPT ![p] = @ \cup {x}]
      BY <1>2, <2>1 DEF GiveUp
    <2> QED BY <2>3, <2>4 DEF FleetSound, ReceiptsFit
  <1>3. ASSUME NEW p \in Deployers, Flush(p) PROVE ReceiptsFit'
    <2>1. PICK r \in diskReceipts[p] : diskReceipts' = [diskReceipts EXCEPT ![p] = @ \ {r}]
      BY <1>3 DEF Flush
    <2> QED BY <2>1 DEF FleetSound, ReceiptsFit
  <1>4. ASSUME NEW d \in Deployments, Administer(d) \/ TimePasses(d) \/ LeaseEnds(d)
        PROVE  diskReceipts' = diskReceipts
    BY <1>4 DEF Administer, TimePasses, LeaseEnds, procVars
  <1>5. ASSUME NEW p \in Deployers,
               \/ Start(p) \/ Preflight(p) \/ CheckHost(p) \/ Activate(p) \/ HandleFailure(p)
               \/ Rollback(p) \/ FinishPhase(p) \/ ClaimDeployment(p) \/ ClaimAnswerLost(p)
               \/ PolicyChanged(p) \/ RenewLoop(p) \/ DeployerCrashes(p)
        PROVE  diskReceipts' = diskReceipts
    <2>1. \A h, s, yes, no : Tell(p, h, s, yes, no) => diskReceipts' = diskReceipts BY DEF Tell
    <2>2. \A b, ok, failed, end : Runs(p, b, ok, failed, end) => diskReceipts' = diskReceipts
      BY DEF Runs
    <2>3. \A to, ok, failed, end : Switches(p, to, ok, failed, end) => diskReceipts' = diskReceipts
      BY DEF Switches
    <2>4. Start(p) \/ Preflight(p) \/ CheckHost(p) => diskReceipts' = diskReceipts
      BY <2>1, <2>2 DEF Start, Preflight, CheckHost
    <2>5. Activate(p) => diskReceipts' = diskReceipts BY <2>1, <2>2, <2>3 DEF Activate
    <2>6. HandleFailure(p) \/ Rollback(p) => diskReceipts' = diskReceipts
      BY <2>1, <2>3 DEF HandleFailure, Rollback
    <2>7. FinishPhase(p) \/ ClaimDeployment(p) \/ ClaimAnswerLost(p) \/ PolicyChanged(p)
          \/ RenewLoop(p) \/ DeployerCrashes(p) => diskReceipts' = diskReceipts
      BY DEF FinishPhase, ClaimDeployment, ClaimAnswerLost, PolicyChanged, RenewLoop, DeployerCrashes
    <2> QED BY <1>5, <2>4, <2>5, <2>6, <2>7
  <1>6. ASSUME NEW s \in adrift, AdriftLands(s) PROVE diskReceipts' = diskReceipts
    BY <1>6 DEF AdriftLands
  <1> QED BY <1>1, <1>2, <1>3, <1>4, <1>5, <1>6 DEF FleetNext, Loop, Works

LEMMA FleetSteps ==
    ASSUME FleetSound, [FleetNext]_fleetVars PROVE FleetSound'
  <1>1. FleetIInv BY DEF FleetSound
  <1>2. CASE UNCHANGED fleetVars
    <2>1. /\ UNCHANGED <<dep, target, lock, approval, proc, diskReceipts, host, seen, touched>>
          /\ UNCHANGED <<proc, target, host, touched, adrift>>
      BY <1>2 DEF fleetVars, procVars, storeVars
    <2>2. Ledger' BY <1>1, <2>1 DEF FleetIInv, Ledger, LedgerTypes, LedgerFits
    <2>3. \A e \in Deployments : Turns(e, {}) /\ Stays(e) BY <2>1, SameRowTurns
    <2>4. FleetIInv' BY <1>1, <2>1, <2>2, <2>3, CallByOthers
    <2>5. ReceiptsFit' BY <2>1 DEF FleetSound, ReceiptsFit
    <2> QED BY <2>4, <2>5 DEF FleetSound
  <1>3. CASE FleetNext
    <2>1. ReceiptsFit' BY <1>3, ReceiptsStay
    <2>2. ASSUME NEW d \in Deployments, Administer(d) \/ TimePasses(d) \/ LeaseEnds(d)
          PROVE  FleetIInv'
      BY <1>1, <2>2, AdministerKeeps, TimePassesKeeps, LeaseEndsKeeps
    <2>3. ASSUME NEW p \in Deployers, Works(p) PROVE FleetIInv'
      BY <1>1, <2>3, StartKeeps, PreflightKeeps, CheckHostKeeps, ActivateKeeps, HandleFailureKeeps,
         RollbackKeeps, FinishKeeps, GiveUpKeeps DEF Works
    <2>4. ASSUME NEW p \in Deployers, Flush(p) \/ ClaimDeployment(p) PROVE FleetIInv'
      BY <2>4, FlushKeeps, ClaimDeploymentKeeps DEF FleetSound
    <2>5. ASSUME NEW p \in Deployers,
                 ClaimAnswerLost(p) \/ PolicyChanged(p) \/ RenewLoop(p) \/ DeployerCrashes(p)
          PROVE  FleetIInv'
      BY <1>1, <2>5, ClaimAnswerLostKeeps, PolicyChangedKeeps, RenewLoopKeeps, DeployerCrashesKeeps
    <2>6. ASSUME NEW s \in adrift, AdriftLands(s) PROVE FleetIInv'
      BY <1>1, <2>6, AdriftLandsKeeps
    <2>7. FleetIInv' BY <1>3, <2>2, <2>3, <2>4, <2>5, <2>6 DEF FleetNext, Loop
    <2> QED BY <2>1, <2>7 DEF FleetSound
  <1> QED BY <1>2, <1>3

\* In every reachable state the ledger is sound, what its rows say of the hosts is
\* true, and each deployer knows what it relies on under its lease: with any number of
\* switches left behind on the hosts, which may take effect at any time.
THEOREM FleetInvariance == FleetSpec => []FleetSound
  <1>1. FleetInit => FleetSound BY FleetStarts
  <1>2. FleetSound /\ [FleetNext]_fleetVars => FleetSound' BY FleetSteps
  <1> QED BY <1>1, <1>2, PTL DEF FleetSpec

\* The ledger, the deployers and the hosts keep their types.
THEOREM FleetTypes == FleetSpec => []FleetTypeOK
  <1>1. FleetSound => FleetTypeOK
    <2> SUFFICES ASSUME FleetSound PROVE FleetTypeOK OBVIOUS
    <2>1. ASSUME NEW d \in Deployments
          PROVE  /\ dep[d].status \in DeploymentStatuses
                 /\ dep[d].phase \in {"preflight", "apply", "complete"}
                 /\ dep[d].deployer \in Deployers \cup {Nobody}
                 /\ dep[d].live => dep[d].deployer # Nobody
                 /\ dep[d].preview = NoPreview \/ dep[d].preview \in [DOMAIN Order[d] -> Closures]
                 /\ target[d] \in [TargetHosts(d) -> TargetStatuses]
                 /\ touched[d] \subseteq TargetHosts(d)
      <3>1. dep[d] \in RowType(d) /\ SoundRow(d, dep[d])
        BY DEF FleetSound, FleetIInv, Ledger, LedgerFits, SoundRow
      <3> QED BY <3>1
        DEF FleetSound, FleetIInv, Ledger, LedgerTypes, SoundRow, RowType, Phases, Evidence
    <2>2. lock \in [Hosts -> Deployments \cup {Nobody}] /\ host \in [Hosts -> Closures]
      BY DEF FleetSound, FleetIInv, Ledger, LedgerTypes, Truth
    <2>3. ASSUME NEW p \in Deployers
          PROVE  \/ proc[p] = Resting
                 \/ proc[p].dep \in Deployments /\ proc[p].at \in DOMAIN Order[proc[p].dep]
      BY DEF FleetSound, FleetIInv, Team, DeployerFits, WorkerFits, AtWork, Worker, SshBacked
    <2>4. adrift \subseteq [dep : Deployments, host : Hosts, to : Closures, over : BOOLEAN]
      BY DEF FleetSound, FleetIInv, Truth, DriftFits
    <2> QED BY <2>1, <2>2, <2>3, <2>4 DEF FleetTypeOK
  <1> QED BY <1>1, FleetInvariance, PTL

\* What a row says of its host is true, whatever calls were lost, whoever died and whatever
\* switches were left behind.
THEOREM RowsTellTheTruth == FleetSpec => []HostRowsTruthful
  <1>1. FleetSound => HostRowsTruthful BY TruthIsProperty DEF FleetSound, FleetIInv
  <1> QED BY <1>1, FleetInvariance, PTL

-----------------------------------------------------------------------------
(* What ended stays ended.                                                 *)

\* Of the rows and the history, a step changes at most those of d, which is live.
OnlyOf(d) ==
    /\ dep[d].live
    /\ \A e \in Deployments \ {d} :
          dep'[e] = dep[e] /\ target'[e] = target[e] /\ touched'[e] = touched[e]

Untold == UNCHANGED <<dep, target, touched>>

EndedStay ==
    \A d \in Deployments : dep[d].status \in Terminal =>
        dep'[d] = dep[d] /\ target'[d] = target[d] /\ touched'[d] = touched[d]

LEMMA LiveHasNotEnded ==
    ASSUME Ledger, NEW d \in Deployments, OnlyOf(d) PROVE EndedStay
  <1>1. SoundRow(d, dep[d]) BY DEF Ledger, LedgerFits
  <1>2. dep[d].status \notin Terminal BY <1>1 DEF OnlyOf, SoundRow, Running, Terminal
  <1> QED BY <1>2 DEF OnlyOf, EndedStay

\* A call of p reaches only the row that p has the lease of.
LEMMA TellsItsOwn ==
    ASSUME FleetIInv, NEW p \in Deployers, proc[p].pc # "idle", NEW h, NEW s, NEW yes, NEW no,
           Tell(p, h, s, yes, no)
    PROVE  EndedStay
  <1>1. PICK d : d = proc[p].dep OBVIOUS
  <1>2. d \in Deployments /\ (HoldsFence(p) => dep[d].live) BY <1>1, AtWorkFacts
  <1>3. UNCHANGED storeVars \/ (HoldsFence(p) /\ UpdateTarget(d, h, s))
    BY <1>1 DEF Tell, TargetUpdateAccepted, HoldsFence
  <1>4. touched' = touched BY DEF Tell
  <1>5. CASE UNCHANGED storeVars BY <1>4, <1>5 DEF storeVars, EndedStay
  <1>6. CASE HoldsFence(p) /\ UpdateTarget(d, h, s)
    <2>1. \A e \in Deployments \ {d} : dep'[e] = dep[e] /\ target'[e] = target[e]
      BY <1>6 DEF UpdateTarget, FleetIInv, Ledger, LedgerTypes
    <2>2. OnlyOf(d) BY <1>2, <1>4, <1>6, <2>1 DEF OnlyOf
    <2> QED BY <1>2, <2>2, LiveHasNotEnded DEF FleetIInv
  <1> QED BY <1>3, <1>5, <1>6

LEMMA CompletesItsOwn ==
    ASSUME FleetIInv, NEW d \in Deployments, dep[d].live, NEW ok, NEW x, CompletePhase(d, ok, x),
           touched' = touched
    PROVE  EndedStay
  <1>1. \A e \in Deployments \ {d} : dep'[e] = dep[e] /\ target'[e] = target[e]
    BY DEF CompletePhase, FleetIInv, Ledger, LedgerTypes
  <1>2. OnlyOf(d) BY <1>1 DEF OnlyOf
  <1> QED BY <1>2, LiveHasNotEnded DEF FleetIInv

LEMMA WorksOnItsOwn ==
    ASSUME FleetIInv, NEW p \in Deployers, Works(p) PROVE EndedStay
  <1>1. proc[p].pc # "idle"
    BY DEF Works, Start, Preflight, CheckHost, Activate, HandleFailure, Rollback, FinishPhase, GiveUp
  <1>2. PICK d : d = proc[p].dep OBVIOUS
  <1>3. d \in Deployments /\ (HoldsFence(p) => dep[d].live)
        /\ (GuardOn(p) /\ proc[p].pc # "giveup" => HoldsFence(p))
    BY <1>1, <1>2, AtWorkFacts
  <1>4. \A h, s, yes, no : Tell(p, h, s, yes, no) => EndedStay BY <1>1, TellsItsOwn
  <1>5. Untold => EndedStay BY DEF Untold, EndedStay
  <1>6. \A b, ok, failed, end : Runs(p, b, ok, failed, end) => Untold
    BY DEF Runs, Untold, storeVars
  <1>7. \A to, ok, failed, end : Switches(p, to, ok, failed, end) => Untold
    BY DEF Switches, Untold, storeVars
  <1>8. UNCHANGED <<storeVars, diskReceipts, host, seen, touched, adrift, trouble>> => Untold
    BY DEF Untold, storeVars
  <1>9. CASE Start(p) BY <1>5, <1>6, <1>9 DEF Start
  <1>10. CASE Preflight(p) BY <1>4, <1>5, <1>6, <1>10 DEF Preflight
  <1>11. CASE CheckHost(p) BY <1>5, <1>6, <1>11 DEF CheckHost
  <1>12. CASE Activate(p)
    <2>1. CASE proc[p].pc = "switch" /\ GuardOn(p)
      <3>1. touched' = [touched EXCEPT ![d] = @ \cup {Here(p)}] /\ UNCHANGED storeVars
        BY <1>2, <1>12, <2>1 DEF Activate
      <3>2. \A e \in Deployments \ {d} :
              dep'[e] = dep[e] /\ target'[e] = target[e] /\ touched'[e] = touched[e]
        BY <3>1 DEF FleetIInv, Ledger, LedgerTypes, storeVars
      <3>3. OnlyOf(d) BY <1>3, <2>1, <3>2 DEF OnlyOf
      <3> QED BY <1>3, <3>3, LiveHasNotEnded DEF FleetIInv
    <2>2. CASE proc[p].pc = "switch" /\ ~GuardOn(p)
      <3>1. UNCHANGED <<storeVars, touched>> BY <1>12, <2>2 DEF Activate
      <3> QED BY <1>5, <3>1 DEF Untold, storeVars
    <2>3. CASE proc[p].pc # "switch" BY <1>4, <1>5, <1>6, <1>7, <1>8, <1>12, <2>3 DEF Activate
    <2> QED BY <2>1, <2>2, <2>3
  <1>13. CASE HandleFailure(p) BY <1>4, <1>13 DEF HandleFailure
  <1>14. CASE Rollback(p) BY <1>4, <1>5, <1>7, <1>8, <1>14 DEF Rollback
  <1>15. CASE FinishPhase(p)
    <2>1. touched' = touched BY <1>15 DEF FinishPhase
    <2>2. \/ UNCHANGED storeVars
          \/ HoldsFence(p) /\ CompletePhase(d, proc[p].fate = "ok", proc[p].found)
      BY <1>2, <1>15 DEF FinishPhase
    <2>3. CASE UNCHANGED storeVars BY <1>5, <2>1, <2>3 DEF Untold, storeVars
    <2> QED BY <1>3, <2>1, <2>2, <2>3, CompletesItsOwn
  <1>16. CASE GiveUp(p)
    <2>1. touched' = touched BY <1>16 DEF GiveUp
    <2>2. UNCHANGED storeVars \/ (HoldsFence(p) /\ CompletePhase(d, FALSE, NoPreview))
      BY <1>2, <1>16 DEF GiveUp
    <2>3. CASE UNCHANGED storeVars BY <1>5, <2>1, <2>3 DEF Untold, storeVars
    <2> QED BY <1>3, <2>1, <2>2, <2>3, CompletesItsOwn
  <1> QED BY <1>9, <1>10, <1>11, <1>12, <1>13, <1>14, <1>15, <1>16 DEF Works

\* What no deployer at work does: the ledger takes the turns it may.
LEMMA TurnsKeepEnds ==
    ASSUME NEW S, \A e \in Deployments : Turns(e, S), UNCHANGED <<target, touched>>
    PROVE  EndedStay
  BY DEF Turns, EndedStay

LEMMA OthersKeepEnds ==
    ASSUME FleetIInv, NEW d \in Deployments, Administer(d) \/ TimePasses(d) \/ LeaseEnds(d)
    PROVE  EndedStay
  <1>1. UNCHANGED <<target, touched>>
    BY DEF Administer, Prepare, Approve, Cancel, TimePasses, DeadlinePasses, ApprovalLapses,
           LeaseEnds, LeaseRunsOut, procVars, storeVars
  <1>2. CASE /\ UNCHANGED <<seen, touched>>
             /\ \/ Prepare(d) \/ Approve(d, seen[d]) \/ Cancel(d) \/ DeadlinePasses(d)
                \/ ApprovalLapses(d) \/ LeaseRunsOut(d)
    <2>1. \A e \in Deployments : Turns(e, {})
      BY <1>2, PrepareStep, ApproveStep, CancelStep, DeadlineStep, LapseStep, LeaseStep DEF FleetIInv
    <2> QED BY <1>1, <2>1, TurnsKeepEnds
  <1>3. CASE UNCHANGED storeVars BY <1>1, <1>3 DEF storeVars, EndedStay
  <1> QED BY <1>2, <1>3 DEF Administer, TimePasses, LeaseEnds, procVars

LEMMA EndsStepByStep ==
    ASSUME FleetSound, [FleetNext]_fleetVars PROVE EndedStay
  <1>1. FleetIInv /\ Ledger BY DEF FleetSound, FleetIInv
  <1>2. CASE UNCHANGED fleetVars BY <1>2 DEF fleetVars, storeVars, procVars, EndedStay
  <1>3. ASSUME NEW d \in Deployments, Administer(d) \/ TimePasses(d) \/ LeaseEnds(d)
        PROVE  EndedStay
    BY <1>1, <1>3, OthersKeepEnds
  <1>4. ASSUME NEW p \in Deployers, Works(p) PROVE EndedStay BY <1>1, <1>4, WorksOnItsOwn
  <1>5. ASSUME NEW p \in Deployers, Flush(p) PROVE EndedStay
    <2>1. touched' = touched BY <1>5 DEF Flush
    <2>2. PICK r \in diskReceipts[p] :
             IF HoldsLease(p, r.dep, r.fence) THEN CompletePhase(r.dep, FALSE, NoPreview)
             ELSE UNCHANGED storeVars
      BY <1>5 DEF Flush
    <2>3. r.dep \in Deployments BY <2>2 DEF FleetSound, ReceiptsFit
    <2>4. CASE HoldsLease(p, r.dep, r.fence)
      <3>1. dep[r.dep].live BY <2>4 DEF HoldsLease
      <3> QED BY <1>1, <2>1, <2>2, <2>3, <2>4, <3>1, CompletesItsOwn
    <2>5. CASE UNCHANGED storeVars BY <2>1, <2>5 DEF storeVars, EndedStay
    <2> QED BY <2>2, <2>4, <2>5
  <1>6. ASSUME NEW p \in Deployers, ClaimDeployment(p) \/ ClaimAnswerLost(p) PROVE EndedStay
    <2>1. UNCHANGED <<seen, touched>> BY <1>6 DEF ClaimDeployment, ClaimAnswerLost
    <2>2. PICK d \in SshBacked \cup {Nobody} : ClaimRow(p, SshBacked, d)
      BY <1>6 DEF ClaimDeployment, ClaimAnswerLost
    <2>3. target' = target /\ \A e \in Deployments : Turns(e, {p})
      BY <1>1, <2>1, <2>2, ClaimStep
    <2> QED BY <2>1, <2>3, TurnsKeepEnds
  <1>7. ASSUME NEW p \in Deployers, PolicyChanged(p) PROVE EndedStay
    <2>1. /\ proc[p].pc # "idle" /\ HoldsFence(p) /\ touched' = touched
          /\ CompletePhase(proc[p].dep, FALSE, NoPreview)
      BY <1>7 DEF PolicyChanged
    <2>2. proc[p].dep \in Deployments /\ dep[proc[p].dep].live BY <1>1, <2>1, AtWorkFacts
    <2> QED BY <1>1, <2>1, <2>2, CompletesItsOwn
  <1>8. ASSUME NEW p \in Deployers, RenewLoop(p) \/ DeployerCrashes(p) PROVE EndedStay
    BY <1>8 DEF RenewLoop, DeployerCrashes, storeVars, EndedStay
  <1>9. ASSUME NEW s \in adrift, AdriftLands(s) PROVE EndedStay
    BY <1>9 DEF AdriftLands, storeVars, EndedStay
  <1>10. CASE FleetNext
    BY <1>3, <1>4, <1>5, <1>6, <1>7, <1>8, <1>9, <1>10 DEF FleetNext, Loop
  <1> QED BY <1>2, <1>10

\* Once a deployment has ended, nothing changes its row or its hosts' rows, and it
\* starts no activation any more.
THEOREM EndsAreFinal == FleetSpec => EndedIsFinal
  <1>1. FleetSound /\ [FleetNext]_fleetVars => [EndedStay]_fleetVars BY EndsStepByStep
  <1>2. [][EndedStay]_fleetVars => EndedIsFinal BY DEF EndedStay, EndedIsFinal
  <1> QED BY <1>1, <1>2, FleetInvariance, PTL DEF FleetSpec

-----------------------------------------------------------------------------
(* What a host may be changed to.                                          *)

\* A host changes, and a switch is left behind, by a command of a deployer, from one closure of
\* its row's preview and contract to the other, or by one that was left behind before.
LEMMA WhoSwitches ==
    ASSUME FleetIInv, FleetNext
    PROVE  \/ UNCHANGED <<host, adrift>>
           \/ \E p \in Deployers :
                 /\ proc[p].pc \in {"switching", "restoring"}
                 /\ \E c \in {proc[p].dep, dep[proc[p].dep].preview[proc[p].at]} : Severs(p, c)
           \/ \E s \in adrift : AdriftLands(s)
  <1> DEFINE same == UNCHANGED <<host, adrift>>
             by(p) == /\ proc[p].pc \in {"switching", "restoring"}
                      /\ \E c \in {proc[p].dep, dep[proc[p].dep].preview[proc[p].at]} : Severs(p, c)
  <1>1. ASSUME NEW d \in Deployments, Administer(d) \/ TimePasses(d) \/ LeaseEnds(d)
        PROVE  same
    BY <1>1 DEF Administer, TimePasses, LeaseEnds, procVars
  <1>2. ASSUME NEW p \in Deployers, Works(p) PROVE same \/ by(p)
    <2>1. \A h, s, yes, no : Tell(p, h, s, yes, no) => same BY DEF Tell
    <2>2. \A b, ok, failed, end : Runs(p, b, ok, failed, end) => same BY DEF Runs
    <2>3. ASSUME NEW c, NEW ok, NEW failed, NEW end, Switches(p, c, ok, failed, end)
          PROVE  Severs(p, c)
      <3>1. HostPut(p, c) \/ Severed(proc[p].dep, Here(p), c)
        BY <2>3 DEF Switches, HostPut
      <3> QED BY <3>1, SeveredSevers DEF FleetIInv, Severs
    <2>4. Start(p) \/ Preflight(p) \/ CheckHost(p) \/ HandleFailure(p) => same
      BY <2>1, <2>2 DEF Start, Preflight, CheckHost, HandleFailure
    <2>5. FinishPhase(p) \/ GiveUp(p) => same BY DEF FinishPhase, GiveUp
    <2>6. ASSUME Activate(p) PROVE same \/ by(p)
      <3>1. CASE proc[p].pc = "switching"
        <4>1. Severs(p, proc[p].dep) BY <2>3, <2>6, <3>1 DEF Activate
        <4> QED BY <3>1, <4>1
      <3>2. CASE proc[p].pc # "switching" BY <2>1, <2>2, <2>6, <3>2 DEF Activate
      <3> QED BY <3>1, <3>2
    <2>7. ASSUME Rollback(p) PROVE same \/ by(p)
      <3>1. CASE proc[p].pc = "restoring"
        <4>1. Severs(p, dep[proc[p].dep].preview[proc[p].at]) BY <2>3, <2>7, <3>1 DEF Rollback
        <4> QED BY <3>1, <4>1
      <3>2. CASE proc[p].pc # "restoring" BY <2>1, <2>7, <3>2 DEF Rollback
      <3> QED BY <3>1, <3>2
    <2> QED BY <1>2, <2>4, <2>5, <2>6, <2>7 DEF Works
  <1>3. ASSUME NEW p \in Deployers,
               \/ Flush(p) \/ ClaimDeployment(p) \/ ClaimAnswerLost(p) \/ PolicyChanged(p)
               \/ RenewLoop(p)
        PROVE  same
    BY <1>3 DEF Flush, ClaimDeployment, ClaimAnswerLost, PolicyChanged, RenewLoop
  <1>4. ASSUME NEW p \in Deployers, DeployerCrashes(p) PROVE same \/ by(p)
    <2>1. CASE proc[p].pc \in {"switching", "restoring"}
      <3>1. \E c \in {proc[p].dep, dep[proc[p].dep].preview[proc[p].at]} :
               Severed(proc[p].dep, Here(p), c)
        BY <1>4, <2>1 DEF DeployerCrashes
      <3> QED BY <2>1, <3>1, SeveredSevers DEF FleetIInv
    <2>2. CASE proc[p].pc \notin {"switching", "restoring"} BY <1>4, <2>2 DEF DeployerCrashes
    <2> QED BY <2>1, <2>2
  <1>5. ASSUME NEW p \in Deployers,
               Loop(p) \/ ClaimAnswerLost(p) \/ PolicyChanged(p) \/ RenewLoop(p) \/ DeployerCrashes(p)
        PROVE  same \/ by(p)
    <2> HIDE DEF by, same
    <2> QED BY <1>2, <1>3, <1>4, <1>5 DEF Loop
  <1> QED BY <1>1, <1>5 DEF FleetNext

\* The change of a host, as a reviewed preview announces or shows it.
Reviewed(h) ==
    \E d \in Deployments : \E i \in DOMAIN Order[d] :
       /\ Order[d][i] = h
       /\ approval[d].consumed /\ seen[d] = approval[d].version - 1
       /\ host'[h] \in {dep[d].preview[i], d}
       /\ \/ /\ Applies(d, h)
             /\ \/ host[h] \in {dep[d].preview[i], d}
                \/ \E e \in Deployments : LeftOn(e, h)
          \/ \E s \in adrift : s.dep = d /\ s.host = h /\ s.to = host'[h] /\ ~s.over

\* What a step makes of the hosts and of the switches left behind there.
Proper ==
    /\ \A h \in Hosts : host'[h] # host[h] => Reviewed(h)
    /\ \A s \in adrift' \ adrift : ~s.over => Applies(s.dep, s.host)

\* A command of a deployer.
LEMMA SwitchIsReviewed ==
    ASSUME FleetIInv, NEW p \in Deployers, proc[p].pc \in {"switching", "restoring"},
           NEW c \in {proc[p].dep, dep[proc[p].dep].preview[proc[p].at]}, Severs(p, c)
    PROVE  Proper
  <1>0. PICK me : me = proc[p] OBVIOUS
  <1>1. PICK d : d = me.dep OBVIOUS
  <1>2. PICK i : i = me.at OBVIOUS
  <1>3. /\ HoldsFence(p) /\ Begun(d, i) /\ (Serves(d, i) \/ Shows(d, i))
    BY <1>0, <1>1, <1>2, HostKnown
  <1>4. proc[p].pc \notin Reading \cup {"idle", "start", "finish", "giveup"} BY DEF Reading
  <1>5. dep[d].phase = "apply" BY <1>0, <1>1, <1>3, <1>4, InApply
  <1>6. /\ d \in Deployments /\ i \in DOMAIN Order[d] /\ dep[d].live
        /\ Here(p) \in TargetHosts(d) /\ Here(p) = Order[d][i]
        /\ dep[d].phase = "apply" => \A g \in TargetHosts(d) : lock[g] = d
    <2>1. /\ me.dep \in Deployments /\ me.at \in DOMAIN Order[me.dep] /\ dep[me.dep].live
          /\ Here(p) \in TargetHosts(me.dep)
          /\ dep[me.dep].phase = "apply" => \A g \in TargetHosts(me.dep) : lock[g] = me.dep
      BY <1>0, <1>3, <1>4, AtWorkFacts
    <2> QED BY <1>0, <1>1, <1>2, <2>1 DEF Here
  <1>7. Applies(d, Here(p)) BY <1>5, <1>6 DEF Applies
  <1>8. host \in [Hosts -> Closures] BY DEF FleetIInv, Truth
  <1>9. approval[d].consumed /\ seen[d] = approval[d].version - 1
    BY <1>5, <1>6 DEF FleetIInv, Ledger, LedgerFits, SoundApproval
  <1>10. c \in {d, dep[d].preview[i]} BY <1>0, <1>1, <1>2
  <1>11. ASSUME NEW h \in Hosts, host'[h] # host[h] PROVE Reviewed(h)
    <2>1. HostPut(p, c) BY <1>11 DEF Severs, Drifts
    <2>2. h = Here(p) /\ host'[h] = c BY <1>8, <1>11, <2>1 DEF HostPut
    <2>3. host[h] \in {dep[d].preview[i], d} \/ \E e \in Deployments : LeftOn(e, h)
      BY <1>3, <1>6, <2>2 DEF Serves, Shows, Strayed
    <2> QED BY <1>6, <1>7, <1>9, <1>10, <2>2, <2>3 DEF Reviewed
  <1>12. ASSUME NEW s \in adrift' \ adrift, ~s.over PROVE Applies(s.dep, s.host)
    <2>1. Drifts(p, c) BY <1>12 DEF Severs, HostPut
    <2>2. s = [dep |-> d, host |-> Here(p), to |-> c, over |-> FALSE]
      BY <1>0, <1>1, <1>12, <2>1 DEF Drifts
    <2> QED BY <1>7, <2>2
  <1> QED BY <1>11, <1>12 DEF Proper

\* A switch that was left behind.
LEMMA LandingIsReviewed ==
    ASSUME FleetIInv, NEW s \in adrift, AdriftLands(s) PROVE Proper
  <1>1. PICK d : d = s.dep OBVIOUS
  <1>2. /\ s \in [dep : Deployments, host : Hosts, to : Closures, over : BOOLEAN]
        /\ d \in Deployments /\ s.host \in touched[d] /\ s.to \in {d, Before(d, s.host)}
    BY <1>1 DEF FleetIInv, Truth, DriftFits
  <1>3. s.host \in TargetHosts(d) BY <1>2 DEF FleetIInv, Ledger, LedgerTypes
  <1>4. PICK i \in DOMAIN Order[d] : Order[d][i] = s.host BY <1>2, <1>3, OrderFacts
  <1>5. Before(d, s.host) = dep[d].preview[i] BY <1>2, <1>4, BeforeHere
  <1>6. approval[d].consumed /\ seen[d] = approval[d].version - 1
    BY <1>2 DEF FleetIInv, Ledger, LedgerFits, SoundUse
  <1>7. /\ ~s.over /\ host' = [host EXCEPT ![s.host] = s.to]
        /\ adrift' = (adrift \ {s}) \cup {[s EXCEPT !.over = TRUE]}
    BY DEF AdriftLands
  <1>8. host \in [Hosts -> Closures] BY DEF FleetIInv, Truth
  <1>9. ASSUME NEW h \in Hosts, host'[h] # host[h] PROVE Reviewed(h)
    <2>1. h = s.host /\ host'[h] = s.to BY <1>7, <1>8, <1>9
    <2>2. host'[h] \in {dep[d].preview[i], d} BY <1>2, <1>5, <2>1
    <2> QED BY <1>1, <1>2, <1>4, <1>6, <1>7, <2>1, <2>2 DEF Reviewed
  <1>10. ASSUME NEW r \in adrift' \ adrift PROVE r.over
    <2>1. r = [s EXCEPT !.over = TRUE] BY <1>7, <1>10
    <2> QED BY <1>2, <2>1
  <1> QED BY <1>9, <1>10 DEF Proper

\* A host changes only to a closure of a preview that someone looked at and approved, under an
\* approval used up for this apply: under a live lock, or by a switch of that deployment that
\* was left behind; and one is left behind only under a live lock.
THEOREM PreviewsRule == FleetSpec => PreviewRespected
  <1>1. ASSUME FleetSound, FleetNext PROVE [Proper]_fleetVars
    <2>1. FleetIInv BY <1>1 DEF FleetSound
    <2>2. CASE UNCHANGED <<host, adrift>> BY <2>2 DEF Proper
    <2>3. ASSUME NEW p \in Deployers, proc[p].pc \in {"switching", "restoring"},
                 NEW c \in {proc[p].dep, dep[proc[p].dep].preview[proc[p].at]}, Severs(p, c)
          PROVE  Proper
      BY <2>1, <2>3, SwitchIsReviewed
    <2>4. ASSUME NEW s \in adrift, AdriftLands(s) PROVE Proper
      BY <2>1, <2>4, LandingIsReviewed
    <2> QED BY <1>1, <2>1, <2>2, <2>3, <2>4, WhoSwitches
  <1>2. FleetSound /\ [FleetNext]_fleetVars => [Proper]_fleetVars BY <1>1
  <1>3. [][Proper]_fleetVars => PreviewRespected BY DEF Proper, Reviewed, PreviewRespected
  <1> QED BY <1>2, <1>3, FleetInvariance, PTL DEF FleetSpec

=============================================================================
