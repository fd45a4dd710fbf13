---------------------------- MODULE Replacement ----------------------------
(***************************************************************************)
(* The three replacement policies of the cache (replacement-policy.v): how *)
(* the state kept with a cache line's index changes when a way is hit, and *)
(* which way it selects for the next fill.                                 *)
(*                                                                         *)
(* "lru" keeps a rank per way, "plru_mru" the set of ways used lately,     *)
(* "plru_tree" a binary tree over the ways with one bit at each node.      *)
(***************************************************************************)
EXTENDS Integers

CONSTANT N_WAYS         \* a power of two

ASSUME WaysAssumption == N_WAYS \in Nat /\ N_WAYS > 1

Way      == 0 .. N_WAYS - 1
Policies == {"lru", "plru_mru", "plru_tree"}

---------------------------------------------------------------------------
(* LRU: rank 0 goes next.  A line never hit holds zeroes and counts as the  *)
(* identity -- except where the rank of the way that is hit is looked up.   *)

Ranks(line) == IF \E w \in Way : line[w] # 0 THEN line ELSE [w \in Way |-> w]

LruHit(line, w) ==
  [x \in Way |-> IF x = w THEN N_WAYS - 1
                 ELSE IF Ranks(line)[x] > line[w] THEN Ranks(line)[x] - 1
                 ELSE Ranks(line)[x]]

LruVictims(line) == {w \in Way : Ranks(line)[w] = 0}

(* Bit-based pseudo-LRU: the first way not used lately goes next. *)

MruHitKept(used, w) == used \union {w}     \* mutation: never starts over
MruHit(used, w) == IF used \union {w} = Way THEN {w} ELSE used \union {w}

MruVictims(used) == {w \in Way \ used : \A x \in 0 .. w - 1 : x \in used}

(* Tree-based pseudo-LRU: node n has the children 2n and 2n+1, way w is the *)
(* leaf w + N_WAYS, and a node's bit says which side goes next.             *)

Node == 1 .. N_WAYS - 1

Under(n, w) == \E k \in 0 .. N_WAYS : (w + N_WAYS) \div 2^k = n

TreeHit(bit, w) ==
  [n \in Node |-> IF Under(2 * n, w) THEN 1
                  ELSE IF Under(2 * n + 1, w) THEN 0 ELSE bit[n]]

TreeVictim(bit) ==
  LET leaf[n \in 1 .. 2 * N_WAYS - 1] ==
        IF n >= N_WAYS THEN n ELSE leaf[2 * n + bit[n]]
  IN  leaf[1] - N_WAYS

---------------------------------------------------------------------------
(* The policy a cache is built with *)

NeverUsed(policy) ==
  CASE policy = "lru"       -> [w \in Way |-> 0]
    [] policy = "plru_mru"  -> {}
    [] policy = "plru_tree" -> [n \in Node |-> 0]

Used(policy, line, w) ==
  CASE policy = "lru"       -> LruHit(line, w)
    [] policy = "plru_mru"  -> MruHit(line, w)
    [] policy = "plru_tree" -> TreeHit(line, w)

\* way_select, as the set of the bits that are 1.
Victims(policy, line) ==
  CASE policy = "lru"       -> LruVictims(line)
    [] policy = "plru_mru"  -> MruVictims(line)
    [] policy = "plru_tree" -> {TreeVictim(line)}

=============================================================================
