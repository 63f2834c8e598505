------------------------- MODULE ChainReplayProofs --------------------------
(***************************************************************************)
(* What the loops of ChainstateFlush over transactions and blocks compute. *)
(* A block decides the coin of an outpoint or leaves it alone, and         *)
(* DisconnectBlock takes back what ConnectBlock did.  So rolling coins     *)
(* that are each the old or the new head's back to the fork and forward    *)
(* to the new head makes them all the new head's: what ReplayBlocks relies *)
(* on, wherever a flush was interrupted.                                   *)
(***************************************************************************)
EXTENDS ChainstateFlush, WellFoundedInduction, TLAPS

-----------------------------------------------------------------------------
(* Induction and loops. *)

Less == OpToRel(<, Nat)

\* The order of the natural numbers is well founded.
LEMMA LessWellFounded == IsWellFoundedOn(Less, Nat)
BY NatLessThanWellFounded, Zenon DEF Less

\* Less is what it says.
LEMMA LessIs == \A x, y \in Nat : <<x, y>> \in Less <=> x < y
BY DEF Less, OpToRel

\* Induction, with a set in the place of a predicate.
LEMMA Induction ==
  ASSUME NEW S, 0 \in S, \A n \in Nat : n \in S => n + 1 \in S
  PROVE  \A n \in Nat : n \in S
<1> SUFFICES ASSUME Nat \ S # {} PROVE FALSE
  OBVIOUS
<1>1. PICK x \in Nat \ S : \A y \in Nat \ S : ~(<<y, x>> \in Less)
  BY LessWellFounded, WFMin, Nat \ S \subseteq Nat, Zenon
<1>2. x # 0 /\ x - 1 \in Nat /\ x - 1 < x
  OBVIOUS
<1>3. x - 1 \in S
  BY <1>1, <1>2, LessIs, Zenon
<1>4. (x - 1) + 1 = x
  OBVIOUS
<1> QED BY <1>2, <1>3, <1>4

\* A property of lo that every step up to hi keeps holds up to hi.
LEMMA Upward ==
  ASSUME NEW lo \in Nat, NEW hi \in Nat, NEW S, lo \in S,
         \A k \in lo .. hi - 1 : k \in S => k + 1 \in S
  PROVE  \A k \in lo .. hi : k \in S
<1> DEFINE T == {n \in Nat : lo + n <= hi => lo + n \in S}
<1>1. 0 \in T
  OBVIOUS
<1>2. ASSUME NEW n \in Nat, n \in T PROVE n + 1 \in T
  <2> SUFFICES ASSUME lo + (n + 1) <= hi PROVE lo + (n + 1) \in S
    OBVIOUS
  <2>1. lo + n \in S /\ lo + n \in lo .. hi - 1
    BY <1>2
  <2>2. lo + (n + 1) = (lo + n) + 1
    OBVIOUS
  <2> QED BY <2>1, <2>2
<1> HIDE DEF T
<1>3. \A n \in Nat : n \in T
  BY <1>1, <1>2, Induction
<1>4. ASSUME NEW k \in lo .. hi PROVE k \in S
  <2>1. k - lo \in Nat /\ lo + (k - lo) = k
    OBVIOUS
  <2>2. k - lo \in T
    BY <1>3, <2>1
  <2> QED BY <2>1, <2>2 DEF T
<1> QED BY <1>4

\* A property of hi that every step down to lo keeps holds down to lo.
LEMMA Downward ==
  ASSUME NEW lo \in Nat, NEW hi \in Nat, NEW S, hi \in S,
         \A k \in lo .. hi - 1 : k + 1 \in S => k \in S
  PROVE  \A k \in lo .. hi : k \in S
<1> DEFINE T == {n \in Nat : hi - n >= lo => hi - n \in S}
<1>1. 0 \in T
  OBVIOUS
<1>2. ASSUME NEW n \in Nat, n \in T PROVE n + 1 \in T
  <2> SUFFICES ASSUME hi - (n + 1) >= lo PROVE hi - (n + 1) \in S
    OBVIOUS
  <2>1. hi - n \in S /\ hi - (n + 1) \in lo .. hi - 1
    BY <1>2
  <2>2. (hi - (n + 1)) + 1 = hi - n
    OBVIOUS
  <2> QED BY <2>1, <2>2
<1> HIDE DEF T
<1>3. \A n \in Nat : n \in T
  BY <1>1, <1>2, Induction
<1>4. ASSUME NEW k \in lo .. hi PROVE k \in S
  <2>1. hi - k \in Nat /\ hi - (hi - k) = k
    OBVIOUS
  <2>2. hi - k \in T
    BY <1>3, <2>1
  <2> QED BY <2>1, <2>2 DEF T
<1> QED BY <1>4

\* The states f of a loop whose step k applies F, upwards from lo and downwards
\* from hi.
UpLoop(f, s, lo, hi, F) ==
  f = [k \in lo .. hi |-> IF k = lo THEN s ELSE F[<<f[k - 1], k>>]]
DownLoop(f, s, lo, hi, F) ==
  f = [k \in lo .. hi |-> IF k = hi THEN s ELSE F[<<f[k + 1], k + 1>>]]

\* A loop from lo to hi that starts with s in S and stays in S has a function of
\* its states.
LEMMA LoopUp ==
  ASSUME NEW S, NEW s \in S, NEW lo \in Nat, NEW hi \in Nat, lo <= hi,
         NEW F \in [S \X (lo + 1 .. hi) -> S]
  PROVE  \E f \in [lo .. hi -> S] : UpLoop(f, s, lo, hi, F)
<1> DEFINE Good(m, f) == f[lo] = s /\ \A k \in lo + 1 .. m : f[k] = F[<<f[k - 1], k>>]
           T == {m \in Nat : \E f \in [lo .. m -> S] : Good(m, f)}
<1>1. lo \in T
  <2> DEFINE f0 == [k \in lo .. lo |-> s]
  <2>1. f0 \in [lo .. lo -> S] /\ Good(lo, f0)
    OBVIOUS
  <2> QED BY <2>1
<1>2. ASSUME NEW m \in lo .. hi - 1, m \in T PROVE m + 1 \in T
  <2>1. PICK f \in [lo .. m -> S] : Good(m, f)
    BY <1>2
  <2> DEFINE x == F[<<f[m], m + 1>>]
             g == [k \in lo .. m + 1 |-> IF k = m + 1 THEN x ELSE f[k]]
  <2>2. <<f[m], m + 1>> \in S \X (lo + 1 .. hi)
    BY <2>1
  <2>3. x \in S
    BY <2>2
  <2>4. g[m + 1] = F[<<f[m], m + 1>>] /\ g[m] = f[m]
    OBVIOUS
  <2>5. \A k \in lo .. m : g[k] = f[k]
    OBVIOUS
  <2> HIDE DEF x
  <2>6. g \in [lo .. m + 1 -> S]
    BY <2>1, <2>3
  <2> HIDE DEF g
  <2>7. ASSUME NEW k \in lo + 1 .. m PROVE g[k] = F[<<g[k - 1], k>>]
    <3>1. k \in lo .. m /\ k - 1 \in lo .. m
      OBVIOUS
    <3>2. f[k] = F[<<f[k - 1], k>>]
      BY <2>1
    <3> QED BY <2>5, <3>1, <3>2
  <2>8. g[m + 1] = F[<<g[(m + 1) - 1], m + 1>>]
    BY <2>4
  <2>9. \A k \in lo + 1 .. m + 1 : k \in lo + 1 .. m \/ k = m + 1
    OBVIOUS
  <2>10. g[lo] = s
    BY <2>1, <2>5
  <2>11. Good(m + 1, g)
    BY <2>7, <2>8, <2>9, <2>10, Zenon
  <2> QED BY <2>6, <2>11
<1> HIDE DEF T
<1>a. \A k \in lo .. hi : k \in T
  BY <1>1, <1>2, Upward, Zenon
<1>3. hi \in T
  BY <1>a
<1>4. PICK f \in [lo .. hi -> S] : Good(hi, f)
  BY <1>3 DEF T
<1> DEFINE g == [k \in lo .. hi |-> IF k = lo THEN s ELSE F[<<f[k - 1], k>>]]
<1>5. \A k \in lo .. hi : f[k] = g[k]
  <2> TAKE k \in lo .. hi
  <2>1. CASE k = lo
    BY <1>4, <2>1
  <2>2. CASE k # lo
    <3>1. k \in lo + 1 .. hi
      BY <2>2
    <3> QED BY <1>4, <2>2, <3>1
  <2> QED BY <2>1, <2>2
<1>6. f = g
  BY <1>4, <1>5
<1> QED BY <1>4, <1>6, Zenon DEF UpLoop

\* The same for a loop from hi down to lo.
LEMMA LoopDown ==
  ASSUME NEW S, NEW s \in S, NEW lo \in Nat, NEW hi \in Nat, lo <= hi,
         NEW F \in [S \X (lo + 1 .. hi) -> S]
  PROVE  \E f \in [lo .. hi -> S] : DownLoop(f, s, lo, hi, F)
<1> DEFINE flip(k) == hi + lo - k
           G == [x \in S \X (lo + 1 .. hi) |-> F[<<x[1], flip(x[2]) + 1>>]]
<1>1. ASSUME NEW x \in S \X (lo + 1 .. hi) PROVE F[<<x[1], flip(x[2]) + 1>>] \in S
  <2>1. x[1] \in S /\ flip(x[2]) + 1 \in lo + 1 .. hi
    OBVIOUS
  <2> HIDE DEF flip
  <2> QED BY <2>1
<1>2. G \in [S \X (lo + 1 .. hi) -> S]
  <2> HIDE DEF flip
  <2> QED BY <1>1
<1>3. ASSUME NEW x \in S, NEW k \in lo + 1 .. hi PROVE G[<<x, k>>] = F[<<x, flip(k) + 1>>]
  <2> HIDE DEF flip
  <2> QED OBVIOUS
<1> HIDE DEF G
<1>4. PICK g \in [lo .. hi -> S] : UpLoop(g, s, lo, hi, G)
  BY <1>2, LoopUp, Zenon
<1> DEFINE f == [k \in lo .. hi |-> g[flip(k)]]
<1>5. f \in [lo .. hi -> S]
  OBVIOUS
<1>6. f[hi] = s
  BY <1>4 DEF UpLoop
<1>7. ASSUME NEW k \in lo .. hi, k # hi PROVE f[k] = F[<<f[k + 1], k + 1>>]
  <2>1. flip(k) \in lo + 1 .. hi /\ flip(k) - 1 = flip(k + 1) /\ flip(k + 1) \in lo .. hi
    BY <1>7
  <2>2. flip(flip(k)) + 1 = k + 1
    OBVIOUS
  <2>a. ASSUME NEW j \in lo + 1 .. hi PROVE g[j] = G[<<g[j - 1], j>>]
    <3>1. j \in lo .. hi /\ j # lo
      OBVIOUS
    <3> QED BY <1>4, <3>1 DEF UpLoop
  <2>3. g[flip(k)] = G[<<g[flip(k + 1)], flip(k)>>]
    BY <2>1, <2>a
  <2>4. g[flip(k + 1)] \in S
    BY <2>1
  <2>5. g[flip(k)] = F[<<g[flip(k + 1)], k + 1>>]
    BY <1>3, <2>1, <2>2, <2>3, <2>4
  <2>6. f[k] = g[flip(k)] /\ f[k + 1] = g[flip(k + 1)]
    BY <2>1
  <2> QED BY <2>5, <2>6, Zenon
<1> HIDE DEF f
<1>8. f = [k \in lo .. hi |-> IF k = hi THEN s ELSE F[<<f[k + 1], k + 1>>]]
  BY <1>5, <1>6, <1>7
<1> QED BY <1>5, <1>8, Zenon DEF DownLoop

-----------------------------------------------------------------------------
(* The transactions of a block. *)

\* A block's transactions are a sequence of inputs and outputs.
LEMMA VtxType ==
  ASSUME NEW b \in Block
  PROVE  /\ Len(Vtx[b]) \in Nat /\ DOMAIN Vtx[b] = 1 .. Len(Vtx[b]) /\ Height[b] \in Nat
         /\ \A n \in 1 .. Len(Vtx[b]) : /\ Vtx[b][n].vin \in Seq(OutPoint)
                                        /\ Range(Vtx[b][n].vin) \subseteq OutPoint
                                        /\ Vtx[b][n].vout \subseteq OutPoint
<1> DEFINE Tx == [vin : Seq(OutPoint), vout : SUBSET OutPoint]
<1>1. Vtx[b] \in Seq(Tx) /\ Height[b] \in Nat
  BY TreeAssumption, Zenon
<1>2. Len(Vtx[b]) \in Nat /\ DOMAIN Vtx[b] = 1 .. Len(Vtx[b])
  BY <1>1
<1>3. ASSUME NEW n \in 1 .. Len(Vtx[b])
      PROVE  /\ Vtx[b][n].vin \in Seq(OutPoint)
             /\ Range(Vtx[b][n].vin) \subseteq OutPoint
             /\ Vtx[b][n].vout \subseteq OutPoint
  <2>1. Vtx[b][n] \in Tx
    <3> HIDE DEF Tx
    <3> QED BY <1>1
  <2>2. Vtx[b][n].vin \in Seq(OutPoint) /\ Vtx[b][n].vout \subseteq OutPoint
    BY <2>1
  <2> QED BY <2>2 DEF Range
<1> QED BY <1>1, <1>2, <1>3

\* UpdateCoins yields coins.
LEMMA UpdateType ==
  ASSUME NEW u \in Coins, NEW b \in Block, NEW n \in 1 .. Len(Vtx[b])
  PROVE  UpdateCoins(u, Vtx[b][n], Height[b]) \in Coins
BY VtxType DEF UpdateCoins, Coins, Spent

\* ConnectBlock's loop starts with u and applies one transaction after the other.
LEMMA ConnectingIs ==
  ASSUME NEW u \in Coins, NEW b \in Block
  PROVE  /\ Connecting(u, b) \in [0 .. Len(Vtx[b]) -> Coins]
         /\ Connecting(u, b)[0] = u
         /\ \A n \in 1 .. Len(Vtx[b]) :
              Connecting(u, b)[n] = UpdateCoins(Connecting(u, b)[n - 1], Vtx[b][n], Height[b])
<1> DEFINE L == Len(Vtx[b])
           step(v, n) == UpdateCoins(v, Vtx[b][n], Height[b])
           F == [x \in Coins \X (0 + 1 .. L) |-> step(x[1], x[2])]
           G(f) == [n \in 0 .. L |-> IF n = 0 THEN u ELSE step(f[n - 1], n)]
<1>1. Connecting(u, b) = CHOOSE f : f = G(f)
  BY DEF Connecting
<1>2. L \in Nat /\ 0 <= L /\ 0 \in Nat
  BY VtxType
<1>3. \A v \in Coins, n \in 1 .. L : step(v, n) \in Coins
  BY UpdateType
<1> HIDE DEF L, step
<1>4. F \in [Coins \X (0 + 1 .. L) -> Coins]
  BY <1>2, <1>3
<1>5. \A v \in Coins, n \in 1 .. L : F[<<v, n>>] = step(v, n)
  BY <1>2
<1> HIDE DEF F
<1>6. PICK g \in [0 .. L -> Coins] : UpLoop(g, u, 0, L, F)
  <2> HIDE DEF G
  <2> QED BY <1>2, <1>4, LoopUp, Zenon
<1>7. \A n \in 0 .. L : g[n] = G(g)[n]
  <2> TAKE n \in 0 .. L
  <2>1. CASE n = 0
    BY <1>2, <1>6, <2>1 DEF UpLoop
  <2>2. CASE n # 0
    <3>1. n \in 1 .. L /\ n - 1 \in 0 .. L
      BY <1>2, <2>2
    <3>2. g[n] = F[<<g[n - 1], n>>]
      BY <1>6, <2>2, Zenon DEF UpLoop
    <3> QED BY <1>5, <2>2, <3>1, <3>2
  <2> QED BY <2>1, <2>2
<1>8. g = G(g)
  BY <1>7
<1> DEFINE c == Connecting(u, b)
<1>9. c = G(c)
  BY <1>1, <1>8, Zenon
<1> HIDE DEF c
<1>10. c[0] = u /\ \A n \in 1 .. L : c[n] = step(c[n - 1], n)
  BY <1>2, <1>9
<1> DEFINE S == {n \in Nat : n <= L => c[n] \in Coins}
<1>11. 0 \in S
  BY <1>10
<1>12. ASSUME NEW n \in Nat, n \in S PROVE n + 1 \in S
  <2> SUFFICES ASSUME n + 1 <= L PROVE c[n + 1] \in Coins
    OBVIOUS
  <2>1. c[n] \in Coins /\ n + 1 \in 1 .. L /\ (n + 1) - 1 = n
    BY <1>2, <1>12
  <2> QED BY <1>3, <1>10, <2>1
<1> HIDE DEF S
<1>13. \A n \in Nat : n \in S
  BY <1>11, <1>12, Induction
<1>14. \A n \in 0 .. L : c[n] \in Coins
  BY <1>2, <1>13 DEF S
<1>15. c \in [0 .. L -> Coins]
  BY <1>9, <1>14
<1> QED BY <1>10, <1>15 DEF c, L, step

\* Undo data that has a coin for every input of b's transactions.
UndoFor(b, w) ==
  \A n \in 1 .. Len(Vtx[b]) : \A j \in DOMAIN Vtx[b][n].vin : w[n][j] \in Nat

\* The place of o among a transaction's inputs.
Spender(tx, o) == CHOOSE j \in DOMAIN tx.vin : tx.vin[j] = o

\* It is one.
LEMMA SpenderIs ==
  ASSUME NEW tx, NEW o \in Range(tx.vin)
  PROVE  Spender(tx, o) \in DOMAIN tx.vin /\ tx.vin[Spender(tx, o)] = o
<1>1. \E j \in DOMAIN tx.vin : tx.vin[j] = o
  BY DEF Range
<1> QED BY <1>1 DEF Spender

\* DisconnectTx yields coins.
LEMMA DisconnectTxType ==
  ASSUME NEW u \in Coins, NEW b \in Block, NEW n \in 1 .. Len(Vtx[b]), NEW w, UndoFor(b, w)
  PROVE  DisconnectTx(u, Vtx[b][n], w[n]) \in Coins
<1> DEFINE tx == Vtx[b][n]
           d(o) == IF o \in Range(tx.vin) THEN w[n][Spender(tx, o)]
                   ELSE IF o \in tx.vout THEN Spent ELSE u[o]
<1>1. DisconnectTx(u, tx, w[n]) = [o \in OutPoint |-> d(o)]
  BY DEF DisconnectTx, Spender
<1>2. ASSUME NEW o \in OutPoint PROVE d(o) \in Nat
  <2>1. CASE o \in Range(tx.vin)
    <3>1. Spender(tx, o) \in DOMAIN tx.vin
      BY <2>1, SpenderIs
    <3>2. w[n][Spender(tx, o)] \in Nat
      BY <3>1 DEF UndoFor
    <3> QED BY <2>1, <3>2
  <2>2. CASE o \notin Range(tx.vin)
    BY <2>2 DEF Coins, Spent
  <2> QED BY <2>1, <2>2
<1> HIDE DEF d
<1> QED BY <1>1, <1>2 DEF Coins

\* DisconnectBlock's loop starts with u and takes one transaction back after the
\* other, the last one first.
LEMMA DisconnectingIs ==
  ASSUME NEW u \in Coins, NEW b \in Block, NEW w, UndoFor(b, w)
  PROVE  /\ Disconnecting(u, b, w) \in [0 .. Len(Vtx[b]) -> Coins]
         /\ Disconnecting(u, b, w)[Len(Vtx[b])] = u
         /\ \A n \in 1 .. Len(Vtx[b]) :
              Disconnecting(u, b, w)[n - 1] = DisconnectTx(Disconnecting(u, b, w)[n], Vtx[b][n], w[n])
<1> DEFINE L == Len(Vtx[b])
           step(v, n) == DisconnectTx(v, Vtx[b][n], w[n])
           F == [x \in Coins \X (0 + 1 .. L) |-> step(x[1], x[2])]
           G(f) == [n \in 0 .. L |-> IF n = L THEN u ELSE step(f[n + 1], n + 1)]
<1>1. Disconnecting(u, b, w) = CHOOSE f : f = G(f)
  BY DEF Disconnecting
<1>2. L \in Nat /\ 0 <= L /\ 0 \in Nat
  BY VtxType
<1>3. \A v \in Coins, n \in 1 .. L : step(v, n) \in Coins
  BY DisconnectTxType
<1> HIDE DEF L, step
<1>4. F \in [Coins \X (0 + 1 .. L) -> Coins]
  BY <1>2, <1>3
<1>5. \A v \in Coins, n \in 1 .. L : F[<<v, n>>] = step(v, n)
  BY <1>2
<1> HIDE DEF F
<1>6. PICK g \in [0 .. L -> Coins] : DownLoop(g, u, 0, L, F)
  <2> HIDE DEF G
  <2> QED BY <1>2, <1>4, LoopDown, Zenon
<1>7. \A n \in 0 .. L : g[n] = G(g)[n]
  <2> TAKE n \in 0 .. L
  <2>1. CASE n = L
    BY <1>2, <1>6, <2>1 DEF DownLoop
  <2>2. CASE n # L
    <3>1. n + 1 \in 1 .. L /\ n + 1 \in 0 .. L
      BY <1>2, <2>2
    <3>2. g[n] = F[<<g[n + 1], n + 1>>]
      BY <1>6, <2>2, Zenon DEF DownLoop
    <3> QED BY <1>5, <2>2, <3>1, <3>2
  <2> QED BY <2>1, <2>2
<1>8. g = G(g)
  BY <1>7
<1> DEFINE c == Disconnecting(u, b, w)
<1>9. c = G(c)
  BY <1>1, <1>8, Zenon
<1> HIDE DEF c
<1>10. c[L] = u
  BY <1>2, <1>9
<1>11. ASSUME NEW n \in 1 .. L PROVE c[n - 1] = step(c[n], n)
  <2>1. n - 1 \in 0 .. L /\ n - 1 # L /\ (n - 1) + 1 = n
    BY <1>2
  <2>2. c[n - 1] = step(c[(n - 1) + 1], (n - 1) + 1)
    BY <1>9, <2>1
  <2> QED BY <2>1, <2>2
<1> DEFINE S == {n \in Nat : c[n] \in Coins}
<1>12. L \in S
  BY <1>2, <1>10
<1>13. ASSUME NEW n \in 0 .. L - 1, n + 1 \in S PROVE n \in S
  <2>1. n + 1 \in 1 .. L /\ (n + 1) - 1 = n /\ n \in Nat
    BY <1>2
  <2>2. c[n] = step(c[n + 1], n + 1)
    BY <1>11, <2>1
  <2> QED BY <1>3, <1>13, <2>1, <2>2
<1> HIDE DEF S
<1>14. \A n \in 0 .. L : n \in S
  <2> HIDE DEF G
  <2> QED BY <1>2, <1>12, <1>13, Downward, Zenon
<1>15. \A n \in 0 .. L : c[n] \in Coins
  BY <1>14 DEF S
<1>16. c \in [0 .. L -> Coins]
  BY <1>9, <1>15
<1> QED BY <1>10, <1>11, <1>16 DEF c, L, step

\* u1 and v1 agree at o, or u and v do not and u1 has u's coin.
Near(u, v, u1, v1, o) == u1[o] = v1[o] \/ (u[o] # v[o] /\ u1[o] = u[o])

\* A block decides the coin of an outpoint or leaves it alone, whatever the other
\* coins are: RollforwardBlock on two sets of coins.
LEMMA RollforwardNear ==
  ASSUME NEW u \in Coins, NEW v \in Coins, NEW b \in Block, NEW o \in OutPoint
  PROVE  Near(u, v, RollforwardBlock(u, b), RollforwardBlock(v, b), o)
<1> DEFINE L == Len(Vtx[b])
           c == Connecting(u, b)
           d == Connecting(v, b)
           S == {n \in Nat : Near(u, v, c[n], d[n], o)}
<1>1. L \in Nat /\ 0 \in Nat /\ L \in 0 .. L
  BY VtxType
<1>2. 0 \in S
  BY ConnectingIs DEF Near
<1>3. ASSUME NEW n \in 0 .. L - 1, n \in S PROVE n + 1 \in S
  <2>1. n + 1 \in Nat /\ n + 1 \in 1 .. L /\ (n + 1) - 1 = n /\ n \in 0 .. L
    BY <1>1
  <2> DEFINE tx == Vtx[b][n + 1]
  <2>2. /\ c[n + 1] = UpdateCoins(c[n], tx, Height[b])
        /\ d[n + 1] = UpdateCoins(d[n], tx, Height[b])
    BY <2>1, ConnectingIs
  <2>3. /\ c[n + 1][o] = IF o \in tx.vout THEN Height[b]
                         ELSE IF o \in Range(tx.vin) THEN Spent ELSE c[n][o]
        /\ d[n + 1][o] = IF o \in tx.vout THEN Height[b]
                         ELSE IF o \in Range(tx.vin) THEN Spent ELSE d[n][o]
    BY <2>2 DEF UpdateCoins
  <2>4. Near(u, v, c[n], d[n], o)
    BY <1>3
  <2> HIDE DEF c, d, tx
  <2> QED BY <2>1, <2>3, <2>4 DEF Near
<1> HIDE DEF S
<1>4. \A n \in 0 .. L : n \in S
  <2> HIDE DEF L
  <2> QED BY <1>1, <1>2, <1>3, Upward, Zenon
<1>5. Near(u, v, c[L], d[L], o)
  BY <1>1, <1>4 DEF S
<1> QED BY <1>5 DEF RollforwardBlock, ConnectBlock

\* RollforwardBlock yields coins.
LEMMA RollforwardBlockType ==
  ASSUME NEW u \in Coins, NEW b \in Block
  PROVE  RollforwardBlock(u, b) \in Coins
<1>1. Len(Vtx[b]) \in 0 .. Len(Vtx[b])
  BY VtxType
<1> QED BY <1>1, ConnectingIs DEF RollforwardBlock, ConnectBlock

\* The coins that DisconnectBlock leaves.
RollbackBlock(u, b, w) == DisconnectBlock(u, b, w).utxo

\* RollbackBlock yields coins.
LEMMA RollbackBlockType ==
  ASSUME NEW u \in Coins, NEW b \in Block, NEW w, UndoFor(b, w)
  PROVE  RollbackBlock(u, b, w) \in Coins
<1>1. 0 \in 0 .. Len(Vtx[b])
  BY VtxType
<1>2. Disconnecting(u, b, w)[0] \in Coins
  BY <1>1, DisconnectingIs
<1> QED BY <1>2 DEF RollbackBlock, DisconnectBlock

\* The same for DisconnectBlock with the same undo data.
LEMMA RollbackNear ==
  ASSUME NEW u \in Coins, NEW v \in Coins, NEW b \in Block, NEW o \in OutPoint,
         NEW w, UndoFor(b, w)
  PROVE  Near(u, v, RollbackBlock(u, b, w), RollbackBlock(v, b, w), o)
<1> DEFINE L == Len(Vtx[b])
           c == Disconnecting(u, b, w)
           d == Disconnecting(v, b, w)
           S == {n \in Nat : Near(u, v, c[n], d[n], o)}
<1>1. L \in Nat /\ 0 \in Nat /\ 0 \in 0 .. L
  BY VtxType
<1>2. L \in S
  BY <1>1, DisconnectingIs DEF Near
<1>3. ASSUME NEW n \in 0 .. L - 1, n + 1 \in S PROVE n \in S
  <2>1. n \in Nat /\ n + 1 \in 1 .. L /\ (n + 1) - 1 = n
    BY <1>1
  <2> DEFINE tx == Vtx[b][n + 1]
  <2>2. /\ c[n] = DisconnectTx(c[n + 1], tx, w[n + 1])
        /\ d[n] = DisconnectTx(d[n + 1], tx, w[n + 1])
    BY <2>1, DisconnectingIs
  <2>3. /\ c[n][o] = IF o \in Range(tx.vin) THEN w[n + 1][Spender(tx, o)]
                     ELSE IF o \in tx.vout THEN Spent ELSE c[n + 1][o]
        /\ d[n][o] = IF o \in Range(tx.vin) THEN w[n + 1][Spender(tx, o)]
                     ELSE IF o \in tx.vout THEN Spent ELSE d[n + 1][o]
    BY <2>2, Zenon DEF DisconnectTx, Spender
  <2>4. Near(u, v, c[n + 1], d[n + 1], o)
    BY <1>3
  <2> HIDE DEF c, d, tx
  <2> QED BY <2>1, <2>3, <2>4 DEF Near
<1> HIDE DEF S
<1>4. \A n \in 0 .. L : n \in S
  <2> HIDE DEF L
  <2> QED BY <1>1, <1>2, <1>3, Downward, Zenon
<1>5. Near(u, v, c[0], d[0], o)
  BY <1>1, <1>4 DEF S
<1> QED BY <1>5 DEF RollbackBlock, DisconnectBlock

\* The outputs of b are new to u, and no two of its transactions have the same one.
NewOutputs(u, b) ==
  /\ \A n \in 1 .. Len(Vtx[b]) : \A o \in Vtx[b][n].vout : u[o] = Spent
  /\ \A m, n \in 1 .. Len(Vtx[b]) : m # n => Vtx[b][m].vout \cap Vtx[b][n].vout = {}

\* While b is being connected the outputs of its later transactions are not there.
LEMMA LaterOutputs ==
  ASSUME NEW u \in Coins, NEW b \in Block, NewOutputs(u, b)
  PROVE  \A n \in 0 .. Len(Vtx[b]) : \A m \in n + 1 .. Len(Vtx[b]) :
           \A o \in Vtx[b][m].vout : Connecting(u, b)[n][o] = Spent
<1> DEFINE L == Len(Vtx[b])
           c == Connecting(u, b)
           S == {n \in Nat : \A m \in n + 1 .. L : \A o \in Vtx[b][m].vout : c[n][o] = Spent}
<1>1. L \in Nat /\ 0 \in Nat
  BY VtxType
<1>2. 0 \in S
  <2>1. c[0] = u
    BY ConnectingIs
  <2>2. \A m \in 0 + 1 .. L : m \in 1 .. L
    OBVIOUS
  <2> QED BY <2>1, <2>2 DEF NewOutputs
<1>3. ASSUME NEW n \in 0 .. L - 1, n \in S PROVE n + 1 \in S
  <2>1. n + 1 \in Nat /\ n + 1 \in 1 .. L /\ (n + 1) - 1 = n
    BY <1>1
  <2>2. ASSUME NEW m \in (n + 1) + 1 .. L, NEW o \in Vtx[b][m].vout
        PROVE  c[n + 1][o] = Spent
    <3>1. m \in n + 1 .. L /\ m \in 1 .. L /\ m # n + 1
      BY <1>1
    <3>2. c[n][o] = Spent
      BY <1>3, <3>1
    <3>3. o \notin Vtx[b][n + 1].vout /\ o \in OutPoint
      BY <2>1, <3>1, VtxType DEF NewOutputs
    <3>4. c[n + 1] = UpdateCoins(c[n], Vtx[b][n + 1], Height[b])
      BY <2>1, ConnectingIs
    <3> HIDE DEF c
    <3> QED BY <3>2, <3>3, <3>4 DEF UpdateCoins
  <2> QED BY <2>1, <2>2
<1> HIDE DEF S
<1>4. \A n \in 0 .. L : n \in S
  <2> HIDE DEF L
  <2> QED BY <1>1, <1>2, <1>3, Upward, Zenon
<1> QED BY <1>4 DEF S

\* The undo data of connecting b to u.
UndoOf(u, b) == ConnectBlock(u, b).undo

\* Its entries.
LEMMA UndoOfIs ==
  ASSUME NEW u \in Coins, NEW b \in Block
  PROVE  /\ UndoFor(b, UndoOf(u, b))
         /\ \A n \in 1 .. Len(Vtx[b]) : \A j \in DOMAIN Vtx[b][n].vin :
              UndoOf(u, b)[n][j] = Connecting(u, b)[n - 1][Vtx[b][n].vin[j]]
<1> DEFINE c == Connecting(u, b)
           w == UndoOf(u, b)
<1>1. w = [n \in 1 .. Len(Vtx[b]) |-> [j \in DOMAIN Vtx[b][n].vin |-> c[n - 1][Vtx[b][n].vin[j]]]]
  BY VtxType DEF UndoOf, ConnectBlock
<1>2. ASSUME NEW n \in 1 .. Len(Vtx[b]), NEW j \in DOMAIN Vtx[b][n].vin
      PROVE  w[n][j] = c[n - 1][Vtx[b][n].vin[j]] /\ w[n][j] \in Nat
  <2> HIDE DEF w
  <2>1. w[n][j] = c[n - 1][Vtx[b][n].vin[j]]
    <3> HIDE DEF c
    <3> QED BY <1>1, Zenon
  <2>2. n - 1 \in 0 .. Len(Vtx[b])
    BY VtxType
  <2>3. c[n - 1] \in Coins
    BY <2>2, ConnectingIs, Zenon
  <2>4. Vtx[b][n].vin[j] \in OutPoint
    BY VtxType DEF Range
  <2> HIDE DEF c
  <2>5. c[n - 1][Vtx[b][n].vin[j]] \in Nat
    BY <2>3, <2>4 DEF Coins
  <2> QED BY <2>1, <2>5
<1> QED BY <1>2 DEF UndoFor

\* DisconnectBlock's step takes a transaction back exactly, and finds it clean.
LEMMA DisconnectTxExact ==
  ASSUME NEW u \in Coins, NEW b \in Block, NewOutputs(u, b), Height[b] # 0,
         NEW n \in 1 .. Len(Vtx[b])
  PROVE  /\ DisconnectTx(Connecting(u, b)[n], Vtx[b][n], UndoOf(u, b)[n]) = Connecting(u, b)[n - 1]
         /\ CleanTx(Connecting(u, b)[n], Vtx[b][n])
<1> DEFINE c == Connecting(u, b)
           w == UndoOf(u, b)
           tx == Vtx[b][n]
           d == DisconnectTx(c[n], tx, w[n])
<1>1. n - 1 \in 0 .. Len(Vtx[b]) /\ n \in (n - 1) + 1 .. Len(Vtx[b])
  BY VtxType
<1>2. c[n - 1] \in Coins /\ c[n] = UpdateCoins(c[n - 1], tx, Height[b])
  BY <1>1, ConnectingIs
<1>3. \A o \in tx.vout : c[n - 1][o] = Spent
  BY <1>1, LaterOutputs
<1>4. \A j \in DOMAIN tx.vin : w[n][j] = c[n - 1][tx.vin[j]]
  BY UndoOfIs
<1>5. Range(tx.vin) \subseteq OutPoint /\ tx.vout \subseteq OutPoint
  BY VtxType
<1>6. d = [o \in OutPoint |-> IF o \in Range(tx.vin) THEN w[n][Spender(tx, o)]
                              ELSE IF o \in tx.vout THEN Spent ELSE c[n][o]]
  BY DEF DisconnectTx, Spender
<1> HIDE DEF c, w, tx, d
<1>7. ASSUME NEW o \in OutPoint PROVE d[o] = c[n - 1][o]
  <2>1. CASE o \in Range(tx.vin)
    <3>1. Spender(tx, o) \in DOMAIN tx.vin /\ tx.vin[Spender(tx, o)] = o
      BY <2>1, SpenderIs
    <3>2. w[n][Spender(tx, o)] = c[n - 1][o]
      BY <1>4, <3>1
    <3> QED BY <1>6, <2>1, <3>2
  <2>2. CASE o \notin Range(tx.vin) /\ o \in tx.vout
    BY <1>3, <1>6, <2>2
  <2>3. CASE o \notin Range(tx.vin) /\ o \notin tx.vout
    BY <1>2, <1>6, <2>3 DEF UpdateCoins
  <2> QED BY <2>1, <2>2, <2>3
<1>8. d = c[n - 1]
  BY <1>2, <1>6, <1>7, Zenon DEF Coins
<1>9. Height[b] # Spent
  BY TreeAssumption DEF Spent
<1>10. CleanTx(c[n], tx)
  BY <1>2, <1>5, <1>9 DEF CleanTx, UpdateCoins
<1> QED BY <1>8, <1>10 DEF c, w, tx, d

\* DisconnectBlock undoes ConnectBlock and reports DISCONNECT_OK.
LEMMA DisconnectExact ==
  ASSUME NEW u \in Coins, NEW b \in Block, NewOutputs(u, b), Height[b] # 0
  PROVE  /\ RollbackBlock(RollforwardBlock(u, b), b, UndoOf(u, b)) = u
         /\ DisconnectBlock(RollforwardBlock(u, b), b, UndoOf(u, b)).clean
<1> DEFINE L == Len(Vtx[b])
           c == Connecting(u, b)
           w == UndoOf(u, b)
           d == Disconnecting(c[L], b, w)
           S == {n \in Nat : d[n] = c[n]}
<1>1. L \in Nat /\ 0 \in Nat /\ L \in 0 .. L /\ 0 \in 0 .. L
  BY VtxType
<1>2. c[L] \in Coins /\ c[0] = u
  BY <1>1, ConnectingIs
<1>3. UndoFor(b, w)
  BY UndoOfIs
<1>4. RollforwardBlock(u, b) = c[L]
  BY DEF RollforwardBlock, ConnectBlock
<1>5. \A n \in 1 .. L : DisconnectTx(c[n], Vtx[b][n], w[n]) = c[n - 1] /\ CleanTx(c[n], Vtx[b][n])
  BY DisconnectTxExact
<1> HIDE DEF c, w
<1>6. d[L] = c[L] /\ \A n \in 1 .. L : d[n - 1] = DisconnectTx(d[n], Vtx[b][n], w[n])
  BY <1>2, <1>3, DisconnectingIs
<1> HIDE DEF d, L
<1>7. L \in S
  BY <1>1, <1>6
<1>8. ASSUME NEW n \in 0 .. L - 1, n + 1 \in S PROVE n \in S
  <2>1. n \in Nat /\ n + 1 \in 1 .. L /\ (n + 1) - 1 = n
    BY <1>1
  <2> QED BY <1>5, <1>6, <1>8, <2>1
<1> HIDE DEF S
<1>9. \A n \in 0 .. L : n \in S
  BY <1>1, <1>7, <1>8, Downward, Zenon
<1>10. \A n \in 0 .. L : d[n] = c[n]
  BY <1>9 DEF S
<1>11. \A n \in DOMAIN Vtx[b] : CleanTx(d[n], Vtx[b][n])
  <2>1. DOMAIN Vtx[b] = 1 .. L /\ \A n \in 1 .. L : n \in 0 .. L
    BY <1>1, VtxType DEF L
  <2> QED BY <1>5, <1>10, <2>1
<1>12. DisconnectBlock(c[L], b, w).utxo = u /\ DisconnectBlock(c[L], b, w).clean
  BY <1>1, <1>2, <1>10, <1>11 DEF DisconnectBlock, d
<1> QED BY <1>4, <1>12 DEF RollbackBlock, w

-----------------------------------------------------------------------------
(* Chains of blocks, and the coins along them. *)

\* The genesis block is the one at height 0.
LEMMA GenesisHeight == \A b \in Block : Height[b] \in Nat /\ (Height[b] = 0 <=> b = Genesis)
<1> TAKE b \in Block
<1>1. CASE b = Genesis
  BY <1>1, TreeAssumption
<1>2. CASE b # Genesis
  <2>1. Parent[b] \in Block /\ Height[b] = Height[Parent[b]] + 1
    BY <1>2, TreeAssumption
  <2>2. Height[Parent[b]] \in Nat
    BY <2>1, TreeAssumption
  <2> QED BY <1>2, <2>1, <2>2
<1> QED BY <1>1, <1>2

\* The parent of a block is one lower.
LEMMA ParentHeight ==
  ASSUME NEW b \in Block, Height[b] # 0
  PROVE  b # Genesis /\ Parent[b] \in Block /\ Height[Parent[b]] = Height[b] - 1
BY TreeAssumption

\* GetAncestor, at every height up to b's.
LEMMA ChainIs ==
  ASSUME NEW b \in Block
  PROVE  /\ Chain[b] \in [0 .. Height[b] -> Block]
         /\ Chain[b][Height[b]] = b
         /\ \A k \in 1 .. Height[b] : Chain[b][k - 1] = Parent[Chain[b][k]]
         /\ \A k \in 0 .. Height[b] : Height[Chain[b][k]] = k
<1> DEFINE H == Height[b]
           up(x) == IF x = Genesis THEN x ELSE Parent[x]
           F == [x \in Block \X (0 + 1 .. H) |-> up(x[1])]
           G(f) == [k \in 0 .. H |-> IF k = H THEN b ELSE Parent[f[k + 1]]]
<1>1. Chain[b] = CHOOSE f : f = G(f)
  BY DEF Chain
<1>2. H \in Nat /\ 0 <= H /\ 0 \in Nat
  BY TreeAssumption
<1>3. \A x \in Block : up(x) \in Block
  BY TreeAssumption
<1> HIDE DEF up
<1>4. F \in [Block \X (0 + 1 .. H) -> Block]
  BY <1>3
<1>5. \A x \in Block, k \in 1 .. H : F[<<x, k>>] = up(x)
  BY <1>2
<1> HIDE DEF F
<1>6. PICK g \in [0 .. H -> Block] : DownLoop(g, b, 0, H, F)
  <2> HIDE DEF G, H
  <2> QED BY <1>2, <1>4, LoopDown, Zenon
<1>7. g[H] = b
  BY <1>2, <1>6 DEF DownLoop
<1>8. ASSUME NEW k \in 0 .. H - 1 PROVE g[k] = up(g[k + 1])
  <2>1. k \in 0 .. H /\ k # H /\ k + 1 \in 1 .. H /\ k + 1 \in 0 .. H
    BY <1>2
  <2>2. g[k] = F[<<g[k + 1], k + 1>>]
    BY <1>6, <2>1 DEF DownLoop
  <2> HIDE DEF H
  <2>3. g[k + 1] \in Block
    BY <1>6, <2>1
  <2> QED BY <1>5, <2>1, <2>2, <2>3
<1> DEFINE S == {k \in Nat : Height[g[k]] = k}
<1>9. H \in S
  BY <1>2, <1>7
<1>10. ASSUME NEW k \in 0 .. H - 1, k + 1 \in S
       PROVE  k \in S /\ g[k] = Parent[g[k + 1]]
  <2>1. k \in Nat /\ k + 1 \in 0 .. H
    BY <1>2
  <2>2. g[k + 1] \in Block /\ Height[g[k + 1]] = k + 1
    <3> HIDE DEF H
    <3> QED BY <1>6, <1>10, <2>1
  <2>3. /\ g[k + 1] # Genesis /\ Height[Parent[g[k + 1]]] = k
    BY <2>1, <2>2, ParentHeight
  <2> QED BY <1>8, <2>1, <2>3 DEF up
<1> HIDE DEF S
<1>11. \A k \in 0 .. H : k \in S
  <2> HIDE DEF G, H
  <2> QED BY <1>2, <1>9, <1>10, Downward, Zenon
<1>12. \A k \in 0 .. H : g[k] = G(g)[k]
  <2> TAKE k \in 0 .. H
  <2>1. CASE k = H
    BY <1>7, <2>1
  <2>2. CASE k # H
    <3>1. k \in 0 .. H - 1 /\ k + 1 \in 0 .. H
      BY <1>2, <2>2
    <3>2. g[k] = Parent[g[k + 1]]
      BY <1>10, <1>11, <3>1
    <3> QED BY <2>2, <3>2
  <2> QED BY <2>1, <2>2
<1>13. g = G(g)
  BY <1>12, Zenon
<1> DEFINE c == Chain[b]
<1>14. c = G(c)
  BY <1>1, <1>13, Zenon
<1> HIDE DEF c
<1>15. c[H] = b
  BY <1>2, <1>14
<1>16. \A k \in 0 .. H - 1 : c[k] = Parent[c[k + 1]]
  BY <1>2, <1>14
<1> DEFINE R == {k \in Nat : c[k] \in Block /\ Height[c[k]] = k}
<1>17. H \in R
  BY <1>2, <1>15
<1>18. ASSUME NEW k \in 0 .. H - 1, k + 1 \in R PROVE k \in R
  <2>1. k \in Nat /\ c[k + 1] \in Block /\ Height[c[k + 1]] = k + 1
    BY <1>18
  <2>2. Parent[c[k + 1]] \in Block /\ Height[Parent[c[k + 1]]] = k
    BY <2>1, ParentHeight
  <2> QED BY <1>16, <2>1, <2>2
<1> HIDE DEF R
<1>19. \A k \in 0 .. H : k \in R
  <2> HIDE DEF G, H
  <2> QED BY <1>2, <1>17, <1>18, Downward, Zenon
<1>20. \A k \in 0 .. H : c[k] \in Block /\ Height[c[k]] = k
  BY <1>19 DEF R
<1>21. c \in [0 .. H -> Block]
  BY <1>14, <1>20
<1>22. ASSUME NEW k \in 1 .. H PROVE c[k - 1] = Parent[c[k]]
  <2>1. k - 1 \in 0 .. H - 1 /\ (k - 1) + 1 = k
    BY <1>2
  <2> QED BY <1>16, <2>1
<1> QED BY <1>15, <1>20, <1>21, <1>22 DEF c

\* A block's chain is its parent's and the block.
LEMMA ParentChain ==
  ASSUME NEW b \in Block \ {Genesis}
  PROVE  \A k \in 0 .. Height[b] - 1 : Chain[b][k] = Chain[Parent[b]][k]
<1> DEFINE H == Height[b] - 1
           p == Parent[b]
           S == {k \in Nat : Chain[b][k] = Chain[p][k]}
<1>1. p \in Block /\ Height[p] = H /\ H \in Nat /\ 0 \in Nat /\ H + 1 = Height[b]
  BY TreeAssumption
<1>2. H \in S
  <2>1. H + 1 \in 1 .. Height[b] /\ (H + 1) - 1 = H
    BY <1>1
  <2>2. Chain[b][H] = Parent[Chain[b][H + 1]]
    BY <2>1, ChainIs
  <2>3. Chain[b][H + 1] = b /\ Chain[p][H] = p
    BY <1>1, ChainIs
  <2> QED BY <1>1, <2>2, <2>3
<1>3. ASSUME NEW k \in 0 .. H - 1, k + 1 \in S PROVE k \in S
  <2>1. k \in Nat /\ k + 1 \in 1 .. Height[b] /\ k + 1 \in 1 .. Height[p] /\ (k + 1) - 1 = k
    BY <1>1
  <2>2. Chain[b][k] = Parent[Chain[b][k + 1]]
    BY <2>1, ChainIs
  <2>3. Chain[p][k] = Parent[Chain[p][k + 1]]
    BY <1>1, <2>1, ChainIs
  <2> QED BY <1>3, <2>1, <2>2, <2>3
<1> HIDE DEF S, H
<1>4. \A k \in 0 .. H : k \in S
  BY <1>1, <1>2, <1>3, Downward, Zenon
<1> QED BY <1>4 DEF S, H

\* The coins on the way of Rollforward(u, b, h), height by height.
RollsForward(f, u, b, h) ==
  /\ f \in [h .. Height[b] -> Coins]
  /\ f[h] = u
  /\ \A k \in h + 1 .. Height[b] : f[k] = RollforwardBlock(f[k - 1], Chain[b][k])

\* Rollforward is the end of such a way.
LEMMA RollforwardIs ==
  ASSUME NEW u \in Coins, NEW b \in Block, NEW h \in 0 .. Height[b]
  PROVE  \E f : RollsForward(f, u, b, h) /\ Rollforward(u, b, h) = f[Height[b]]
<1> DEFINE H == Height[b]
           step(v, k) == RollforwardBlock(v, Chain[b][k])
           F == [x \in Coins \X (h + 1 .. H) |-> step(x[1], x[2])]
           G(f) == [k \in h .. H |-> IF k = h THEN u ELSE step(f[k - 1], k)]
           c == CHOOSE f : f = G(f)
<1>1. Rollforward(u, b, h) = c[H]
  BY DEF Rollforward
<1>2. H \in Nat /\ h \in Nat /\ h <= H
  BY GenesisHeight
<1>3. ASSUME NEW v \in Coins, NEW k \in h + 1 .. H PROVE step(v, k) \in Coins
  <2>1. k \in 0 .. H
    BY <1>2
  <2>2. Chain[b][k] \in Block
    BY <2>1, ChainIs, Zenon
  <2> QED BY <2>2, RollforwardBlockType
<1> HIDE DEF step, H
<1>4. F \in [Coins \X (h + 1 .. H) -> Coins]
  BY <1>3
<1>5. \A v \in Coins, k \in h + 1 .. H : F[<<v, k>>] = step(v, k)
  BY <1>2
<1> HIDE DEF F
<1>6. PICK g \in [h .. H -> Coins] : UpLoop(g, u, h, H, F)
  <2> HIDE DEF G
  <2> QED BY <1>2, <1>4, LoopUp, Zenon
<1>7. \A k \in h .. H : g[k] = G(g)[k]
  <2> TAKE k \in h .. H
  <2>1. CASE k = h
    BY <1>2, <1>6, <2>1 DEF UpLoop
  <2>2. CASE k # h
    <3>1. k \in h + 1 .. H /\ k - 1 \in h .. H
      BY <1>2, <2>2
    <3>2. g[k] = F[<<g[k - 1], k>>]
      BY <1>6, <2>2, Zenon DEF UpLoop
    <3> QED BY <1>5, <2>2, <3>1, <3>2
  <2> QED BY <2>1, <2>2
<1>8. g = G(g)
  BY <1>7
<1>9. c = G(c)
  BY <1>8, Zenon
<1> HIDE DEF c
<1>10. c[h] = u
  BY <1>2, <1>9
<1>11. ASSUME NEW k \in h + 1 .. H PROVE c[k] = step(c[k - 1], k)
  <2>1. k \in h .. H /\ k # h
    BY <1>2
  <2> QED BY <1>9, <2>1, Zenon
<1> DEFINE S == {k \in Nat : c[k] \in Coins}
<1>12. h \in S
  BY <1>2, <1>10
<1>13. ASSUME NEW k \in h .. H - 1, k \in S PROVE k + 1 \in S
  <2>1. k + 1 \in h + 1 .. H /\ (k + 1) - 1 = k /\ k + 1 \in Nat
    BY <1>2
  <2>2. c[k + 1] = step(c[k], k + 1)
    BY <1>11, <2>1
  <2> QED BY <1>3, <1>13, <2>1, <2>2
<1> HIDE DEF S
<1>14. \A k \in h .. H : k \in S
  <2> HIDE DEF G
  <2> QED BY <1>2, <1>12, <1>13, Upward, Zenon
<1>15. \A k \in h .. H : c[k] \in Coins
  BY <1>14 DEF S
<1>16. c \in [h .. H -> Coins]
  BY <1>9, <1>15
<1>17. RollsForward(c, u, b, h)
  BY <1>10, <1>11, <1>16 DEF RollsForward, step, H
<1> QED BY <1>1, <1>17 DEF H

\* NoCoins is a set of coins.
LEMMA NoCoinsType == NoCoins \in Coins
BY DEF NoCoins, Coins, Spent

\* The coins of the chain up to b: none at the genesis block, and else what b makes
\* of its parent's.
LEMMA UtxoAtIs ==
  /\ UtxoAt[Genesis] = NoCoins
  /\ \A b \in Block : UtxoAt[b] \in Coins
  /\ \A b \in Block \ {Genesis} : UtxoAt[b] = RollforwardBlock(UtxoAt[Parent[b]], b)
<1>1. ASSUME NEW b \in Block
      PROVE  \E f : RollsForward(f, NoCoins, b, 0) /\ UtxoAt[b] = f[Height[b]]
  <2>1. 0 \in 0 .. Height[b]
    BY GenesisHeight
  <2>2. UtxoAt[b] = Rollforward(NoCoins, b, 0)
    BY DEF UtxoAt
  <2> QED BY <2>1, <2>2, NoCoinsType, RollforwardIs
<1>2. ASSUME NEW b \in Block PROVE UtxoAt[b] \in Coins
  <2>1. PICK f : RollsForward(f, NoCoins, b, 0) /\ UtxoAt[b] = f[Height[b]]
    BY <1>1
  <2>2. Height[b] \in 0 .. Height[b]
    BY GenesisHeight
  <2> QED BY <2>1, <2>2 DEF RollsForward
<1>3. UtxoAt[Genesis] = NoCoins
  <2>1. PICK f : RollsForward(f, NoCoins, Genesis, 0) /\ UtxoAt[Genesis] = f[Height[Genesis]]
    BY <1>1, TreeAssumption, Zenon
  <2> QED BY <2>1, TreeAssumption DEF RollsForward
<1>4. ASSUME NEW b \in Block \ {Genesis} PROVE UtxoAt[b] = RollforwardBlock(UtxoAt[Parent[b]], b)
  <2> DEFINE p == Parent[b]
             H == Height[p]
  <2>1. p \in Block /\ Height[b] = H + 1 /\ H \in Nat /\ 0 \in Nat
    BY TreeAssumption
  <2>2. PICK f : RollsForward(f, NoCoins, b, 0) /\ UtxoAt[b] = f[Height[b]]
    BY <1>1
  <2>3. PICK e : RollsForward(e, NoCoins, p, 0) /\ UtxoAt[p] = e[H]
    BY <1>1, <2>1
  <2>4. /\ f[0] = NoCoins
        /\ \A k \in 1 .. H + 1 : f[k] = RollforwardBlock(f[k - 1], Chain[b][k])
    BY <2>1, <2>2 DEF RollsForward
  <2>5. /\ e[0] = NoCoins
        /\ \A k \in 1 .. H : e[k] = RollforwardBlock(e[k - 1], Chain[p][k])
    BY <2>1, <2>3 DEF RollsForward
  <2>6. \A k \in 0 .. H : Chain[b][k] = Chain[p][k]
    BY <2>1, ParentChain
  <2>7. Chain[b][H + 1] = b
    BY <2>1, ChainIs
  <2> DEFINE S == {k \in Nat : f[k] = e[k]}
  <2> HIDE DEF p, H
  <2>8. 0 \in S
    BY <2>4, <2>5
  <2>9. ASSUME NEW k \in 0 .. H - 1, k \in S PROVE k + 1 \in S
    <3>1. /\ k + 1 \in 1 .. H + 1 /\ k + 1 \in 1 .. H /\ k + 1 \in 0 .. H
          /\ (k + 1) - 1 = k /\ k + 1 \in Nat
      BY <2>1
    <3>2. f[k + 1] = RollforwardBlock(f[k], Chain[b][k + 1])
      BY <2>4, <3>1
    <3>3. e[k + 1] = RollforwardBlock(e[k], Chain[p][k + 1])
      BY <2>5, <3>1
    <3> QED BY <2>6, <2>9, <3>1, <3>2, <3>3
  <2> HIDE DEF S
  <2>10. \A k \in 0 .. H : k \in S
    BY <2>1, <2>8, <2>9, Upward, Zenon
  <2>11. f[H] = e[H]
    BY <2>1, <2>10 DEF S
  <2>12. H + 1 \in 1 .. H + 1 /\ (H + 1) - 1 = H
    BY <2>1
  <2>13. f[H + 1] = RollforwardBlock(f[H], b)
    BY <2>4, <2>7, <2>12
  <2> QED BY <2>1, <2>2, <2>3, <2>11, <2>13 DEF p
<1> QED BY <1>2, <1>3, <1>4

\* The same along a chain.
LEMMA ChainUtxo ==
  ASSUME NEW b \in Block, NEW k \in 1 .. Height[b]
  PROVE  /\ Chain[b][k] \in Block \ {Genesis} /\ Chain[b][k - 1] \in Block
         /\ Height[Chain[b][k]] # 0
         /\ Parent[Chain[b][k]] = Chain[b][k - 1]
         /\ UtxoAt[Chain[b][k]] = RollforwardBlock(UtxoAt[Chain[b][k - 1]], Chain[b][k])
<1>1. k \in 0 .. Height[b] /\ k - 1 \in 0 .. Height[b] /\ k # 0
  BY GenesisHeight
<1>2. /\ Chain[b][k] \in Block /\ Chain[b][k - 1] \in Block
      /\ Height[Chain[b][k]] = k
      /\ Chain[b][k - 1] = Parent[Chain[b][k]]
  BY <1>1, ChainIs, Zenon
<1>3. Chain[b][k] # Genesis
  BY <1>1, <1>2, GenesisHeight
<1> QED BY <1>1, <1>2, <1>3, UtxoAtIs

-----------------------------------------------------------------------------
(* ReplayBlocks. *)

\* The undo data of b, which is valid in its chain.
UndoAt(b) == UndoOf(UtxoAt[Parent[b]], b)

\* It takes b back: DisconnectBlock leads from the coins of b to those of its parent.
LEMMA UndoAtExact ==
  ASSUME NEW b \in Block \ {Genesis}
  PROVE  /\ UndoFor(b, UndoAt(b))
         /\ RollbackBlock(UtxoAt[b], b, UndoAt(b)) = UtxoAt[Parent[b]]
         /\ DisconnectBlock(UtxoAt[b], b, UndoAt(b)).clean
<1> DEFINE u == UtxoAt[Parent[b]]
<1>1. Parent[b] \in Block /\ Height[b] # 0
  BY TreeAssumption, GenesisHeight
<1>2. u \in Coins /\ UtxoAt[b] = RollforwardBlock(u, b)
  BY <1>1, UtxoAtIs
<1>3. NewOutputs(u, b)
  <2>1. DOMAIN Vtx[b] = 1 .. Len(Vtx[b])
    BY VtxType
  <2>2. /\ \A i \in DOMAIN Vtx[b] : \A o \in Vtx[b][i].vout : u[o] = Spent
        /\ \A i, j \in DOMAIN Vtx[b] : i # j => Vtx[b][i].vout \cap Vtx[b][j].vout = {}
    BY ValidBlocks, Zenon
  <2> HIDE DEF u
  <2> QED BY <2>1, <2>2 DEF NewOutputs
<1> HIDE DEF u
<1>4. UndoFor(b, UndoOf(u, b))
  BY <1>2, UndoOfIs
<1>5. /\ RollbackBlock(RollforwardBlock(u, b), b, UndoOf(u, b)) = u
      /\ DisconnectBlock(RollforwardBlock(u, b), b, UndoOf(u, b)).clean
  BY <1>1, <1>2, <1>3, DisconnectExact
<1> QED BY <1>2, <1>4, <1>5 DEF u, UndoAt

\* The coins on the way of Rollback(u, b, h), height by height.
RollsBack(f, u, b, h) ==
  /\ f \in [h .. Height[b] -> Coins]
  /\ f[Height[b]] = u
  /\ \A k \in h + 1 .. Height[b] :
       f[k - 1] = RollbackBlock(f[k], Chain[b][k], UndoAt(Chain[b][k]))

\* With the blocks' own undo data in the rev files, Rollback is the end of such a way.
LEMMA RollbackIs ==
  ASSUME NEW u \in Coins, NEW b \in Block, NEW h \in 0 .. Height[b],
         \A k \in h + 1 .. Height[b] : rev[Chain[b][k]] = UndoAt(Chain[b][k])
  PROVE  \E f : RollsBack(f, u, b, h) /\ Rollback(u, b, h) = f[h]
<1> DEFINE H == Height[b]
           step(v, k) == DisconnectBlock(v, Chain[b][k], rev[Chain[b][k]]).utxo
           F == [x \in Coins \X (h + 1 .. H) |-> step(x[1], x[2])]
           G(f) == [k \in h .. H |-> IF k = H THEN u ELSE step(f[k + 1], k + 1)]
           c == CHOOSE f : f = G(f)
<1>1. Rollback(u, b, h) = c[h]
  BY DEF Rollback
<1>2. H \in Nat /\ h \in Nat /\ h <= H
  BY GenesisHeight
<1>a. ASSUME NEW v, NEW k \in h + 1 .. H
      PROVE  step(v, k) = RollbackBlock(v, Chain[b][k], UndoAt(Chain[b][k]))
  BY Zenon DEF RollbackBlock
<1>3. ASSUME NEW v \in Coins, NEW k \in h + 1 .. H PROVE step(v, k) \in Coins
  <2>1. k \in 1 .. H
    BY <1>2
  <2>2. Chain[b][k] \in Block \ {Genesis}
    BY <2>1, ChainUtxo
  <2>3. UndoFor(Chain[b][k], UndoAt(Chain[b][k]))
    BY <2>2, UndoAtExact
  <2>4. RollbackBlock(v, Chain[b][k], UndoAt(Chain[b][k])) \in Coins
    BY <2>2, <2>3, RollbackBlockType
  <2> QED BY <1>a, <2>4
<1> HIDE DEF step, H
<1>4. F \in [Coins \X (h + 1 .. H) -> Coins]
  BY <1>3
<1>5. \A v \in Coins, k \in h + 1 .. H : F[<<v, k>>] = step(v, k)
  BY <1>2
<1> HIDE DEF F
<1>6. PICK g \in [h .. H -> Coins] : DownLoop(g, u, h, H, F)
  <2> HIDE DEF G
  <2> QED BY <1>2, <1>4, LoopDown, Zenon
<1>7. \A k \in h .. H : g[k] = G(g)[k]
  <2> TAKE k \in h .. H
  <2>1. CASE k = H
    BY <1>2, <1>6, <2>1 DEF DownLoop
  <2>2. CASE k # H
    <3>1. k + 1 \in h + 1 .. H /\ k + 1 \in h .. H
      BY <1>2, <2>2
    <3>2. g[k] = F[<<g[k + 1], k + 1>>]
      BY <1>6, <2>2, Zenon DEF DownLoop
    <3> QED BY <1>5, <2>2, <3>1, <3>2
  <2> QED BY <2>1, <2>2
<1>8. g = G(g)
  BY <1>7
<1>9. c = G(c)
  BY <1>8, Zenon
<1> HIDE DEF c
<1>10. c[H] = u
  BY <1>2, <1>9
<1>11. ASSUME NEW k \in h + 1 .. H PROVE c[k - 1] = step(c[k], k)
  <2>1. k - 1 \in h .. H /\ k - 1 # H /\ (k - 1) + 1 = k
    BY <1>2
  <2>2. c[k - 1] = step(c[(k - 1) + 1], (k - 1) + 1)
    BY <1>9, <2>1
  <2> QED BY <2>1, <2>2
<1> DEFINE S == {k \in Nat : c[k] \in Coins}
<1>12. H \in S
  BY <1>2, <1>10
<1>13. ASSUME NEW k \in h .. H - 1, k + 1 \in S PROVE k \in S
  <2>1. k + 1 \in h + 1 .. H /\ (k + 1) - 1 = k /\ k \in Nat
    BY <1>2
  <2>2. c[k] = step(c[k + 1], k + 1)
    BY <1>11, <2>1
  <2> QED BY <1>3, <1>13, <2>1, <2>2
<1> HIDE DEF S
<1>14. \A k \in h .. H : k \in S
  <2> HIDE DEF G
  <2> QED BY <1>2, <1>12, <1>13, Downward, Zenon
<1>15. \A k \in h .. H : c[k] \in Coins
  BY <1>14 DEF S
<1>16. c \in [h .. H -> Coins]
  BY <1>9, <1>15
<1>17. \A k \in h + 1 .. H : c[k - 1] = RollbackBlock(c[k], Chain[b][k], UndoAt(Chain[b][k]))
  BY <1>11, <1>a
<1>18. RollsBack(c, u, b, h)
  BY <1>10, <1>16, <1>17 DEF RollsBack, H
<1> QED BY <1>1, <1>18

\* A bounded set of heights has a highest one.
LEMMA Highest ==
  ASSUME NEW T, NEW n \in Nat, T \subseteq 0 .. n, T # {}
  PROVE  Max(T) \in T
<1> DEFINE D == {x \in Nat : x <= n /\ n - x \in T}
<1>1. D # {}
  <2>1. PICK h \in T : TRUE
    BY Zenon
  <2>2. n - h \in Nat /\ n - h <= n /\ n - (n - h) = h
    BY <2>1
  <2> QED BY <2>1, <2>2, Zenon
<1>2. D \subseteq Nat
  OBVIOUS
<1> HIDE DEF D
<1>3. PICK x \in D : \A y \in D : ~(<<y, x>> \in Less)
  BY <1>1, <1>2, LessWellFounded, WFMin, Zenon
<1>4. x \in Nat /\ x <= n /\ n - x \in T
  BY <1>3 DEF D
<1>5. ASSUME NEW h \in T PROVE n - x >= h
  <2>1. h \in 0 .. n
    OBVIOUS
  <2>2. n - h \in Nat /\ n - h <= n /\ n - (n - h) = h
    BY <2>1
  <2>3. n - h \in D
    BY <2>2 DEF D
  <2>4. ~(n - h < x)
    BY <1>3, <1>4, <2>2, <2>3, LessIs, Zenon
  <2> QED BY <1>4, <2>1, <2>4
<1>6. \E z \in T : \A h \in T : z >= h
  BY <1>4, <1>5
<1> QED BY <1>6, Zenon DEF Max

\* LastCommonAncestor is on both chains.
LEMMA ForkIs ==
  ASSUME NEW old \in Block, NEW new \in Block
  PROVE  /\ Fork(old, new) \in 0 .. Height[old] /\ Fork(old, new) \in 0 .. Height[new]
         /\ Chain[old][Fork(old, new)] = Chain[new][Fork(old, new)]
<1> DEFINE T == {h \in DOMAIN Chain[old] \cap DOMAIN Chain[new] : Chain[old][h] = Chain[new][h]}
<1>1. old # NoBlock
  BY TreeAssumption
<1>2. Fork(old, new) = Max(T)
  BY <1>1 DEF Fork
<1>3. DOMAIN Chain[old] = 0 .. Height[old] /\ DOMAIN Chain[new] = 0 .. Height[new]
  BY ChainIs
<1>4. /\ Height[old] \in Nat /\ Height[new] \in Nat
      /\ 0 \in 0 .. Height[old] /\ 0 \in 0 .. Height[new]
  BY GenesisHeight
<1>5. Chain[old][0] = Genesis /\ Chain[new][0] = Genesis
  BY <1>4, ChainIs, GenesisHeight
<1>6. 0 \in T
  BY <1>3, <1>4, <1>5
<1>7. T \subseteq 0 .. Height[old]
  BY <1>3
<1> HIDE DEF T
<1>8. Max(T) \in T
  BY <1>4, <1>6, <1>7, Highest, Zenon
<1> QED BY <1>2, <1>3, <1>8 DEF T

\* Every coin is new's or old's: what interrupted batches leave in the database.
Between(c, old, new) ==
  \A o \in OutPoint : c[o] = UtxoAt[new][o] \/ c[o] = UtxoAt[old][o]

\* Rolling such coins back along the old branch makes them the fork's or leaves new's.
LEMMA RollbackBetween ==
  ASSUME NEW c \in Coins, NEW old \in Block, NEW new \in Block, NEW h \in 0 .. Height[old],
         \A k \in h + 1 .. Height[old] : rev[Chain[old][k]] = UndoAt(Chain[old][k]),
         Between(c, old, new)
  PROVE  /\ Rollback(c, old, h) \in Coins
         /\ Between(Rollback(c, old, h), Chain[old][h], new)
<1> DEFINE H == Height[old]
<1>1. PICK f : RollsBack(f, c, old, h) /\ Rollback(c, old, h) = f[h]
  BY RollbackIs
<1>2. H \in Nat /\ h \in Nat /\ h \in h .. H
  BY GenesisHeight
<1>3. f[h] \in Coins /\ f[H] = c
  BY <1>1, <1>2 DEF RollsBack
<1>4. ASSUME NEW o \in OutPoint
      PROVE  f[h][o] = UtxoAt[new][o] \/ f[h][o] = UtxoAt[Chain[old][h]][o]
  <2> DEFINE S == {k \in Nat : f[k][o] = UtxoAt[new][o] \/ f[k][o] = UtxoAt[Chain[old][k]][o]}
  <2>1. H \in S
    <3>1. Chain[old][H] = old
      BY ChainIs
    <3> QED BY <1>2, <1>3, <3>1 DEF Between
  <2>2. ASSUME NEW k \in h .. H - 1, k + 1 \in S PROVE k \in S
    <3> DEFINE b == Chain[old][k + 1]
               u == UtxoAt[b]
               v == f[k + 1]
               w == UndoAt(b)
    <3>1. k \in Nat /\ k + 1 \in h + 1 .. H /\ k + 1 \in h .. H /\ (k + 1) - 1 = k /\ k + 1 \in 1 .. H
      BY <1>2
    <3>2. b \in Block \ {Genesis} /\ Parent[b] = Chain[old][k]
      BY <3>1, ChainUtxo
    <3>3. f[k] = RollbackBlock(v, b, w) /\ v \in Coins
      BY <1>1, <3>1 DEF RollsBack
    <3>4. UndoFor(b, w) /\ RollbackBlock(u, b, w) = UtxoAt[Chain[old][k]]
      BY <3>2, UndoAtExact
    <3>5. u \in Coins
      BY <3>2, UtxoAtIs
    <3> HIDE DEF b, u, v, w
    <3>6. Near(v, u, RollbackBlock(v, b, w), RollbackBlock(u, b, w), o)
      BY <3>2, <3>3, <3>4, <3>5, RollbackNear, Zenon
    <3>7. Near(v, u, f[k], UtxoAt[Chain[old][k]], o)
      BY <3>3, <3>4, <3>6
    <3>8. v[o] = UtxoAt[new][o] \/ v[o] = u[o]
      BY <2>2 DEF u, v, b
    <3> QED BY <3>1, <3>7, <3>8 DEF Near
  <2> HIDE DEF S, H
  <2>3. \A k \in h .. H : k \in S
    BY <1>2, <2>1, <2>2, Downward, Zenon
  <2> QED BY <1>2, <2>3 DEF S
<1> QED BY <1>1, <1>3, <1>4 DEF Between

\* Rolling such coins forward to new makes them new's.
LEMMA RollforwardBetween ==
  ASSUME NEW c \in Coins, NEW new \in Block, NEW h \in 0 .. Height[new],
         Between(c, Chain[new][h], new)
  PROVE  Rollforward(c, new, h) = UtxoAt[new]
<1> DEFINE H == Height[new]
<1>1. PICK f : RollsForward(f, c, new, h) /\ Rollforward(c, new, h) = f[H]
  BY RollforwardIs
<1>2. H \in Nat /\ h \in Nat /\ H \in h .. H
  BY GenesisHeight
<1>3. f[H] \in Coins /\ f[h] = c
  BY <1>1, <1>2 DEF RollsForward
<1>4. Chain[new][H] = new
  BY ChainIs
<1>5. ASSUME NEW o \in OutPoint PROVE f[H][o] = UtxoAt[new][o]
  <2> DEFINE S == {k \in Nat : f[k][o] = UtxoAt[new][o] \/ f[k][o] = UtxoAt[Chain[new][k]][o]}
  <2>1. h \in S
    BY <1>2, <1>3 DEF Between
  <2>2. ASSUME NEW k \in h .. H - 1, k \in S PROVE k + 1 \in S
    <3> DEFINE b == Chain[new][k + 1]
               u == UtxoAt[Chain[new][k]]
               v == f[k]
    <3>1. k + 1 \in h + 1 .. H /\ k \in h .. H /\ (k + 1) - 1 = k /\ k + 1 \in 1 .. H /\ k + 1 \in Nat
      BY <1>2
    <3>2. b \in Block /\ Chain[new][k] \in Block /\ UtxoAt[b] = RollforwardBlock(u, b)
      BY <3>1, ChainUtxo
    <3>3. f[k + 1] = RollforwardBlock(v, b) /\ v \in Coins
      BY <1>1, <3>1, Zenon DEF RollsForward
    <3>4. u \in Coins
      BY <3>2, UtxoAtIs
    <3> HIDE DEF b, u, v
    <3>5. Near(v, u, f[k + 1], UtxoAt[b], o)
      BY <3>2, <3>3, <3>4, RollforwardNear
    <3>6. v[o] = UtxoAt[new][o] \/ v[o] = u[o]
      BY <2>2 DEF u, v
    <3>7. f[k + 1][o] = UtxoAt[new][o] \/ f[k + 1][o] = UtxoAt[b][o]
      BY <3>5, <3>6 DEF Near
    <3> QED BY <3>1, <3>7 DEF b
  <2> HIDE DEF S, H
  <2>3. \A k \in h .. H : k \in S
    BY <1>2, <2>1, <2>2, Upward, Zenon
  <2>4. f[H][o] = UtxoAt[new][o] \/ f[H][o] = UtxoAt[Chain[new][H]][o]
    BY <1>2, <2>3 DEF S
  <2> QED BY <1>4, <2>4
<1>6. UtxoAt[new] \in Coins
  BY UtxoAtIs
<1>7. f[H] = UtxoAt[new]
  BY <1>3, <1>5, <1>6 DEF Coins
<1> QED BY <1>1, <1>7

\* ReplayBlocks' two loops end at the coins of the new head, wherever the flush and
\* earlier replays of it were interrupted.
LEMMA ReplayExact ==
  ASSUME NEW c \in Coins, NEW old \in Block, NEW new \in Block, Between(c, old, new),
         \A b \in Above(old, Fork(old, new)) : rev[b] = UndoAt(b)
  PROVE  Rollforward(Rollback(c, old, Fork(old, new)), new, Fork(old, new)) = UtxoAt[new]
<1> DEFINE h == Fork(old, new)
           r == Rollback(c, old, h)
<1>1. h \in 0 .. Height[old] /\ h \in 0 .. Height[new] /\ Chain[old][h] = Chain[new][h]
  BY ForkIs
<1>2. \A k \in h + 1 .. Height[old] : rev[Chain[old][k]] = UndoAt(Chain[old][k])
  BY TreeAssumption, Zenon DEF Above
<1> HIDE DEF h
<1>3. r \in Coins /\ Between(r, Chain[old][h], new)
  BY <1>1, <1>2, RollbackBetween
<1> HIDE DEF r
<1>4. Rollforward(r, new, h) = UtxoAt[new]
  BY <1>1, <1>3, RollforwardBetween, Zenon
<1> QED BY <1>4 DEF h, r
=============================================================================
