----------------------------- MODULE HostProofs -----------------------------
(***************************************************************************)
(* The host is a socket server, whatever happens to its configuration: so  *)
(* what SocketProofs says of any number of daemons and clients holds of it *)
(* for every set of documents and devices.                                 *)
(*                                                                         *)
(* And what save_mac writes, it writes again in the same way: the second   *)
(* part is about the configuration, for documents of any length.           *)
(***************************************************************************)
EXTENDS Host, SocketProofs, SequenceTheorems, Recursion

\* Starting and connecting take a configuration in addition; reading and
\* writing that leaves the socket alone.
LEMMA HostStep ==
  ASSUME [Next]_vars PROVE [SocketNext]_socketVars
<1>1. CASE \E d \in Daemons : ServeConfigured(d)
  BY <1>1 DEF ServeConfigured, SocketNext
<1>2. CASE \E c \in Clients : ConnectConfigured(c)
  BY <1>2 DEF ConnectConfigured, SocketNext
<1>3. CASE (\E d \in Daemons : DaemonStep(d)) \/ (\E c \in Clients : ConnectionStep(c))
  BY <1>3 DEF SocketNext
<1>4. CASE SocketEvent
  BY <1>4 DEF SocketNext
<1>5. CASE UNCHANGED socketVars
  BY <1>5
<1> QED
  BY <1>1, <1>2, <1>3, <1>4, <1>5 DEF Next, vars

\* The host implements the socket server of SocketServer.tla.
THEOREM HostIsServer == Spec => SocketSpec
<1>1. Init => SocketInit
  BY DEF Init
<1>2. [Next]_vars => [SocketNext]_socketVars
  BY HostStep
<1> QED
  BY <1>1, <1>2, PTL DEF Spec, SocketSpec

\* The socket file, the daemons and the connections of the host are what
\* SocketServer.tla says they can be: no connection is half made or half ended.
THEOREM HostTypes == Spec => []SocketTypeOK
<1>1. SocketInv => SocketTypeOK
  BY DEF SocketInv
<1> QED
  BY <1>1, HostIsServer, SocketInductive, PTL

\* On the host, a daemon that has been alone all its life is reachable while
\* it serves, fails to start only when another is up, and a connection is with
\* a daemon that listens or has accepted it.
THEOREM HostServes ==
  Spec => [](AloneReachable /\ ConnectedToLiving) /\ StartsAlone
<1> QED
  BY HostIsServer, ReachableAlone, ConnectionsLive, StartsWhenAlone, PTL

-----------------------------------------------------------------------------
(* The lines a file is made of.                                            *)

\* What Those has collected after each number of entries.
Collects(doc, keep, f) ==
  /\ f[0] = <<>>
  /\ \A n \in 1..Len(doc) :
       f[n] = IF n \in keep THEN Append(f[n - 1], doc[n]) ELSE f[n - 1]

LEMMA ThoseFunction ==
  ASSUME NEW S, NEW doc \in Seq(S), NEW keep
  PROVE  \E f \in [0..Len(doc) -> Seq(S)] :
           Those(doc, keep) = f[Len(doc)] /\ Collects(doc, keep, f)
<1> DEFINE I == 0..Len(doc)
           T == Seq(S)
           m == [n \in I |-> n]
           Body(g, n) == IF n = 0 THEN <<>>
                         ELSE IF n \in keep THEN Append(g[n - 1], doc[n]) ELSE g[n - 1]
           G == [p \in [I -> T] \X I |-> Body(p[1], p[2])]
           those == CHOOSE those : those = [n \in I |-> Body(those, n)]
<1>1. Len(doc) \in Nat /\ \A n \in 1..Len(doc) : doc[n] \in S
  BY ElementOfSeq
<1>2. <<>> \in T /\ T # {}
  BY EmptySeq
<1>3. m \in [I -> Nat]
  BY <1>1
<1>4. ASSUME NEW n \in I, n # 0
      PROVE  n - 1 \in I /\ n \in 1..Len(doc) /\ n - 1 < n
  BY <1>1, <1>4
<1>5. ASSUME NEW g \in [I -> T], NEW n \in I PROVE Body(g, n) \in T
  <2>1. CASE n = 0
    BY <1>2, <2>1
  <2>2. CASE n # 0
    <3>1. g[n - 1] \in Seq(S) /\ doc[n] \in S
      BY <1>1, <1>4, <2>2
    <3>2. Append(g[n - 1], doc[n]) \in Seq(S)
      BY <3>1, AppendProperties
    <3> QED
      BY <2>2, <3>1, <3>2
  <2> QED
    BY <2>1, <2>2
<1>6. G \in [[I -> T] \X I -> T]
  <2> HIDE DEF I, T, Body
  <2> QED
    BY <1>5
<1>7. \A g \in [I -> T], n \in I : G[<<g, n>>] = Body(g, n)
  <2> HIDE DEF I, T, Body
  <2> QED
    OBVIOUS
<1>8. Recurs(I, T, m, G)
  <2>1. ASSUME NEW g \in [I -> T], NEW h \in [I -> T], NEW n \in I,
               \A k \in I : m[k] < m[n] => g[k] = h[k]
        PROVE  Body(g, n) = Body(h, n)
    <3>1. CASE n = 0
      BY <3>1
    <3>2. CASE n # 0
      <4>1. g[n - 1] = h[n - 1]
        BY <1>4, <2>1, <3>2
      <4> QED
        BY <3>2, <4>1
    <3> QED
      BY <3>1, <3>2
  <2> HIDE DEF I, T, m, G, Body
  <2> QED
    BY <1>7, <2>1 DEF Recurs
<1>9. PICK f \in [I -> T] : Satisfies(I, G, f)
  <2> HIDE DEF I, T, m, G
  <2> QED
    BY <1>2, <1>3, <1>6, <1>8, RecursionExists
<1>10. f = [n \in I |-> Body(f, n)]
  <2> HIDE DEF I, T, G, Body
  <2> QED
    BY <1>7, <1>9 DEF Satisfies
<1>11. those = [n \in I |-> Body(those, n)]
  <2> HIDE DEF I, Body
  <2> QED
    BY <1>10
<1>12. Those(doc, keep) = those[Len(doc)]
  BY DEF Those
<1> HIDE DEF those
<1>13. \A n \in I : those[n] = Body(those, n)
  <2> HIDE DEF I, Body
  <2> QED
    BY <1>11
<1>14. ASSUME NEW n \in I, \A k \in I : m[k] < m[n] => those[k] \in T
       PROVE  those[n] \in T
  <2>1. CASE n = 0
    BY <1>2, <1>13, <2>1
  <2>2. CASE n # 0
    <3>1. those[n - 1] \in Seq(S) /\ doc[n] \in S
      BY <1>1, <1>4, <1>14, <2>2
    <3>2. Append(those[n - 1], doc[n]) \in Seq(S)
      BY <3>1, AppendProperties
    <3> QED
      BY <1>13, <2>2, <3>1, <3>2
  <2> QED
    BY <2>1, <2>2
<1>15. those \in [I -> T]
  <2>1. Climbs(I, m, {n \in I : those[n] \in T})
    BY <1>14 DEF Climbs
  <2>2. those = [n \in I |-> those[n]]
    <3> HIDE DEF I, Body
    <3> QED
      BY <1>11
  <2> HIDE DEF I, T, m, Body
  <2> QED
    BY <1>3, <2>1, <2>2, RecursionType
<1>16. Collects(doc, keep, those)
  <2>1. 0 \in I /\ those[0] = <<>>
    BY <1>1, <1>13
  <2>2. ASSUME NEW n \in 1..Len(doc)
        PROVE  those[n] = IF n \in keep THEN Append(those[n - 1], doc[n])
                          ELSE those[n - 1]
    <3>1. n \in I /\ n # 0
      BY <1>1
    <3> QED
      BY <1>13, <3>1
  <2> QED
    BY <2>1, <2>2 DEF Collects
<1> QED
  BY <1>12, <1>15, <1>16

\* Those that stand together are a part of the document.
LEMMA ThoseTogether ==
  ASSUME NEW S, NEW doc \in Seq(S), NEW keep,
         NEW a \in Nat, NEW b \in a..Len(doc),
         \A n \in 1..Len(doc) : n \in keep <=> n \in a + 1..b
  PROVE  Those(doc, keep) = SubSeq(doc, a + 1, b)
<1> DEFINE L == Len(doc)
           upto(n) == IF n <= b THEN n ELSE b
           part(n) == SubSeq(doc, a + 1, n)
<1>1. L \in Nat /\ b \in Nat /\ \A n \in 1..L : doc[n] \in S
  BY ElementOfSeq
<1>2. PICK f \in [0..L -> Seq(S)] : Those(doc, keep) = f[L] /\ Collects(doc, keep, f)
  BY ThoseFunction
<1>3. f[0] = <<>> /\ \A n \in 1..L : f[n] = IF n \in keep THEN Append(f[n - 1], doc[n])
                                            ELSE f[n - 1]
  BY <1>2 DEF Collects
<1>4. ASSUME NEW n \in 0..L
      PROVE  /\ part(n) \in Seq(S)
             /\ Len(part(n)) = IF a + 1 <= n THEN n - a ELSE 0
             /\ \A i \in 1..n - a : part(n)[i] = doc[a + i]
  <2>1. \A i \in a + 1..n : doc[i] \in S
    BY <1>1
  <2>2. /\ part(n) \in Seq(S)
        /\ Len(part(n)) = IF a + 1 <= n THEN n - (a + 1) + 1 ELSE 0
        /\ \A i \in 1..n - (a + 1) + 1 : part(n)[i] = doc[a + 1 + i - 1]
    BY <1>1, <2>1, SubSeqProperties
  <2>3. n - (a + 1) + 1 = n - a /\ \A i \in 1..n - a : a + 1 + i - 1 = a + i
    BY <1>1
  <2> HIDE DEF part
  <2> QED
    BY <2>2, <2>3
<1> DEFINE A == {n \in Nat : n <= L => f[n] = part(upto(n))}
<1>5. 0 \in A
  <2>1. part(0) = <<>>
    BY SubSeqEmpty
  <2>2. upto(0) = 0
    BY <1>1
  <2> HIDE DEF part, upto
  <2> QED
    BY <1>3, <2>1, <2>2
<1>6. ASSUME NEW n \in Nat, n \in A PROVE n + 1 \in A
  <2> SUFFICES ASSUME n + 1 <= L PROVE f[n + 1] = part(upto(n + 1))
    OBVIOUS
  <2>1. f[n] = part(upto(n))
    BY <1>1, <1>6
  <2>2. n + 1 \in 1..L /\ n + 1 - 1 = n /\ n \in 0..L /\ n + 1 \in 0..L
    BY <1>1
  <2>3. f[n + 1] = IF n + 1 \in keep THEN Append(f[n], doc[n + 1]) ELSE f[n]
    BY <1>3, <2>2
  <2>4. CASE n + 1 \in keep
    <3>1. n + 1 \in a + 1..b
      BY <2>2, <2>4
    <3>2. upto(n) = n /\ upto(n + 1) = n + 1
      BY <1>1, <3>1
    <3>3. f[n + 1] = Append(part(n), doc[n + 1])
      BY <2>1, <2>3, <2>4, <3>2
    <3> DEFINE u == Append(part(n), doc[n + 1])
               v == part(n + 1)
    <3>4. /\ part(n) \in Seq(S) /\ Len(part(n)) = n - a
          /\ \A i \in 1..n - a : part(n)[i] = doc[a + i]
      <4>1. (IF a + 1 <= n THEN n - a ELSE 0) = n - a
        BY <1>1, <3>1
      <4> HIDE DEF part
      <4> QED
        BY <1>4, <2>2, <4>1
    <3>5. /\ v \in Seq(S) /\ Len(v) = n + 1 - a
          /\ \A i \in 1..n + 1 - a : v[i] = doc[a + i]
      <4> DEFINE q == n + 1
      <4>1. q \in 0..L /\ (IF a + 1 <= q THEN q - a ELSE 0) = q - a
        BY <1>1, <2>2, <3>1
      <4> HIDE DEF part, q
      <4>2. /\ part(q) \in Seq(S) /\ Len(part(q)) = q - a
            /\ \A i \in 1..q - a : part(q)[i] = doc[a + i]
        BY <1>4, <4>1
      <4> QED
        BY <4>2 DEF q
    <3> HIDE DEF part, v
    <3>6. doc[n + 1] \in S
      BY <1>1, <2>2
    <3>7. /\ u \in Seq(S) /\ Len(u) = n - a + 1
          /\ \A i \in 1..n - a : u[i] = part(n)[i]
          /\ u[n - a + 1] = doc[n + 1]
      BY <3>4, <3>6, AppendProperties
    <3>8. /\ n - a + 1 = n + 1 - a /\ a + (n - a + 1) = n + 1
          /\ n - a + 1 \in 1..n + 1 - a
          /\ \A i \in 1..n + 1 - a : i \in 1..n - a \/ i = n - a + 1
      BY <1>1, <3>1
    <3> HIDE DEF u
    <3>9. \A i \in 1..n + 1 - a : u[i] = v[i]
      BY <3>4, <3>5, <3>7, <3>8
    <3>10. u = v
      <4>1. Len(u) = Len(v) /\ Len(u) = n + 1 - a
        BY <3>5, <3>7, <3>8
      <4> QED
        BY <3>5, <3>7, <3>9, <4>1, SeqEqual
    <3> QED
      BY <3>2, <3>3, <3>10 DEF u, v
  <2>5. CASE n + 1 \notin keep
    <3>1. n + 1 \notin a + 1..b
      BY <2>2, <2>5
    <3>2. CASE n >= b
      <4>1. upto(n) = b /\ upto(n + 1) = b
        BY <1>1, <3>2
      <4> HIDE DEF part, upto
      <4> QED
        BY <2>1, <2>3, <2>5, <4>1
    <3>3. CASE n < b
      <4>1. n + 1 < a + 1 /\ n < a + 1 /\ upto(n) = n /\ upto(n + 1) = n + 1
        BY <1>1, <3>1, <3>3
      <4>2. part(n) = <<>> /\ part(n + 1) = <<>>
        BY <4>1, SubSeqEmpty
      <4> HIDE DEF part, upto
      <4> QED
        BY <2>1, <2>3, <2>5, <4>1, <4>2
    <3> QED
      BY <1>1, <3>2, <3>3
  <2> QED
    BY <2>4, <2>5
<1>7. L \in A
  <2> HIDE DEF A
  <2>1. Nat \subseteq A
    BY <1>5, <1>6, NatInductionSet
  <2> QED
    BY <1>1, <2>1
<1>8. upto(L) = b
  BY <1>1
<1> QED
  BY <1>1, <1>2, <1>7, <1>8

\* f is what of the first n entries is in keep: the entry k of f is the entry
\* at[k] of them.
TakenFrom(doc, keep, n, f, at) ==
  /\ at \in [1..Len(f) -> {i \in 1..n : i \in keep}]
  /\ \A k \in 1..Len(f) : f[k] = doc[at[k]]
  /\ \A j, k \in 1..Len(f) : j < k => at[j] < at[k]
  /\ \A i \in 1..n : i \in keep => \E k \in 1..Len(f) : at[k] = i

LEMMA ThosePlaces ==
  ASSUME NEW S, NEW doc \in Seq(S), NEW keep
  PROVE  /\ Those(doc, keep) \in Seq(S)
         /\ \E at : TakenFrom(doc, keep, Len(doc), Those(doc, keep), at)
<1> DEFINE L == Len(doc)
<1>1. L \in Nat /\ \A n \in 1..L : doc[n] \in S
  BY ElementOfSeq
<1>2. PICK f \in [0..L -> Seq(S)] : Those(doc, keep) = f[L] /\ Collects(doc, keep, f)
  BY ThoseFunction
<1>3. f[0] = <<>> /\ \A n \in 1..L : f[n] = IF n \in keep THEN Append(f[n - 1], doc[n])
                                            ELSE f[n - 1]
  BY <1>2 DEF Collects
<1> DEFINE A == {n \in Nat : n <= L => \E at : TakenFrom(doc, keep, n, f[n], at)}
<1>4. 0 \in A
  <2> DEFINE at == [k \in 1..0 |-> 0]
  <2>1. Len(<<>>) = 0
    OBVIOUS
  <2>2. \A k \in 1..0 : FALSE
    OBVIOUS
  <2>3. at \in [1..0 -> {i \in 1..0 : i \in keep}]
    BY <2>2
  <2> HIDE DEF at
  <2>4. TakenFrom(doc, keep, 0, <<>>, at)
    BY <2>1, <2>2, <2>3 DEF TakenFrom
  <2> QED
    BY <1>3, <2>4
<1>5. ASSUME NEW n \in Nat, n \in A PROVE n + 1 \in A
  <2> SUFFICES ASSUME n + 1 <= L PROVE \E at : TakenFrom(doc, keep, n + 1, f[n + 1], at)
    OBVIOUS
  <2>1. n + 1 \in 1..L /\ n + 1 - 1 = n /\ n \in 0..L
    BY <1>1
  <2>2. PICK at : TakenFrom(doc, keep, n, f[n], at)
    BY <1>1, <1>5
  <2>3. f[n + 1] = IF n + 1 \in keep THEN Append(f[n], doc[n + 1]) ELSE f[n]
    BY <1>3, <2>1
  <2> DEFINE g == f[n]
             m == Len(g)
  <2>4. g \in Seq(S) /\ m \in Nat
    BY <2>1
  <2>5. /\ at \in [1..m -> {i \in 1..n : i \in keep}]
        /\ \A k \in 1..m : g[k] = doc[at[k]]
        /\ \A j, k \in 1..m : j < k => at[j] < at[k]
        /\ \A i \in 1..n : i \in keep => \E k \in 1..m : at[k] = i
    BY <2>2 DEF TakenFrom
  <2>6. \A i \in 1..n + 1 : i \in 1..n \/ i = n + 1
    OBVIOUS
  <2>7. \A i \in 1..n : i \in 1..n + 1
    OBVIOUS
  <2>8. CASE n + 1 \in keep
    <3> DEFINE h  == Append(g, doc[n + 1])
               to == [k \in 1..m + 1 |-> IF k = m + 1 THEN n + 1 ELSE at[k]]
    <3>1. /\ h \in Seq(S) /\ Len(h) = m + 1
          /\ \A k \in 1..m : h[k] = g[k]
          /\ h[m + 1] = doc[n + 1]
      <4>1. doc[n + 1] \in S
        BY <1>1, <2>1
      <4> HIDE DEF g
      <4> QED
        BY <2>4, <4>1, AppendProperties
    <3>2. f[n + 1] = h
      BY <2>3, <2>8
    <3> HIDE DEF h, g, m
    <3>3. /\ \A k \in 1..m + 1 : k \in 1..m \/ k = m + 1
          /\ \A k \in 1..m : k \in 1..m + 1 /\ k # m + 1
          /\ m + 1 \in 1..m + 1
      BY <2>4
    <3>4. to[m + 1] = n + 1 /\ \A k \in 1..m : to[k] = at[k]
      BY <3>3
    <3>5. \A k \in 1..m : at[k] \in 1..n /\ at[k] \in keep
      BY <2>5
    <3>6. to \in [1..m + 1 -> {i \in 1..n + 1 : i \in keep}]
      <4>1. n + 1 \in 1..n + 1
        OBVIOUS
      <4> QED
        BY <2>7, <2>8, <3>3, <3>5, <4>1
    <3> HIDE DEF to
    <3>7. \A k \in 1..m + 1 : h[k] = doc[to[k]]
      BY <2>5, <3>1, <3>3, <3>4
    <3>8. ASSUME NEW j \in 1..m + 1, NEW k \in 1..m + 1, j < k PROVE to[j] < to[k]
      <4>1. j \in 1..m
        BY <2>4, <3>8
      <4>2. CASE k = m + 1
        BY <3>4, <3>5, <4>1, <4>2
      <4>3. CASE k \in 1..m
        BY <2>5, <3>4, <3>8, <4>1, <4>3
      <4> QED
        BY <3>3, <4>2, <4>3
    <3>9. ASSUME NEW i \in 1..n + 1, i \in keep PROVE \E k \in 1..m + 1 : to[k] = i
      BY <2>5, <2>6, <3>3, <3>4, <3>9
    <3>10. TakenFrom(doc, keep, n + 1, h, to)
      BY <3>1, <3>6, <3>7, <3>8, <3>9 DEF TakenFrom
    <3> QED
      BY <3>2, <3>10
  <2>9. CASE n + 1 \notin keep
    <3>1. f[n + 1] = g
      BY <2>3, <2>9
    <3> HIDE DEF g, m
    <3>2. at \in [1..m -> {i \in 1..n + 1 : i \in keep}]
      BY <2>5, <2>7
    <3>3. \A i \in 1..n + 1 : i \in keep => \E k \in 1..m : at[k] = i
      BY <2>5, <2>6, <2>9
    <3>4. TakenFrom(doc, keep, n + 1, g, at)
      BY <2>5, <3>2, <3>3 DEF TakenFrom, m
    <3> QED
      BY <3>1, <3>4
  <2> QED
    BY <2>8, <2>9
<1>6. L \in A
  <2> HIDE DEF A
  <2>1. Nat \subseteq A
    BY <1>4, <1>5, NatInductionSet
  <2> QED
    BY <1>1, <2>1
<1>7. Those(doc, keep) \in Seq(S)
  <2>1. L \in 0..L
    BY <1>1
  <2> QED
    BY <1>2, <2>1
<1> QED
  BY <1>1, <1>2, <1>6, <1>7

\* A setting of the top level.
Top(s) == s.table = <<>> /\ ~IsTable(s)

\* The lines are the entries of full, line k the entry at[k]: first, m of them,
\* the settings of the top level in their order, then the others in theirs.
Placed(full, lines, m, at) ==
  /\ m \in 0..Len(lines)
  /\ at \in [1..Len(lines) -> 1..Len(full)]
  /\ \A k \in 1..Len(lines) :
       /\ lines[k] = full[at[k]]
       /\ k <= m <=> Top(full[at[k]])
  /\ \A j, k \in 1..Len(lines) :
       j < k /\ (j <= m => k <= m) => at[j] < at[k]
  /\ \A i \in 1..Len(full) : \E k \in 1..Len(lines) : at[k] = i

LinesOf(full) ==
  LET top == {i \in DOMAIN full : Top(full[i])}
  IN  Those(full, top) \o Those(full, DOMAIN full \ top)

LEMMA LinesPlaced ==
  ASSUME NEW S, NEW full \in Seq(S)
  PROVE  /\ LinesOf(full) \in Seq(S)
         /\ \E m, at : Placed(full, LinesOf(full), m, at)
<1> DEFINE N     == Len(full)
           top   == {i \in 1..N : Top(full[i])}
           rest  == 1..N \ top
           u     == Those(full, top)
           v     == Those(full, rest)
           lines == u \o v
<1>1. N \in Nat /\ DOMAIN full = 1..N
  OBVIOUS
<1>2. LinesOf(full) = lines
  BY <1>1 DEF LinesOf
<1>4. u \in Seq(S) /\ \E at : TakenFrom(full, top, N, u, at)
  <2> HIDE DEF top
  <2> QED
    BY ThosePlaces
<1>5. v \in Seq(S) /\ \E at : TakenFrom(full, rest, N, v, at)
  <2> HIDE DEF rest
  <2> QED
    BY ThosePlaces
<1> HIDE DEF u, v
<1>6. PICK at1 : TakenFrom(full, top, N, u, at1)
  BY <1>4
<1>7. PICK at2 : TakenFrom(full, rest, N, v, at2)
  BY <1>5
<1> DEFINE m == Len(u)
           n == Len(v)
           at == [k \in 1..m + n |-> IF k <= m THEN at1[k] ELSE at2[k - m]]
<1>8. /\ \A k \in 1..m : at1[k] \in 1..N /\ Top(full[at1[k]])
      /\ \A k \in 1..m : u[k] = full[at1[k]]
      /\ \A j, k \in 1..m : j < k => at1[j] < at1[k]
      /\ \A i \in 1..N : Top(full[i]) => \E k \in 1..m : at1[k] = i
  <2>1. /\ at1 \in [1..m -> {i \in 1..N : i \in top}]
        /\ \A k \in 1..m : u[k] = full[at1[k]]
        /\ \A j, k \in 1..m : j < k => at1[j] < at1[k]
        /\ \A i \in 1..N : i \in top => \E k \in 1..m : at1[k] = i
    BY <1>6 DEF TakenFrom
  <2>2. \A k \in 1..m : at1[k] \in 1..N /\ at1[k] \in top
    BY <2>1
  <2> QED
    BY <2>1, <2>2
<1>9. /\ \A k \in 1..n : at2[k] \in 1..N /\ ~Top(full[at2[k]])
      /\ \A k \in 1..n : v[k] = full[at2[k]]
      /\ \A j, k \in 1..n : j < k => at2[j] < at2[k]
      /\ \A i \in 1..N : ~Top(full[i]) => \E k \in 1..n : at2[k] = i
  <2>1. /\ at2 \in [1..n -> {i \in 1..N : i \in rest}]
        /\ \A k \in 1..n : v[k] = full[at2[k]]
        /\ \A j, k \in 1..n : j < k => at2[j] < at2[k]
        /\ \A i \in 1..N : i \in rest => \E k \in 1..n : at2[k] = i
    BY <1>7 DEF TakenFrom
  <2>2. \A k \in 1..n : at2[k] \in 1..N /\ at2[k] \in rest
    BY <2>1
  <2> QED
    BY <2>1, <2>2
<1>10. m \in Nat /\ n \in Nat
  BY <1>4, <1>5
<1>11. /\ lines \in Seq(S) /\ Len(lines) = m + n
       /\ \A k \in 1..m + n : lines[k] = IF k <= m THEN u[k] ELSE v[k - m]
  BY <1>4, <1>5, ConcatProperties
<1> HIDE DEF lines, m, n
<1>12. \A k \in 1..m + n : /\ k <= m => k \in 1..m
                           /\ ~(k <= m) => k - m \in 1..n
  BY <1>10
<1>13. \A k \in 1..m + n : at[k] = IF k <= m THEN at1[k] ELSE at2[k - m]
  OBVIOUS
<1>14. at \in [1..m + n -> 1..N]
  BY <1>8, <1>9, <1>12
<1> HIDE DEF at
<1>15. ASSUME NEW k \in 1..m + n
       PROVE  /\ lines[k] = full[at[k]]
              /\ k <= m <=> Top(full[at[k]])
  <2>1. CASE k <= m
    BY <1>8, <1>11, <1>12, <1>13, <2>1
  <2>2. CASE ~(k <= m)
    BY <1>9, <1>11, <1>12, <1>13, <2>2
  <2> QED
    BY <2>1, <2>2
<1>16. ASSUME NEW j \in 1..m + n, NEW k \in 1..m + n, j < k, j <= m => k <= m
       PROVE  at[j] < at[k]
  <2>1. CASE k <= m
    <3>1. j <= m
      BY <1>10, <1>16, <2>1
    <3> QED
      BY <1>8, <1>12, <1>13, <1>16, <2>1, <3>1
  <2>2. CASE ~(k <= m)
    <3>1. ~(j <= m) /\ j - m < k - m
      BY <1>10, <1>16, <2>2
    <3> QED
      BY <1>9, <1>12, <1>13, <2>2, <3>1
  <2> QED
    BY <2>1, <2>2
<1>17. ASSUME NEW i \in 1..N PROVE \E k \in 1..m + n : at[k] = i
  <2>1. CASE Top(full[i])
    <3>1. PICK k \in 1..m : at1[k] = i
      BY <1>8, <2>1
    <3>2. k \in 1..m + n /\ k <= m
      BY <1>10
    <3> QED
      BY <1>13, <3>1, <3>2
  <2>2. CASE ~Top(full[i])
    <3>1. PICK k \in 1..n : at2[k] = i
      BY <1>9, <2>2
    <3> DEFINE l == m + k
    <3>2. l \in 1..m + n /\ ~(l <= m) /\ l - m = k
      BY <1>10
    <3> HIDE DEF l
    <3>3. at[l] = at2[l - m]
      BY <1>13, <3>2
    <3> QED
      BY <3>1, <3>2, <3>3
  <2> QED
    BY <2>1, <2>2
<1>18. m \in 0..m + n
  BY <1>10
<1>19. Placed(full, lines, m, at)
  BY <1>11, <1>14, <1>15, <1>16, <1>17, <1>18 DEF Placed
<1> QED
  BY <1>2, <1>11, <1>19

-----------------------------------------------------------------------------
(* Headers, and what is read below them.                                   *)

\* The keys that are read as they are written, and what is made of them.
BareKeys == {k \in Keys : Reads[k] = <<k>>}
Bares == Entries(BareKeys)

LEMMA BareEntries ==
  /\ \A doc : Bare(doc) <=> doc \in Seq(Bares)
  /\ \A s \in Bares :
       /\ s.table \in Seq(BareKeys) /\ s.key \in BareKeys
       /\ s.type \in Types /\ s.val \in Values
       /\ Entry(s.table, s.key, s.type, s.val) = s
       /\ Path(s) \in Seq(BareKeys) /\ Path(s) # <<>>
  /\ \A table \in Seq(BareKeys), key \in BareKeys, type \in Types, val \in Values :
       Entry(table, key, type, val) \in Bares
<1>1. \A doc : Bare(doc) <=> doc \in Seq(Bares)
  BY DEF Bare, Bares, BareKeys
<1>2. \A table \in Seq(BareKeys), key \in BareKeys, type \in Types, val \in Values :
        Entry(table, key, type, val) \in Bares
  BY DEF Entry, Entries, Bares
<1>3. ASSUME NEW s \in Bares
      PROVE  /\ s.table \in Seq(BareKeys) /\ s.key \in BareKeys
             /\ s.type \in Types /\ s.val \in Values
             /\ Entry(s.table, s.key, s.type, s.val) = s
  BY DEF Entry, Entries, Bares
<1>4. ASSUME NEW table \in Seq(BareKeys), NEW key \in BareKeys
      PROVE  Append(table, key) \in Seq(BareKeys) /\ Append(table, key) # <<>>
  <2>1. Append(table, key) \in Seq(BareKeys) /\ Len(Append(table, key)) = Len(table) + 1
    BY AppendProperties
  <2>2. Len(table) + 1 # 0
    BY LenProperties
  <2>3. Len(<<>>) = 0
    BY EmptySeq
  <2> QED
    BY <2>1, <2>2, <2>3
<1> QED
  BY <1>1, <1>2, <1>3, <1>4 DEF Path

\* o is the line with the header that line i is below.
UnderHeader(lines, i, o) ==
  /\ o \in 1..i
  /\ IsTable(lines[o])
  /\ \A j \in 1..i : IsTable(lines[j]) => j <= o

\* No line down to i is a header.
NoHeader(lines, i) == \A j \in 1..i : ~IsTable(lines[j])

LEMMA HeaderCases ==
  ASSUME NEW lines, NEW i \in Nat
  PROVE  NoHeader(lines, i) \/ \E o : UnderHeader(lines, i, o)
<1> DEFINE above == {j \in 1..i : IsTable(lines[j])}
<1>1. above \in SUBSET (0..i)
  OBVIOUS
<1>2. CASE above = {}
  BY <1>2 DEF NoHeader
<1>3. CASE above # {}
  <2>1. PICK o \in above : \A j \in above : j <= o
    <3> HIDE DEF above
    <3> QED
      BY <1>1, <1>3, Greatest
  <2> QED
    BY <2>1 DEF UnderHeader
<1> QED
  BY <1>2, <1>3

LEMMA NoHeaderAbove ==
  ASSUME NEW lines, NEW i \in Nat, NoHeader(lines, i)
  PROVE  Header(lines, i) = <<>>
<1>1. {j \in 1..i : IsTable(lines[j])} = {}
  BY DEF NoHeader
<1> QED
  BY <1>1 DEF Header

LEMMA HeaderAbove ==
  ASSUME NEW lines, NEW i \in Nat, NEW o, UnderHeader(lines, i, o)
  PROVE  Header(lines, i) = Path(lines[o])
<1> DEFINE above == {j \in 1..i : IsTable(lines[j])}
<1>1. o \in above /\ \A j \in above : o >= j /\ j \in Nat
  BY DEF UnderHeader
<1>2. Header(lines, i) = IF above = {} THEN <<>> ELSE Path(lines[Max(above)])
  BY DEF Header
<1> HIDE DEF above
<1>3. Max(above) \in above /\ \A j \in above : Max(above) >= j
  BY <1>1 DEF Max
<1>4. Max(above) = o
  BY <1>1, <1>3
<1>5. above # {}
  BY <1>1
<1> QED
  BY <1>2, <1>4, <1>5

\* What a line is below is a path of bare keys, and empty only at the top.
LEMMA BareHeader ==
  ASSUME NEW lines \in Seq(Bares), NEW i \in 1..Len(lines)
  PROVE  /\ Header(lines, i) \in Seq(BareKeys)
         /\ Header(lines, i) = <<>> <=> NoHeader(lines, i)
<1>1. i \in Nat
  OBVIOUS
<1>2. CASE NoHeader(lines, i)
  BY <1>1, <1>2, NoHeaderAbove, EmptySeq
<1>3. CASE ~NoHeader(lines, i)
  <2>1. PICK o : UnderHeader(lines, i, o)
    BY <1>1, <1>3, HeaderCases
  <2>2. Header(lines, i) = Path(lines[o])
    BY <1>1, <2>1, HeaderAbove
  <2>3. o \in 1..Len(lines)
    BY <2>1 DEF UnderHeader
  <2>4. lines[o] \in Bares
    BY <2>3, ElementOfSeq
  <2> QED
    BY <1>3, <2>2, <2>4, BareEntries
<1> QED
  BY <1>2, <1>3

\* Lines with the same headers in the same places.
SameHeaders(a, b, n) ==
  \A j \in 1..n : /\ IsTable(a[j]) <=> IsTable(b[j])
                  /\ IsTable(b[j]) => Path(a[j]) = Path(b[j])

LEMMA HeadersKept ==
  ASSUME NEW a, NEW b, NEW n \in Nat, SameHeaders(a, b, n), NEW i \in 1..n
  PROVE  Header(a, i) = Header(b, i)
<1>1. i \in Nat /\ \A j \in 1..i : j \in 1..n
  OBVIOUS
<1>2. CASE NoHeader(b, i)
  <2>1. NoHeader(a, i)
    BY <1>1, <1>2 DEF SameHeaders, NoHeader
  <2> QED
    BY <1>1, <1>2, <2>1, NoHeaderAbove
<1>3. CASE ~NoHeader(b, i)
  <2>1. PICK o : UnderHeader(b, i, o)
    BY <1>1, <1>3, HeaderCases
  <2>2. o \in 1..n /\ IsTable(b[o])
    BY <1>1, <2>1 DEF UnderHeader
  <2>3. UnderHeader(a, i, o)
    BY <1>1, <2>1 DEF SameHeaders, UnderHeader
  <2>4. Path(a[o]) = Path(b[o])
    BY <2>2 DEF SameHeaders
  <2> QED
    BY <1>1, <2>1, <2>3, <2>4, HeaderAbove
<1> QED
  BY <1>2, <1>3

\* Each line is written in a form that can be read.
Written(lines) == \A s \in ToSet(lines) : WrittenType(s.type) # "invalid"

\* The types that are written are written again as they are, and what is not a
\* table does not become one.
LEMMA TypeAgain ==
  ASSUME NEW type \in Types
  PROVE  /\ WrittenType(type) # "invalid" => WrittenType(type) \in Types
         /\ WrittenType(type) # "invalid" =>
              WrittenType(WrittenType(type)) = WrittenType(type)
         /\ WrittenType(type) = "table" <=> type = "table"
BY DEF WrittenType, Types

\* The dict of lines with bare keys, one entry for a line: the headers as they
\* are, the settings below the headers.
LEMMA InOrderEntries ==
  ASSUME NEW lines \in Seq(Bares), Written(lines)
  PROVE  LET new == InOrder(lines)
         IN  /\ new \in Seq(Bares) /\ Len(new) = Len(lines)
             /\ \A k \in 1..Len(lines) :
                  /\ IsTable(new[k]) <=> IsTable(lines[k])
                  /\ IsTable(lines[k]) => new[k] = lines[k]
                  /\ ~IsTable(lines[k]) =>
                       new[k] = Entry(Header(lines, k), lines[k].key,
                                      WrittenType(lines[k].type), lines[k].val)
<1> DEFINE N == Len(lines)
           below(k) == Entry(Header(lines, k), lines[k].key,
                             WrittenType(lines[k].type), lines[k].val)
           new == [k \in 1..N |-> IF IsTable(lines[k]) THEN lines[k] ELSE below(k)]
<1>1. N \in Nat /\ DOMAIN lines = 1..N
  OBVIOUS
<1>2. InOrder(lines) = new
  BY <1>1 DEF InOrder
<1>3. ASSUME NEW k \in 1..N
      PROVE  /\ lines[k] \in Bares
             /\ ~IsTable(lines[k]) => below(k) \in Bares /\ ~IsTable(below(k))
  <2>1. lines[k] \in Bares
    BY ElementOfSeq
  <2>2. lines[k].key \in BareKeys /\ lines[k].type \in Types /\ lines[k].val \in Values
    BY <2>1, BareEntries
  <2>3. WrittenType(lines[k].type) # "invalid"
    <3>1. lines[k] \in ToSet(lines)
      BY <1>1 DEF ToSet
    <3> QED
      BY <3>1 DEF Written
  <2>4. Header(lines, k) \in Seq(BareKeys)
    BY BareHeader
  <2>5. WrittenType(lines[k].type) \in Types
    BY <2>2, <2>3, TypeAgain
  <2>6. below(k) \in Bares
    <3> HIDE DEF Bares, BareKeys
    <3> QED
      BY <2>2, <2>4, <2>5, BareEntries
  <2>7. below(k).type = WrittenType(lines[k].type)
    BY DEF Entry
  <2>8. ~IsTable(lines[k]) => ~IsTable(below(k))
    BY <2>2, <2>7, TypeAgain DEF IsTable
  <2> QED
    BY <2>1, <2>6, <2>8
<1> HIDE DEF below
<1>4. \A k \in 1..N : new[k] = IF IsTable(lines[k]) THEN lines[k] ELSE below(k)
  OBVIOUS
<1>5. new \in [1..N -> Bares]
  BY <1>3
<1>6. new \in Seq(Bares) /\ Len(new) = N
  BY <1>1, <1>5
<1> HIDE DEF new
<1>7. \A k \in 1..N : IsTable(new[k]) <=> IsTable(lines[k])
  BY <1>3, <1>4
<1> QED
  BY <1>2, <1>4, <1>6, <1>7 DEF below

\* What has been read is read again as it is.
LEMMA InOrderAgain ==
  ASSUME NEW lines \in Seq(Bares), Written(lines)
  PROVE  Written(InOrder(lines)) /\ InOrder(InOrder(lines)) = InOrder(lines)
<1> DEFINE new == InOrder(lines)
           N == Len(lines)
<1>1. /\ new \in Seq(Bares) /\ Len(new) = N
      /\ \A k \in 1..N :
           /\ IsTable(new[k]) <=> IsTable(lines[k])
           /\ IsTable(lines[k]) => new[k] = lines[k]
           /\ ~IsTable(lines[k]) =>
                new[k] = Entry(Header(lines, k), lines[k].key,
                               WrittenType(lines[k].type), lines[k].val)
  BY InOrderEntries
<1> HIDE DEF new
<1>2. N \in Nat /\ DOMAIN new = 1..N /\ DOMAIN lines = 1..N
  BY <1>1
<1>3. SameHeaders(new, lines, N)
  BY <1>1 DEF SameHeaders
<1>4. ASSUME NEW k \in 1..N
      PROVE  /\ WrittenType(new[k].type) # "invalid"
             /\ ~IsTable(new[k]) =>
                  Entry(Header(new, k), new[k].key, WrittenType(new[k].type),
                        new[k].val) = new[k]
  <2>1. lines[k] \in Bares /\ new[k] \in Bares
    BY <1>1, ElementOfSeq
  <2>2. WrittenType(lines[k].type) # "invalid" /\ lines[k].type \in Types
    <3>1. lines[k] \in ToSet(lines)
      BY <1>2 DEF ToSet
    <3> QED
      BY <2>1, <3>1, BareEntries DEF Written
  <2>3. CASE IsTable(lines[k])
    BY <1>1, <2>2, <2>3
  <2>4. CASE ~IsTable(lines[k])
    <3>1. /\ new[k].table = Header(lines, k) /\ new[k].key = lines[k].key
          /\ new[k].type = WrittenType(lines[k].type) /\ new[k].val = lines[k].val
      <4>1. new[k] = Entry(Header(lines, k), lines[k].key, WrittenType(lines[k].type),
                           lines[k].val)
        BY <1>1, <2>4
      <4> QED
        BY <4>1 DEF Entry
    <3>2. WrittenType(new[k].type) = new[k].type /\ new[k].type # "invalid"
      BY <2>2, <3>1, TypeAgain
    <3>3. Header(new, k) = Header(lines, k)
      BY <1>2, <1>3, HeadersKept
    <3>4. Entry(new[k].table, new[k].key, new[k].type, new[k].val) = new[k]
      BY <2>1, BareEntries
    <3> QED
      BY <3>1, <3>2, <3>3, <3>4
  <2> QED
    BY <2>3, <2>4
<1>5. Written(new)
  <2>1. \A s \in ToSet(new) : \E k \in 1..N : s = new[k]
    BY <1>2 DEF ToSet
  <2> QED
    BY <1>4, <2>1 DEF Written
<1>6. InOrder(new) = new
  <2>1. /\ InOrder(new) \in Seq(Bares) /\ Len(InOrder(new)) = Len(new)
        /\ \A k \in 1..Len(new) :
             /\ IsTable(new[k]) => InOrder(new)[k] = new[k]
             /\ ~IsTable(new[k]) =>
                  InOrder(new)[k] = Entry(Header(new, k), new[k].key,
                                          WrittenType(new[k].type), new[k].val)
    BY <1>1, <1>5, InOrderEntries
  <2>2. \A k \in 1..N : InOrder(new)[k] = new[k]
    BY <1>1, <1>4, <2>1
  <2> DEFINE again == InOrder(new)
  <2> HIDE DEF again
  <2>3. again = new
    BY <1>1, <2>1, <2>2, SeqEqual DEF again
  <2> QED
    BY <2>3 DEF again
<1> QED
  BY <1>5, <1>6 DEF new

\* A line is read as a setting of the top level if there is no header above it.
LEMMA ReadTop ==
  ASSUME NEW lines \in Seq(Bares), Written(lines), NEW k \in 1..Len(lines)
  PROVE  Top(InOrder(lines)[k]) <=> NoHeader(lines, k)
<1> DEFINE new == InOrder(lines)
<1>1. /\ IsTable(new[k]) <=> IsTable(lines[k])
      /\ ~IsTable(lines[k]) =>
           new[k] = Entry(Header(lines, k), lines[k].key,
                          WrittenType(lines[k].type), lines[k].val)
  BY InOrderEntries
<1> HIDE DEF new
<1>2. CASE IsTable(lines[k])
  <2>1. k \in 1..k
    OBVIOUS
  <2> QED
    BY <1>1, <1>2, <2>1 DEF Top, NoHeader, new
<1>3. CASE ~IsTable(lines[k])
  <2>1. new[k] = Entry(Header(lines, k), lines[k].key, WrittenType(lines[k].type),
                       lines[k].val)
    BY <1>1, <1>3
  <2>2. new[k].table = Header(lines, k)
    BY <2>1 DEF Entry
  <2>3. Header(lines, k) = <<>> <=> NoHeader(lines, k)
    BY BareHeader
  <2> QED
    BY <1>1, <1>3, <2>2, <2>3 DEF Top, new
<1> QED
  BY <1>2, <1>3

\* The settings of the top level come first in what has been read, so it is
\* written in the order it has.
LEMMA LinesAgain ==
  ASSUME NEW lines \in Seq(Bares), Written(lines)
  PROVE  LinesOf(InOrder(lines)) = InOrder(lines)
<1> DEFINE new  == InOrder(lines)
           N    == Len(lines)
           T    == {k \in 0..N : k = 0 \/ NoHeader(lines, k)}
           top  == {i \in DOMAIN new : Top(new[i])}
           rest == DOMAIN new \ top
<1>1. new \in Seq(Bares) /\ Len(new) = N
  BY InOrderEntries
<1>2. N \in Nat /\ \A k \in 1..N : Top(new[k]) <=> NoHeader(lines, k)
  BY ReadTop
<1> HIDE DEF new
<1>3. PICK m \in T : \A k \in T : k <= m
  <2>1. T \in SUBSET (0..N) /\ T # {}
    <3>1. 0 \in T
      BY <1>2
    <3> QED
      BY <3>1
  <2> HIDE DEF T
  <2> QED
    BY <1>2, <2>1, Greatest
<1>4. m \in Nat /\ m \in 0..N
  OBVIOUS
<1>5. ASSUME NEW k \in 1..N PROVE NoHeader(lines, k) <=> k \in 1..m
  <2>1. ASSUME NoHeader(lines, k) PROVE k <= m
    BY <1>2, <1>3, <2>1
  <2>2. ASSUME k \in 1..m PROVE NoHeader(lines, k)
    <3>1. NoHeader(lines, m)
      BY <1>4, <2>2
    <3>2. \A j \in 1..k : j \in 1..m
      BY <1>4, <2>2
    <3> QED
      BY <3>1, <3>2 DEF NoHeader
  <2> QED
    BY <1>4, <2>1, <2>2
<1>6. DOMAIN new = 1..N
  BY <1>1
<1>7. /\ \A i \in 1..N : i \in top <=> i \in 0 + 1..m
      /\ \A i \in 1..N : i \in rest <=> i \in m + 1..N
  <2>1. \A i \in 1..N : i \in top <=> i \in 1..m
    BY <1>2, <1>5, <1>6
  <2>2. \A i \in 1..N : i \in rest <=> i \notin top
    BY <1>6
  <2>3. 0 + 1 = 1 /\ \A i \in 1..N : i \notin 1..m <=> i \in m + 1..N
    BY <1>4
  <2> HIDE DEF top, rest
  <2> QED
    BY <2>1, <2>2, <2>3
<1> HIDE DEF top, rest
<1>8. Those(new, top) = SubSeq(new, 1, m)
  <2>1. 0 \in Nat /\ m \in 0..Len(new) /\ 0 + 1 = 1
        /\ \A i \in 1..Len(new) : i \in top <=> i \in 0 + 1..m
    BY <1>1, <1>4, <1>7
  <2>2. Those(new, top) = SubSeq(new, 0 + 1, m)
    BY <1>1, <2>1, ThoseTogether
  <2> QED
    BY <2>1, <2>2
<1>9. Those(new, rest) = SubSeq(new, m + 1, N)
  <2>1. N \in m..Len(new) /\ \A i \in 1..Len(new) : i \in rest <=> i \in m + 1..N
    BY <1>1, <1>2, <1>4, <1>7
  <2> QED
    BY <1>1, <1>4, <2>1, ThoseTogether
<1>10. SubSeq(new, 1, m) \o SubSeq(new, m + 1, N) = new
  <2>1. 1 \in 1..N + 1 /\ m \in 1 - 1..N /\ N \in m..N
    BY <1>2, <1>4
  <2>2. SubSeq(new, 1, m) \o SubSeq(new, m + 1, N) = SubSeq(new, 1, N)
    BY <1>1, <2>1, ConcatAdjacentSubSeq
  <2> QED
    BY <1>1, <2>2, SubSeqFull
<1>11. LinesOf(new) = Those(new, top) \o Those(new, rest)
  BY DEF LinesOf, top, rest
<1>12. LinesOf(new) = new
  BY <1>8, <1>9, <1>10, <1>11
<1> QED
  BY <1>12 DEF new

-----------------------------------------------------------------------------
(* Pairing.                                                                *)

LEMMA MacEntry ==
  ASSUME NEW a \in Values
  PROVE  /\ Mac(a) \in Bares /\ IsMac(Mac(a)) /\ Top(Mac(a)) /\ ~IsTable(Mac(a))
         /\ Mac(a).table = <<>> /\ Mac(a).key = "flipper_mac" /\ Mac(a).type = "str"
         /\ Mac(a).val = a
<1>1. "flipper_mac" \in BareKeys
  BY ConfigAssumption DEF ConfigAssumption, BareKeys
<1>2. <<>> \in Seq(BareKeys) /\ "str" \in Types
  BY EmptySeq DEF Types
<1>3. Mac(a) \in Bares
  <2> HIDE DEF Bares, BareKeys
  <2> QED
    BY <1>1, <1>2, BareEntries DEF Mac
<1> QED
  BY <1>3 DEF Mac, Entry, IsMac, Top, IsTable

\* The address replaces the one that is there or is added to the end.
LEMMA WithMacCases ==
  ASSUME NEW doc \in Seq(Bares), NEW a \in Values
  PROVE  LET full == WithMac(doc, a)
             n    == Len(doc)
         IN  /\ full \in Seq(Bares)
             /\ \/ /\ Len(full) = n
                   /\ \A i \in 1..n : full[i] = IF IsMac(doc[i]) THEN Mac(a) ELSE doc[i]
                   /\ \E i \in 1..n : IsMac(doc[i])
                \/ /\ Len(full) = n + 1
                   /\ \A i \in 1..n : full[i] = doc[i]
                   /\ full[n + 1] = Mac(a)
                   /\ \A i \in 1..n : ~IsMac(doc[i])
<1> DEFINE full == WithMac(doc, a)
           n    == Len(doc)
           with == [i \in 1..n |-> IF IsMac(doc[i]) THEN Mac(a) ELSE doc[i]]
<1>1. /\ n \in Nat /\ DOMAIN doc = 1..n
      /\ \A i \in 1..n : doc[i] \in Bares
      /\ Mac(a) \in Bares
  BY ElementOfSeq, MacEntry
<1>2. (\E s \in ToSet(doc) : IsMac(s)) <=> \E i \in 1..n : IsMac(doc[i])
  BY <1>1 DEF ToSet
<1>3. full = IF \E i \in 1..n : IsMac(doc[i]) THEN with ELSE Append(doc, Mac(a))
  <2> HIDE DEF n
  <2> QED
    BY <1>1, <1>2 DEF WithMac
<1>4. CASE \E i \in 1..n : IsMac(doc[i])
  <2>1. with \in [1..n -> Bares]
    BY <1>1
  <2>2. with \in Seq(Bares) /\ Len(with) = n
    BY <1>1, <2>1
  <2>3. \A i \in 1..n : with[i] = IF IsMac(doc[i]) THEN Mac(a) ELSE doc[i]
    OBVIOUS
  <2>4. full = with
    BY <1>3, <1>4
  <2> HIDE DEF full, with, n
  <2> QED
    BY <1>4, <2>2, <2>3, <2>4 DEF full, n
<1>5. CASE ~\E i \in 1..n : IsMac(doc[i])
  <2>1. full = Append(doc, Mac(a))
    BY <1>3, <1>5
  <2>2. /\ full \in Seq(Bares) /\ Len(full) = n + 1
        /\ \A i \in 1..n : full[i] = doc[i]
        /\ full[n + 1] = Mac(a)
    BY <1>1, <2>1, AppendProperties
  <2> HIDE DEF full, with, n
  <2> QED
    BY <1>5, <2>2 DEF full, n
<1> QED
  BY <1>4, <1>5

\* The line with the address has no header above it.
LEMMA MacRead ==
  ASSUME NEW doc \in Seq(Bares), NEW a \in Values,
         NEW lines \in Seq(Bares), Written(lines),
         NEW m, NEW at, Placed(WithMac(doc, a), lines, m, at)
  PROVE  \E k \in 1..Len(lines) : InOrder(lines)[k] = Mac(a)
<1> DEFINE full == WithMac(doc, a)
<1>1. \E i \in 1..Len(full) : full[i] = Mac(a)
  <2>1. Len(doc) \in Nat
    OBVIOUS
  <2>2. Len(doc) + 1 \in 1..Len(doc) + 1
    BY <2>1
  <2> QED
    BY <2>2, WithMacCases
<1> HIDE DEF full
<1>2. PICK i \in 1..Len(full) : full[i] = Mac(a)
  BY <1>1
<1>3. PICK k \in 1..Len(lines) : at[k] = i
  BY DEF Placed, full
<1>4. lines[k] = Mac(a) /\ k <= m /\ m \in 0..Len(lines)
  BY <1>2, <1>3, MacEntry DEF Placed, full
<1>5. \A j \in 1..k : j \in 1..Len(lines) /\ j <= m
  BY <1>4
<1>6. NoHeader(lines, k)
  BY <1>5 DEF Placed, NoHeader, Top
<1>7. k \in Nat /\ Header(lines, k) = <<>>
  BY <1>6, NoHeaderAbove
<1>8. InOrder(lines)[k] = Entry(<<>>, "flipper_mac", WrittenType("str"), a)
  BY <1>4, <1>7, InOrderEntries, MacEntry
<1>9. WrittenType("str") = "str"
  BY DEF WrittenType
<1> QED
  BY <1>8, <1>9 DEF Mac

\* The address replaces itself.
LEMMA WithMacAgain ==
  ASSUME NEW new \in Seq(Bares), NEW a \in Values, ~Duplicates(new),
         NEW k \in 1..Len(new), new[k] = Mac(a)
  PROVE  WithMac(new, a) = new
<1> DEFINE full == WithMac(new, a)
           n    == Len(new)
<1>1. DOMAIN new = 1..n /\ n \in Nat
  OBVIOUS
<1>2. ASSUME NEW i \in 1..n, IsMac(new[i]) PROVE new[i] = Mac(a)
  <2>1. new[i].table = new[k].table /\ new[i].key = new[k].key
    BY <1>2, MacEntry DEF IsMac
  <2>2. Path(new[i]) = Path(new[k])
    BY <2>1 DEF Path
  <2>3. i = k
    BY <1>1, <2>2 DEF Duplicates
  <2> QED
    BY <2>3
<1>3. IsMac(new[k])
  BY MacEntry
<1>4. /\ full \in Seq(Bares) /\ Len(full) = n
      /\ \A i \in 1..n : full[i] = IF IsMac(new[i]) THEN Mac(a) ELSE new[i]
  <2> HIDE DEF full, n
  <2> QED
    BY <1>3, WithMacCases DEF full, n
<1> HIDE DEF full, n
<1>5. \A i \in 1..n : full[i] = new[i]
  BY <1>2, <1>4
<1>6. full = new
  BY <1>4, <1>5, SeqEqual DEF n
<1> QED
  BY <1>6 DEF full

LEMMA ReadBare ==
  ASSUME NEW lines \in Seq(Bares)
  PROVE  Read(lines) = IF Written(lines) /\ ~Duplicates(InOrder(lines))
                       THEN Toml(InOrder(lines)) ELSE Broken
<1>1. Bare(lines)
  BY BareEntries
<1>2. (\E s \in ToSet(lines) : WrittenType(s.type) = "invalid") <=> ~Written(lines)
  BY DEF Written
<1> QED
  BY <1>1, <1>2 DEF Read

\* What save_mac writes of a document with bare keys are its lines with the
\* address, and they are read in order.
LEMMA Saved ==
  ASSUME NEW doc \in Seq(Bares), NEW a \in Values
  PROVE  LET new   == SaveMac(doc, a)
             lines == LinesOf(WithMac(doc, a))
         IN  /\ lines \in Seq(Bares)
             /\ \E m, at : Placed(WithMac(doc, a), lines, m, at)
             /\ Loadable(new) <=> Written(lines) /\ ~Duplicates(InOrder(lines))
             /\ Loadable(new) => new = Toml(InOrder(lines)) /\ new.doc = InOrder(lines)
<1> DEFINE full  == WithMac(doc, a)
           new   == SaveMac(doc, a)
           lines == LinesOf(full)
<1>1. new = Read(lines)
  BY DEF SaveMac, Lines, LinesOf, Top
<1>2. full \in Seq(Bares)
  BY WithMacCases
<1> HIDE DEF full
<1>3. lines \in Seq(Bares) /\ \E m, at : Placed(full, lines, m, at)
  BY <1>2, LinesPlaced
<1> HIDE DEF new, lines
<1>4. new = IF Written(lines) /\ ~Duplicates(InOrder(lines))
            THEN Toml(InOrder(lines)) ELSE Broken
  BY <1>1, <1>3, ReadBare
<1>5. /\ Toml(InOrder(lines)).state = "toml" /\ Toml(InOrder(lines)).doc = InOrder(lines)
      /\ Broken.state = "broken"
  BY DEF Toml, Broken
<1>6. /\ Loadable(new) <=> Written(lines) /\ ~Duplicates(InOrder(lines))
      /\ Loadable(new) => new = Toml(InOrder(lines)) /\ new.doc = InOrder(lines)
  <2>1. CASE Written(lines) /\ ~Duplicates(InOrder(lines))
    <3>1. new = Toml(InOrder(lines))
      BY <1>4, <2>1
    <3> QED
      BY <1>5, <2>1, <3>1 DEF Loadable
  <2>2. CASE ~(Written(lines) /\ ~Duplicates(InOrder(lines)))
    <3>1. new = Broken
      BY <1>4, <2>2
    <3> QED
      BY <1>5, <2>2, <3>1 DEF Loadable
  <2> QED
    BY <2>1, <2>2
<1> QED
  BY <1>3, <1>6 DEF new, lines, full

\* Saving what was saved writes the same.
LEMMA SavedAgain ==
  ASSUME NEW doc \in Seq(Bares), NEW a \in Values, Loadable(SaveMac(doc, a))
  PROVE  SaveMac(SaveMac(doc, a).doc, a) = SaveMac(doc, a)
<1> DEFINE full  == WithMac(doc, a)
           lines == LinesOf(full)
           new   == InOrder(lines)
<1>1. /\ SaveMac(doc, a) = Toml(new) /\ SaveMac(doc, a).doc = new
      /\ lines \in Seq(Bares) /\ Written(lines) /\ ~Duplicates(new)
      /\ \E m, at : Placed(full, lines, m, at)
  BY Saved
<1> HIDE DEF lines
<1>2. PICK m, at : Placed(full, lines, m, at)
  BY <1>1
<1>3. PICK k \in 1..Len(lines) : new[k] = Mac(a)
  BY <1>1, <1>2, MacRead
<1> HIDE DEF full
<1>4. new \in Seq(Bares) /\ Len(new) = Len(lines)
  BY <1>1, InOrderEntries
<1>5. Written(new) /\ InOrder(new) = new /\ LinesOf(new) = new
  BY <1>1, InOrderAgain, LinesAgain
<1> HIDE DEF new
<1>6. WithMac(new, a) = new
  BY <1>1, <1>3, <1>4, WithMacAgain
<1>7. Loadable(SaveMac(new, a)) /\ SaveMac(new, a) = Toml(new)
  <2> DEFINE all == LinesOf(WithMac(new, a))
             twice == SaveMac(new, a)
  <2>1. /\ Loadable(twice) <=> Written(all) /\ ~Duplicates(InOrder(all))
        /\ Loadable(twice) => twice = Toml(InOrder(all))
    BY <1>4, Saved
  <2>2. all = new
    BY <1>5, <1>6
  <2> HIDE DEF all, twice
  <2>3. Loadable(twice) /\ twice = Toml(new)
    BY <1>1, <1>5, <2>1, <2>2
  <2> QED
    BY <2>3 DEF twice
<1> QED
  BY <1>1, <1>7

\* Entry i is below the header of its table, if it is not of the top level.
Settled(full, i) ==
  \/ full[i].table = <<>> \/ IsTable(full[i])
  \/ \E o : UnderHeader(full, i, o) /\ Path(full[o]) = full[i].table

LEMMA PlacedFacts ==
  ASSUME NEW full, NEW lines, NEW N \in Nat, Len(lines) = N,
         NEW m, NEW at, Placed(full, lines, m, at)
  PROVE  /\ m \in Nat /\ m \in 0..N
         /\ \A l \in 1..N : at[l] \in 1..Len(full) /\ lines[l] = full[at[l]]
         /\ \A l \in 1..N : at[l] \in Nat /\ (l <= m <=> Top(full[at[l]]))
         /\ \A j, l \in 1..N : j < l /\ (j <= m => l <= m) => at[j] < at[l]
         /\ \A j, l \in 1..N : j # l => at[j] # at[l]
         /\ \A o \in 1..Len(full) : \E l \in 1..N : at[l] = o
<1>1. /\ m \in 0..N
      /\ at \in [1..N -> 1..Len(full)]
      /\ \A l \in 1..N : /\ lines[l] = full[at[l]]
                         /\ l <= m <=> Top(full[at[l]])
      /\ \A j, l \in 1..N : j < l /\ (j <= m => l <= m) => at[j] < at[l]
      /\ \A o \in 1..Len(full) : \E l \in 1..N : at[l] = o
  BY DEF Placed
<1>2. \A l \in 1..N : at[l] \in 1..Len(full)
  BY <1>1
<1>3. m \in Nat /\ \A l \in 1..N : at[l] \in Nat
  BY <1>1, <1>2
<1>4. ASSUME NEW j \in 1..N, NEW l \in 1..N, j # l PROVE at[j] # at[l]
  <2>1. at[j] \in Nat /\ at[l] \in Nat
    BY <1>3
  <2>2. CASE (j <= m) <=> (l <= m)
    <3>1. j < l \/ l < j
      BY <1>4
    <3>2. j < l => at[j] < at[l]
      BY <1>1, <2>2
    <3>3. l < j => at[l] < at[j]
      BY <1>1, <2>2
    <3> QED
      BY <2>1, <3>1, <3>2, <3>3
  <2>3. CASE ~((j <= m) <=> (l <= m))
    BY <1>1, <2>3
  <2> QED
    BY <2>2, <2>3
<1> QED
  BY <1>1, <1>2, <1>3, <1>4

\* In the lines it still is: the tables are written in their order.
LEMMA SettledLines ==
  ASSUME NEW full \in Seq(Bares), \A i \in 1..Len(full) : Settled(full, i),
         NEW lines \in Seq(Bares), NEW m, NEW at, Placed(full, lines, m, at),
         NEW k \in 1..Len(lines), ~IsTable(lines[k])
  PROVE  Header(lines, k) = lines[k].table
<1> DEFINE N == Len(lines)
           i == at[k]
<1>1. /\ m \in Nat /\ N \in Nat
      /\ \A l \in 1..N : /\ at[l] \in 1..Len(full) /\ lines[l] = full[at[l]]
                         /\ l <= m <=> Top(full[at[l]])
      /\ \A j, l \in 1..N : j < l /\ (j <= m => l <= m) => at[j] < at[l]
      /\ \A o \in 1..Len(full) : \E l \in 1..N : at[l] = o
  <2>1. N \in Nat
    OBVIOUS
  <2> QED
    BY <2>1, PlacedFacts
<1>2. i \in 1..Len(full) /\ lines[k] = full[i] /\ k \in Nat /\ i \in Nat
  BY <1>1
<1>3. CASE k <= m
  <2>1. \A j \in 1..k : j \in 1..N /\ j <= m
    BY <1>1, <1>3
  <2>2. NoHeader(lines, k)
    BY <1>1, <2>1 DEF NoHeader, Top
  <2>3. full[i].table = <<>>
    BY <1>1, <1>3 DEF Top
  <2> QED
    BY <1>2, <2>2, <2>3, NoHeaderAbove
<1>4. CASE ~(k <= m)
  <2>1. ~Top(full[i])
    BY <1>1, <1>4
  <2>2. PICK o : UnderHeader(full, i, o) /\ Path(full[o]) = full[i].table
    BY <1>2, <2>1 DEF Settled, Top
  <2>3. /\ o \in 1..i /\ IsTable(full[o])
        /\ \A j \in 1..i : IsTable(full[j]) => j <= o
    BY <2>2 DEF UnderHeader
  <2>4. o \in 1..Len(full) /\ o \in Nat
    BY <1>2, <2>3
  <2>5. PICK l \in 1..N : at[l] = o
    BY <1>1, <2>4
  <2>6. lines[l] = full[o] /\ ~(l <= m)
    BY <1>1, <2>3, <2>5 DEF Top
  <2>7. l \in Nat /\ l # k
    BY <1>2, <2>3, <2>6
  <2>8. l < k
    <3>1. k < l => i < o
      BY <1>1, <1>4, <2>5
    <3>2. ~(i < o)
      BY <1>2, <2>3
    <3> QED
      BY <1>2, <2>7, <3>1, <3>2
  <2>9. ASSUME NEW j \in 1..k, IsTable(lines[j]) PROVE j <= l
    <3>1. j \in 1..N /\ j \in Nat
      BY <1>1
    <3>2. lines[j] = full[at[j]] /\ ~(j <= m) /\ at[j] \in Nat
      BY <1>1, <2>9, <3>1 DEF Top
    <3>3. j < k
      BY <1>2, <2>9
    <3>4. at[j] < i
      BY <1>1, <3>1, <3>2, <3>3
    <3>5. at[j] \in 1..i /\ IsTable(full[at[j]])
      BY <1>1, <1>2, <2>9, <3>1, <3>2, <3>4
    <3>6. at[j] <= o
      BY <2>3, <3>5
    <3>7. l < j => o < at[j]
      BY <1>1, <2>5, <2>6, <3>1
    <3> QED
      BY <2>4, <2>7, <3>1, <3>2, <3>6, <3>7
  <2>10. UnderHeader(lines, k, l)
    BY <1>2, <2>3, <2>6, <2>7, <2>8, <2>9 DEF UnderHeader
  <2>11. Header(lines, k) = Path(lines[l])
    BY <1>2, <2>10, HeaderAbove
  <2> QED
    BY <1>2, <2>2, <2>6, <2>11
<1> QED
  BY <1>3, <1>4

\* A plain document is one with the address or another one, too.
LEMMA PlainWithMac ==
  ASSUME NEW doc, NEW a \in Values, Plain(doc)
  PROVE  LET full == WithMac(doc, a)
         IN  /\ doc \in Seq(Bares) /\ full \in Seq(Bares) /\ ~Duplicates(full)
             /\ \A i \in 1..Len(full) :
                  /\ Settled(full, i)
                  /\ WrittenType(full[i].type) = full[i].type
                  /\ full[i].type # "invalid"
             /\ {s \in ToSet(full) : ~IsMac(s)} = {s \in ToSet(doc) : ~IsMac(s)}
<1> DEFINE full == WithMac(doc, a)
           n    == Len(doc)
           N    == Len(full)
           kept == {"str", "digits", "bool", "int", "float", "table"}
<1>1. doc \in Seq(Bares)
  BY BareEntries DEF Plain
<1>2. /\ n \in Nat /\ DOMAIN doc = 1..n
      /\ \A i \in 1..n : doc[i] \in Bares
  BY <1>1, ElementOfSeq
<1>3. \A i \in 1..n : /\ doc[i].type \in kept
                      /\ \/ doc[i].table = <<>> \/ IsTable(doc[i])
                         \/ doc[i].table = Header(doc, i)
  BY <1>2 DEF Plain
<1>4. \A i, j \in 1..n : i # j => Path(doc[i]) # Path(doc[j])
  BY <1>2 DEF Plain, Document, Duplicates
<1>5. \A i \in 1..n : IsMac(doc[i]) => ~IsTable(doc[i])
  <2>1. \A i \in 1..n : doc[i] \in ToSet(doc)
    BY <1>2 DEF ToSet
  <2> QED
    BY <2>1 DEF Plain, Document
<1>6. \A s : IsMac(s) <=> s.table = <<>> /\ s.key = "flipper_mac"
  BY DEF IsMac
<1> DEFINE M == Mac(a)
<1>7. /\ M \in Bares /\ IsMac(M) /\ M.table = <<>> /\ M.key = "flipper_mac"
      /\ M.type = "str" /\ ~IsTable(M)
  BY MacEntry
<1>8. /\ full \in Seq(Bares)
      /\ \/ /\ N = n
            /\ \A i \in 1..n : full[i] = IF IsMac(doc[i]) THEN M ELSE doc[i]
         \/ /\ N = n + 1
            /\ \A i \in 1..n : full[i] = doc[i]
            /\ full[n + 1] = M
            /\ \A i \in 1..n : ~IsMac(doc[i])
  BY <1>1, WithMacCases
<1> HIDE DEF full, M
<1>9. /\ N \in Nat /\ DOMAIN full = 1..N /\ n \in 0..N
      /\ \A i \in 1..N : full[i] \in Bares
      /\ \A i \in 1..N : i \in 1..n \/ (N = n + 1 /\ i = n + 1)
      /\ \A i \in 1..n : i \in 1..N
  BY <1>2, <1>8, ElementOfSeq
<1>10. N = n + 1 => N # n
  <2>1. \A k \in Nat : k + 1 # k
    OBVIOUS
  <2> HIDE DEF n, N
  <2> QED
    BY <1>2, <2>1
<1>11. N = n + 1 => full[n + 1] = M
  BY <1>8, <1>10
<1>12. ASSUME NEW i \in 1..n
       PROVE  /\ full[i] = doc[i] \/ (full[i] = M /\ IsMac(doc[i]))
              /\ full[i].table = doc[i].table /\ full[i].key = doc[i].key
              /\ IsTable(full[i]) <=> IsTable(doc[i])
  <2>1. full[i] = doc[i] \/ (full[i] = M /\ IsMac(doc[i]))
    BY <1>8
  <2> QED
    BY <1>5, <1>6, <1>7, <2>1
<1>13. ASSUME NEW i \in 1..N
       PROVE  Settled(full, i) /\ full[i].type \in kept
  <2>1. CASE full[i] = M
    BY <1>7, <2>1 DEF Settled
  <2>2. CASE full[i] # M
    <3>1. i \in 1..n
      BY <1>9, <1>11, <2>2
    <3>2. full[i] = doc[i]
      BY <1>12, <2>2, <3>1
    <3>3. CASE doc[i].table = <<>> \/ IsTable(doc[i])
      BY <1>3, <3>1, <3>2, <3>3 DEF Settled
    <3>4. CASE doc[i].table # <<>> /\ doc[i].table = Header(doc, i)
      <4>1. i \in Nat /\ \A j \in 1..i : j \in 1..n
        BY <1>2, <3>1
      <4>2. ~NoHeader(doc, i)
        BY <3>4, <4>1, NoHeaderAbove
      <4>3. PICK o : UnderHeader(doc, i, o)
        BY <4>1, <4>2, HeaderCases
      <4>4. Header(doc, i) = Path(doc[o])
        BY <4>1, <4>3, HeaderAbove
      <4>5. UnderHeader(full, i, o) /\ o \in 1..n
        BY <1>12, <4>1, <4>3 DEF UnderHeader
      <4>6. Path(full[o]) = Path(doc[o])
        BY <1>12, <4>5 DEF Path
      <4> QED
        BY <1>3, <3>1, <3>2, <3>4, <4>4, <4>5, <4>6 DEF Settled
    <3> QED
      BY <1>3, <3>1, <3>3, <3>4
  <2> QED
    BY <2>1, <2>2
<1>14. \A type \in kept : WrittenType(type) = type /\ type # "invalid"
  BY DEF WrittenType
<1>15. ASSUME NEW i \in 1..N, NEW j \in 1..N, i # j
       PROVE  Path(full[i]) # Path(full[j])
  <2>1. \A k \in 1..n : Path(full[k]) = Path(doc[k])
    BY <1>12 DEF Path
  <2>2. ASSUME NEW k \in 1..n, N = n + 1
        PROVE  Path(full[k]) # Path(M)
    <3>1. full[k] = doc[k] /\ ~IsMac(doc[k])
      BY <1>8, <1>10, <2>2
    <3>2. doc[k].table # M.table \/ doc[k].key # M.key
      BY <1>6, <1>7, <3>1
    <3>3. /\ doc[k].table \in Seq(BareKeys) /\ doc[k].key \in BareKeys
          /\ M.table \in Seq(BareKeys) /\ M.key \in BareKeys
      <4>1. doc[k] \in Bares
        BY <1>2
      <4> HIDE DEF Bares, BareKeys
      <4> QED
        BY <1>7, <4>1, BareEntries
    <3>4. \A t, u \in Seq(BareKeys), v, w \in BareKeys :
            Append(t, v) = Append(u, w) => t = u /\ v = w
      <4> HIDE DEF BareKeys
      <4> QED
        BY AppendInjective
    <3> HIDE DEF BareKeys, Bares
    <3>5. Append(doc[k].table, doc[k].key) # Append(M.table, M.key)
      <4> DEFINE t == doc[k].table
                 v == doc[k].key
                 u == M.table
                 w == M.key
      <4>1. /\ t \in Seq(BareKeys) /\ v \in BareKeys
            /\ u \in Seq(BareKeys) /\ w \in BareKeys
            /\ t # u \/ v # w
        BY <3>2, <3>3
      <4> HIDE DEF t, u, v, w
      <4>2. Append(t, v) # Append(u, w)
        BY <3>4, <4>1
      <4> QED
        BY <4>2 DEF t, u, v, w
    <3> QED
      BY <3>1, <3>5 DEF Path
  <2>3. CASE i \in 1..n /\ j \in 1..n
    BY <1>4, <1>15, <2>1, <2>3
  <2>4. CASE i \in 1..n /\ N = n + 1 /\ j = n + 1
    BY <1>11, <2>2, <2>4
  <2>5. CASE j \in 1..n /\ N = n + 1 /\ i = n + 1
    BY <1>11, <2>2, <2>5
  <2> QED
    BY <1>9, <1>15, <2>3, <2>4, <2>5
<1>16. ~Duplicates(full)
  BY <1>9, <1>15 DEF Duplicates
<1>17. \A s : ~IsMac(s) => (s \in ToSet(full) <=> s \in ToSet(doc))
  <2> SUFFICES ASSUME NEW s, ~IsMac(s) PROVE s \in ToSet(full) <=> s \in ToSet(doc)
    OBVIOUS
  <2>1. s \in ToSet(full) <=> \E i \in 1..N : s = full[i]
    BY <1>9 DEF ToSet
  <2>2. s \in ToSet(doc) <=> \E i \in 1..n : s = doc[i]
    BY <1>2 DEF ToSet
  <2>3. ASSUME NEW i \in 1..N, s = full[i] PROVE \E j \in 1..n : s = doc[j]
    <3>1. full[i] # M
      BY <1>7, <2>3
    <3>2. i \in 1..n
      BY <1>9, <1>11, <3>1
    <3>3. full[i] = doc[i]
      BY <1>12, <3>1, <3>2
    <3> QED
      BY <2>3, <3>2, <3>3
  <2>4. ASSUME NEW i \in 1..n, s = doc[i] PROVE \E j \in 1..N : s = full[j]
    <3>1. full[i] = doc[i]
      BY <1>12, <2>4
    <3> QED
      BY <1>9, <2>4, <3>1
  <2> QED
    BY <2>1, <2>2, <2>3, <2>4
<1>18. {s \in ToSet(full) : ~IsMac(s)} = {s \in ToSet(doc) : ~IsMac(s)}
  BY <1>17
<1>19. \A i \in 1..N : /\ Settled(full, i)
                       /\ WrittenType(full[i].type) = full[i].type
                       /\ full[i].type # "invalid"
  <2> HIDE DEF kept
  <2> QED
    BY <1>13, <1>14
<1> QED
  BY <1>1, <1>8, <1>16, <1>18, <1>19 DEF full

\* Saving a plain document keeps its settings.
LEMMA PlainSaved ==
  ASSUME NEW doc, NEW a \in Values, Plain(doc)
  PROVE  LET new == SaveMac(doc, a)
         IN  /\ Loadable(new) /\ Mac(a) \in ToSet(new.doc)
             /\ {s \in ToSet(new.doc) : ~IsMac(s)} = {s \in ToSet(doc) : ~IsMac(s)}
<1> DEFINE full  == WithMac(doc, a)
           lines == LinesOf(full)
           new   == SaveMac(doc, a)
           N     == Len(lines)
<1>1. /\ doc \in Seq(Bares) /\ full \in Seq(Bares) /\ ~Duplicates(full)
      /\ \A i \in 1..Len(full) :
           /\ Settled(full, i)
           /\ WrittenType(full[i].type) = full[i].type
           /\ full[i].type # "invalid"
      /\ {s \in ToSet(full) : ~IsMac(s)} = {s \in ToSet(doc) : ~IsMac(s)}
  BY PlainWithMac
<1>2. /\ lines \in Seq(Bares)
      /\ \E m, at : Placed(full, lines, m, at)
      /\ Loadable(new) <=> Written(lines) /\ ~Duplicates(InOrder(lines))
      /\ Loadable(new) => new.doc = InOrder(lines)
  BY <1>1, Saved
<1> HIDE DEF lines, new
<1>3. PICK m, at : Placed(full, lines, m, at)
  BY <1>2
<1>4. Written(lines) => \E k \in 1..N : InOrder(lines)[k] = Mac(a)
  BY <1>1, <1>2, <1>3, MacRead
<1> HIDE DEF full
<1>5. /\ N \in Nat /\ DOMAIN lines = 1..N /\ DOMAIN full = 1..Len(full)
      /\ \A k \in 1..N : at[k] \in 1..Len(full) /\ lines[k] = full[at[k]]
      /\ \A i \in 1..Len(full) : \E k \in 1..N : at[k] = i
      /\ \A j, k \in 1..N : j # k => at[j] # at[k]
  <2>1. lines \in Seq(Bares) /\ full \in Seq(Bares)
    BY <1>1, <1>2
  <2>2. N \in Nat /\ DOMAIN lines = 1..N /\ DOMAIN full = 1..Len(full)
    BY <2>1, LenProperties
  <2>3. Len(lines) = N
    OBVIOUS
  <2> HIDE DEF N
  <2>4. \A k \in 1..N : at[k] \in 1..Len(full)
    BY <1>3, <2>2, <2>3, PlacedFacts
  <2>5. \A k \in 1..N : lines[k] = full[at[k]]
    BY <1>3, <2>2, <2>3, PlacedFacts
  <2>6. \A k \in 1..N : at[k] \in 1..Len(full) /\ lines[k] = full[at[k]]
    BY <2>4, <2>5
  <2>7. \A j, k \in 1..N : j # k => at[j] # at[k]
    BY <1>3, <2>2, <2>3, PlacedFacts
  <2>8. \A i \in 1..Len(full) : \E k \in 1..N : at[k] = i
    BY <1>3, <2>2, <2>3, PlacedFacts
  <2> QED
    BY <2>2, <2>6, <2>7, <2>8
<1>6. ASSUME NEW k \in 1..N
      PROVE  /\ WrittenType(lines[k].type) = lines[k].type
             /\ WrittenType(lines[k].type) # "invalid"
  <2>1. \A i \in 1..Len(full) : /\ WrittenType(full[i].type) = full[i].type
                               /\ WrittenType(full[i].type) # "invalid"
    BY <1>1
  <2>2. at[k] \in 1..Len(full) /\ lines[k] = full[at[k]]
    BY <1>5
  <2> QED
    BY <2>1, <2>2
<1>7. Written(lines)
  <2>1. \A s \in ToSet(lines) : \E k \in 1..N : s = lines[k]
    BY <1>5 DEF ToSet
  <2> QED
    BY <1>6, <2>1 DEF Written
<1>8. InOrder(lines) = lines
  <2> DEFINE read == InOrder(lines)
  <2>1. /\ read \in Seq(Bares) /\ Len(read) = N
        /\ \A k \in 1..N :
             /\ IsTable(lines[k]) => read[k] = lines[k]
             /\ ~IsTable(lines[k]) =>
                  read[k] = Entry(Header(lines, k), lines[k].key,
                                  WrittenType(lines[k].type), lines[k].val)
    BY <1>2, <1>7, InOrderEntries
  <2> HIDE DEF read
  <2>2. ASSUME NEW k \in 1..N PROVE read[k] = lines[k]
    <3>1. CASE IsTable(lines[k])
      BY <2>1, <3>1
    <3>2. CASE ~IsTable(lines[k])
      <4>1. Header(lines, k) = lines[k].table
        BY <1>1, <1>2, <1>3, <3>2, SettledLines
      <4>2. WrittenType(lines[k].type) = lines[k].type
        BY <1>6
      <4>3. Entry(lines[k].table, lines[k].key, lines[k].type, lines[k].val) = lines[k]
        <5>1. lines[k] \in Bares
          BY <1>2, ElementOfSeq
        <5> QED
          BY <5>1, BareEntries
      <4>4. read[k] = Entry(Header(lines, k), lines[k].key,
                            WrittenType(lines[k].type), lines[k].val)
        BY <2>1, <3>2
      <4> QED
        BY <4>1, <4>2, <4>3, <4>4
    <3> QED
      BY <3>1, <3>2
  <2>3. read = lines
    BY <1>2, <2>1, <2>2, SeqEqual
  <2> QED
    BY <2>3 DEF read
<1>9. ~Duplicates(lines)
  <2> SUFFICES ASSUME NEW j \in 1..N, NEW k \in 1..N, j # k,
                      Path(lines[j]) = Path(lines[k])
               PROVE  FALSE
    BY <1>5 DEF Duplicates
  <2>1. at[j] # at[k]
    BY <1>5
  <2>2. /\ at[j] \in DOMAIN full /\ at[k] \in DOMAIN full
        /\ Path(full[at[j]]) = Path(full[at[k]])
    BY <1>5
  <2> QED
    BY <1>1, <2>1, <2>2 DEF Duplicates
<1>10. Loadable(new) /\ new.doc = lines
  BY <1>2, <1>7, <1>8, <1>9
<1>11. ToSet(lines) = ToSet(full)
  <2>1. \A s : s \in ToSet(lines) <=> \E k \in 1..N : s = lines[k]
    BY <1>5 DEF ToSet
  <2>2. \A s : s \in ToSet(full) <=> \E i \in 1..Len(full) : s = full[i]
    BY <1>5 DEF ToSet
  <2>3. ASSUME NEW k \in 1..N PROVE lines[k] \in ToSet(full)
    BY <1>5, <2>2
  <2>4. ASSUME NEW i \in 1..Len(full) PROVE full[i] \in ToSet(lines)
    <3>1. PICK k \in 1..N : at[k] = i
      BY <1>5
    <3>2. full[i] = lines[k]
      BY <1>5, <3>1
    <3> QED
      BY <2>1, <3>2
  <2>5. \A s : s \in ToSet(lines) <=> s \in ToSet(full)
    BY <2>1, <2>2, <2>3, <2>4
  <2> QED
    BY <2>5
<1>12. Mac(a) \in ToSet(new.doc)
  <2>1. PICK k \in 1..N : lines[k] = Mac(a)
    BY <1>4, <1>7, <1>8
  <2> QED
    BY <1>5, <1>10, <2>1 DEF ToSet
<1> QED
  BY <1>1, <1>10, <1>11, <1>12 DEF new

\* Whatever number pair is given that picks a device at all, it is one.
LEMMA PickedValue ==
  ASSUME NEW raw \in -(Len(Devices) + 1)..(Len(Devices) + 1), Picks(raw)
  PROVE  Picked(raw) \in Values /\ Picked(raw) # ""
<1> DEFINE S == Values \ {""}
           n == Len(Devices)
           i == IF raw >= 1 THEN raw ELSE n + raw
<1>1. Devices \in Seq(S)
  BY ConfigAssumption DEF ConfigAssumption
<1>2. i \in 1..n
  <2> HIDE DEF S
  <2>1. n \in Nat
    BY <1>1, LenProperties
  <2>2. raw - 1 \in -n..n - 1 /\ raw \in Int
    BY <2>1 DEF Picks
  <2> HIDE DEF n
  <2> QED
    BY <2>1, <2>2
<1> HIDE DEF i
<1>3. Devices[i] \in S
  <2> HIDE DEF S
  <2> QED
    BY <1>1, <1>2, ElementOfSeq
<1> QED
  BY <1>3 DEF Picked, i

\* Pairing with the same device again changes nothing, whatever a configuration
\* with bare keys says and in whatever order: what save_mac writes of it and
\* tomllib reads, it writes in the same way (save_mac and _render_table of
\* config.py).
THEOREM PairingTwice == Spec => []PairTwice
<1>1. PairTwice
  <2> SUFFICES ASSUME NEW a \in ToSet(Devices), Bare(config.doc),
                      Loadable(SaveMac(config.doc, a))
               PROVE  SaveMac(SaveMac(config.doc, a).doc, a) = SaveMac(config.doc, a)
    BY DEF PairTwice
  <2>1. a \in Values
    <3> DEFINE S == Values \ {""}
    <3>1. Devices \in Seq(S)
      BY ConfigAssumption DEF ConfigAssumption
    <3>2. a \in S
      <4> HIDE DEF S
      <4> QED
        BY <3>1, ElementOfSeq DEF ToSet
    <3> QED
      BY <3>2
  <2>2. config.doc \in Seq(Bares)
    BY BareEntries
  <2> QED
    BY <2>1, <2>2, SavedAgain
<1> QED
  BY <1>1, PTL

\* Pairing keeps every other setting, its type and its table in a configuration
\* of bare keys, strings without control characters, Booleans and numbers, each
\* setting below the header of its table, and the file it makes loads again
\* (save_mac of config.py).
THEOREM PairingKeeps == Spec => PairKeepsSettings
<1>1. ASSUME [Next]_vars
      PROVE  [\A new \in ToSet(writing') :
                writing = <<>> /\ Plain(config.doc) =>
                  /\ Loadable(new)
                  /\ HasMac(new)
                  /\ {s \in ToSet(new.doc) : ~IsMac(s)}
                       = {s \in ToSet(config.doc) : ~IsMac(s)}]_configVars
  <2> SUFFICES ASSUME NEW new \in ToSet(writing'), writing = <<>>, Plain(config.doc)
               PROVE  /\ Loadable(new)
                      /\ HasMac(new)
                      /\ {s \in ToSet(new.doc) : ~IsMac(s)}
                           = {s \in ToSet(config.doc) : ~IsMac(s)}
    OBVIOUS
  <2>1. ToSet(<<>>) = {}
    BY DEF ToSet
  <2>2. writing' # <<>>
    BY <2>1
  <2>3. PICK raw \in -(Len(Devices) + 1)..(Len(Devices) + 1) : Pair(raw)
    BY <1>1, <2>2
       DEF Next, ServeConfigured, ConnectConfigured, ConfigNext, PairWrites,
           PairDies, Edit, vars, configVars
  <2> DEFINE saved == SaveMac(config.doc, Picked(raw))
  <2>4. Picked(raw) \in Values /\ Picked(raw) # ""
    BY <2>3, PickedValue DEF Pair
  <2>5. new = saved
    <3>1. writing' = <<saved>>
      BY <2>3 DEF Pair
    <3> HIDE DEF saved
    <3>2. ToSet(<<saved>>) = {saved}
      BY DEF ToSet
    <3> QED
      BY <3>1, <3>2
  <2>6. /\ Loadable(new) /\ Mac(Picked(raw)) \in ToSet(new.doc)
        /\ {s \in ToSet(new.doc) : ~IsMac(s)} = {s \in ToSet(config.doc) : ~IsMac(s)}
    BY <2>4, <2>5, PlainSaved
  <2>7. IsMac(Mac(Picked(raw))) /\ Mac(Picked(raw)).val # ""
    BY <2>4, MacEntry
  <2>8. HasMac(new)
    BY <2>6, <2>7 DEF HasMac
  <2> QED
    BY <2>6, <2>8
<1> QED
  BY <1>1, PTL DEF PairKeepsSettings, Spec
=============================================================================
