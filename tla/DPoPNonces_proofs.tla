------------------------- MODULE DPoPNonces_proofs --------------------------
(***************************************************************************)
(* Theorems about DPoPNonces for any processes, requests and windows.      *)
(*                                                                         *)
(* A process opens windows in order, and a call of generate_nonces pushes  *)
(* at most one.  So a process that handed a nonce out, and was not         *)
(* restarted since, has that nonce's window in front, or two windows that  *)
(* are no older (Recent).  Once the nonce's own window is dropped, the     *)
(* second of those began when it ended or later, and the first at least a  *)
(* window after that.                                                      *)
(***************************************************************************)
EXTENDS DPoPNonces, SequenceTheorems, TLAPS

-----------------------------------------------------------------------------
(* Windows. *)

LEMMA WindowBounds ==
    ASSUME NEW t \in Nat
    PROVE  WindowAt(t) \in Nat /\ WindowAt(t) <= t /\ t < WindowAt(t) + Window
BY NonceAssumption, Z3T(30) DEF WindowAt

\* Two different windows are at least the length of a window apart.
LEMMA WindowSteps ==
    ASSUME NEW t \in Nat, NEW u \in Nat, WindowAt(t) < WindowAt(u)
    PROVE  WindowAt(t) + Window <= WindowAt(u)
<1>. DEFINE p == t \div Window
            q == u \div Window
<1>1. p \in Nat /\ q \in Nat
  BY NonceAssumption, Z3T(30)
<1>2. p < q
  <2>1. ASSUME q <= p PROVE FALSE
    <3>1. PICK k \in Nat : p = q + k
      <4>1. p - q \in Nat /\ p = q + (p - q)
        BY <1>1, <2>1
      <4>. QED BY <4>1
    <3>2. p * Window = q * Window + k * Window /\ k * Window \in Nat /\ q * Window \in Nat
      BY <1>1, <3>1, NonceAssumption, Z3T(30)
    <3>. QED BY <3>2 DEF WindowAt
  <2>. QED BY <1>1, <2>1
<1>3. PICK k \in Nat : q = p + 1 + k
  <2>1. q - p - 1 \in Nat /\ q = p + 1 + (q - p - 1)
    BY <1>1, <1>2
  <2>. QED BY <2>1
<1>4. q * Window = p * Window + Window + k * Window
  BY <1>1, <1>3, NonceAssumption, Z3T(30)
<1>5. k * Window \in Nat /\ p * Window \in Nat
  BY <1>1, <1>3, NonceAssumption, Z3T(30)
<1>. QED BY <1>4, <1>5, NonceAssumption DEF WindowAt

LEMMA WindowMonotonic ==
    ASSUME NEW t \in Nat, NEW u \in Nat, t <= u
    PROVE  WindowAt(t) <= WindowAt(u)
<1>1. WindowAt(t) \in Nat /\ WindowAt(t) <= t
  BY WindowBounds
<1>2. WindowAt(u) \in Nat /\ u < WindowAt(u) + Window
  BY WindowBounds
<1>3. WindowAt(u) < WindowAt(t) => WindowAt(u) + Window <= WindowAt(t)
  BY WindowSteps
<1>. QED BY <1>1, <1>2, <1>3, NonceAssumption

-----------------------------------------------------------------------------
(* What a process keeps. *)

Past(t) == {WindowAt(u) : u \in 0..t}

Ordered(v, t) ==
    /\ v \in Seq(Past(t))
    /\ Len(v) \in 1..Count
    /\ \A i, j \in 1..Len(v) : i < j => v[j] < v[i]

LEMMA PastWindows ==
    ASSUME NEW t \in Nat, NEW w \in Past(t)
    PROVE  w \in Nat /\ w <= WindowAt(t)
<1>1. PICK u \in 0..t : w = WindowAt(u)
  BY DEF Past
<1>2. WindowAt(u) \in Nat
  BY WindowBounds
<1>3. WindowAt(u) <= WindowAt(t)
  BY WindowMonotonic
<1>. QED BY <1>1, <1>2, <1>3

LEMMA OrderedElements ==
    ASSUME NEW t \in Nat, NEW v, Ordered(v, t)
    PROVE  /\ Len(v) \in Nat /\ Len(v) >= 1 /\ Len(v) <= Count
           /\ \A i \in 1..Len(v) : v[i] \in Past(t) /\ v[i] \in Nat /\ v[i] <= WindowAt(t)
<1>1. \A i \in 1..Len(v) : v[i] \in Past(t)
  BY ElementOfSeq DEF Ordered
<1>. QED BY <1>1, PastWindows, NonceAssumption DEF Ordered

\* A list that gets a newer window in front, cut to Count entries.
Pushed(v, w) ==
    LET all == <<w>> \o v
    IN  SubSeq(all, 1, IF Len(all) > Count THEN Count ELSE Len(all))

LEMMA PushedElements ==
    ASSUME NEW t \in Nat, NEW v, Ordered(v, t)
    PROVE  LET g == Pushed(v, WindowAt(t))
           IN  /\ g \in Seq(Past(t))
               /\ Len(g) = (IF Len(v) + 1 > Count THEN Count ELSE Len(v) + 1)
               /\ \A i \in 1..Len(g) : g[i] = (IF i = 1 THEN WindowAt(t) ELSE v[i - 1])
<1>. DEFINE all == <<WindowAt(t)>> \o v
            n == IF Len(all) > Count THEN Count ELSE Len(all)
<1>1. <<WindowAt(t)>> \in Seq(Past(t)) /\ Len(<<WindowAt(t)>>) = 1
      /\ <<WindowAt(t)>>[1] = WindowAt(t)
  BY DEF Past
<1>2. v \in Seq(Past(t)) /\ Len(v) \in Nat
  BY OrderedElements DEF Ordered
<1>3. /\ Len(all) = 1 + Len(v)
      /\ all \in Seq(Past(t))
      /\ \A i \in 1..(1 + Len(v)) :
            all[i] = IF i <= 1 THEN <<WindowAt(t)>>[i] ELSE v[i - 1]
  BY <1>1, <1>2, ConcatProperties
<1>4. n \in Nat /\ n <= Len(all) /\ n = (IF Len(v) + 1 > Count THEN Count ELSE Len(v) + 1)
      /\ n >= 1
  BY <1>2, <1>3, NonceAssumption
<1>5. \A i \in 1..n : all[i] \in Past(t)
  BY <1>2, <1>3, <1>4, ElementOfSeq
<1>6. /\ SubSeq(all, 1, n) \in Seq(Past(t))
      /\ Len(SubSeq(all, 1, n)) = (IF 1 <= n THEN n - 1 + 1 ELSE 0)
      /\ \A i \in 1..(n - 1 + 1) : SubSeq(all, 1, n)[i] = all[1 + i - 1]
  <2>. HIDE DEF all, n
  <2>. QED BY <1>4, <1>5, SubSeqProperties
<1>7. Pushed(v, WindowAt(t)) = SubSeq(all, 1, n)
  BY DEF Pushed
<1>. HIDE DEF all, n
<1>8. Len(SubSeq(all, 1, n)) = n
  BY <1>4, <1>6
<1>9. ASSUME NEW i \in 1..n
      PROVE SubSeq(all, 1, n)[i] = (IF i = 1 THEN WindowAt(t) ELSE v[i - 1])
  <2>1. SubSeq(all, 1, n)[i] = all[i]
    BY <1>4, <1>6
  <2>2. i \in 1..(1 + Len(v))
    BY <1>2, <1>3, <1>4
  <2>3. all[i] = IF i <= 1 THEN <<WindowAt(t)>>[i] ELSE v[i - 1]
    BY <1>3, <2>2
  <2>4. CASE i = 1
    <3>1. all[i] = <<WindowAt(t)>>[1]
      BY <2>3, <2>4
    <3>. QED BY <1>1, <2>1, <2>4, <3>1
  <2>5. CASE i # 1
    <3>1. ~(i <= 1)
      BY <1>2, <2>2, <2>5
    <3>. QED BY <2>1, <2>3, <2>5, <3>1
  <2>. QED BY <2>4, <2>5
<1>. QED BY <1>4, <1>6, <1>7, <1>8, <1>9

LEMMA PushedOrdered ==
    ASSUME NEW t \in Nat, NEW v, Ordered(v, t), v[1] + Window <= t
    PROVE  /\ Ordered(Pushed(v, WindowAt(t)), t)
           /\ Pushed(v, WindowAt(t))[1] = WindowAt(t)
           /\ Count >= 2 => /\ Len(Pushed(v, WindowAt(t))) >= 2
                            /\ Pushed(v, WindowAt(t))[2] = v[1]
<1>. DEFINE g == Pushed(v, WindowAt(t))
<1>1. /\ g \in Seq(Past(t))
      /\ Len(g) = (IF Len(v) + 1 > Count THEN Count ELSE Len(v) + 1)
      /\ \A i \in 1..Len(g) : g[i] = (IF i = 1 THEN WindowAt(t) ELSE v[i - 1])
  BY PushedElements
<1>. HIDE DEF g
<1>2. /\ Len(v) \in Nat /\ Len(v) >= 1 /\ Len(v) <= Count
      /\ \A i \in 1..Len(v) : v[i] \in Nat
  BY OrderedElements
<1>3. v[1] < WindowAt(t)
  <2>1. WindowAt(t) \in Nat /\ t < WindowAt(t) + Window
    BY WindowBounds
  <2>. QED BY <1>2, <2>1, NonceAssumption
<1>4. Len(g) \in 1..Count /\ Len(g) <= Len(v) + 1
  BY <1>1, <1>2, NonceAssumption
<1>5. ASSUME NEW i \in 1..Len(g), NEW j \in 1..Len(g), i < j
      PROVE  g[j] < g[i]
  <2>1. j - 1 \in 1..Len(v) /\ g[j] = v[j - 1]
    BY <1>1, <1>2, <1>4, <1>5, NonceAssumption
  <2>2. v[j - 1] <= v[1]
    BY <1>2, <2>1 DEF Ordered
  <2>3. CASE i = 1
    <3>1. g[i] = WindowAt(t)
      BY <1>1, <2>3
    <3>2. WindowAt(t) \in Nat
      BY WindowBounds
    <3>. QED BY <1>2, <1>3, <2>1, <2>2, <3>1, <3>2
  <2>4. CASE i # 1
    <3>1. i - 1 \in 1..Len(v) /\ i - 1 < j - 1 /\ g[i] = v[i - 1]
      BY <1>1, <1>2, <1>4, <1>5, <2>4, NonceAssumption
    <3>. QED BY <2>1, <3>1 DEF Ordered
  <2>. QED BY <2>3, <2>4
<1>6. g[1] = WindowAt(t)
  BY <1>1, <1>4
<1>7. Count >= 2 => Len(g) >= 2 /\ g[2] = v[1]
  <2>1. ASSUME Count >= 2 PROVE Len(g) >= 2
    BY <1>1, <1>2, <2>1, NonceAssumption
  <2>2. ASSUME Count >= 2 PROVE 2 \in 1..Len(g)
    BY <1>4, <2>1, <2>2, NonceAssumption
  <2>. QED BY <1>1, <2>1, <2>2
<1>. QED BY <1>1, <1>4, <1>5, <1>6, <1>7 DEF Ordered, g

LEMMA GeneratedIs ==
    ASSUME NEW s \in Server
    PROVE  Generated(s) = IF now < values[s][1] + Window THEN values[s]
                          ELSE Pushed(values[s], WindowAt(now))
BY DEF Generated, Pushed
-----------------------------------------------------------------------------
(* What a call of generate_nonces leaves, and what it does to the windows   *)
(* that are kept.                                                           *)

\* The window w is in front, or two windows are that are no older.
Recent(w, v) == v[1] = w \/ (Len(v) >= 2 /\ w <= v[2])

LEMMA GeneratedOrdered ==
    ASSUME now \in Nat, NEW s \in Server, Ordered(values[s], now)
    PROVE  Ordered(Generated(s), now) /\ Generated(s)[1] = WindowAt(now)
<1>1. CASE now < values[s][1] + Window
  <2>1. values[s][1] \in Past(now) /\ values[s][1] \in Nat /\ values[s][1] <= WindowAt(now)
    BY OrderedElements
  <2>2. PICK u \in 0..now : values[s][1] = WindowAt(u)
    BY <2>1 DEF Past
  <2>3. WindowAt(u) < WindowAt(now) => WindowAt(u) + Window <= WindowAt(now)
    BY WindowSteps
  <2>4. WindowAt(now) \in Nat /\ WindowAt(now) <= now
    BY WindowBounds
  <2>5. values[s][1] = WindowAt(now)
    BY <1>1, <2>1, <2>2, <2>3, <2>4, NonceAssumption
  <2>. QED BY <1>1, <2>5, GeneratedIs
<1>2. CASE ~(now < values[s][1] + Window)
  <2>1. values[s][1] \in Nat
    BY OrderedElements
  <2>2. values[s][1] + Window <= now
    BY <1>2, <2>1, NonceAssumption
  <2>. QED BY <1>2, <2>2, GeneratedIs, PushedOrdered
<1>. QED BY <1>1, <1>2

LEMMA GeneratedRecent ==
    ASSUME Count >= 2, now \in Nat, NEW s \in Server, Ordered(values[s], now),
           NEW w \in Nat, Recent(w, values[s])
    PROVE  Recent(w, Generated(s))
<1>1. CASE now < values[s][1] + Window
  BY <1>1, GeneratedIs
<1>2. CASE ~(now < values[s][1] + Window)
  <2>1. /\ Len(values[s]) \in Nat
        /\ \A i \in 1..Len(values[s]) : values[s][i] \in Nat
        /\ values[s][1] \in Nat
    BY OrderedElements
  <2>2. values[s][1] + Window <= now
    BY <1>2, <2>1, NonceAssumption
  <2>3. Len(Generated(s)) >= 2 /\ Generated(s)[2] = values[s][1]
    BY <1>2, <2>2, GeneratedIs, PushedOrdered
  <2>4. w <= values[s][1]
    <3>1. CASE Len(values[s]) >= 2 /\ w <= values[s][2]
      <4>1. 1 \in 1..Len(values[s]) /\ 2 \in 1..Len(values[s])
        BY <2>1, <3>1
      <4>2. values[s][2] < values[s][1]
        BY <4>1 DEF Ordered
      <4>. QED BY <2>1, <3>1, <4>1, <4>2
    <3>. QED BY <2>1, <3>1 DEF Recent
  <2>. QED BY <2>3, <2>4 DEF Recent
<1>. QED BY <1>1, <1>2

\* A process that still has a window Recent, but not the window itself, holds
\* two that are newer, and the clock is past the window that followed it.
LEMMA RecentGone ==
    ASSUME NEW t \in Nat, NEW v, Ordered(v, t), NEW u \in 0..t,
           Recent(WindowAt(u), v), ~Holds(v, WindowAt(u))
    PROVE  u + Window < t
<1>1. /\ Len(v) \in Nat /\ Len(v) >= 1
      /\ \A i \in 1..Len(v) : v[i] \in Past(t) /\ v[i] \in Nat /\ v[i] <= WindowAt(t)
  BY OrderedElements
<1>2. 1 \in 1..Len(v)
  BY <1>1
<1>3. v[1] # WindowAt(u)
  BY <1>2 DEF Holds
<1>4. Len(v) >= 2 /\ WindowAt(u) <= v[2]
  BY <1>3 DEF Recent
<1>5. 2 \in 1..Len(v)
  BY <1>1, <1>4
<1>6. v[2] # WindowAt(u) /\ v[2] < v[1]
  BY <1>2, <1>5 DEF Holds, Ordered
<1>7. PICK x \in 0..t, y \in 0..t : v[1] = WindowAt(x) /\ v[2] = WindowAt(y)
  BY <1>1, <1>2, <1>5 DEF Past
<1>8. WindowAt(u) \in Nat /\ u < WindowAt(u) + Window
  BY WindowBounds
<1>9. WindowAt(u) + Window <= WindowAt(y)
  BY <1>1, <1>4, <1>5, <1>6, <1>7, <1>8, WindowSteps
<1>10. WindowAt(y) + Window <= WindowAt(x)
  BY <1>6, <1>7, WindowSteps
<1>11. WindowAt(x) \in Nat /\ WindowAt(x) <= x /\ WindowAt(y) \in Nat
  BY WindowBounds
<1>. QED BY <1>7, <1>8, <1>9, <1>10, <1>11, NonceAssumption

-----------------------------------------------------------------------------
(* Type correctness. *)

\* A request that was looked at has a process.
Handled ==
    \A r \in Request : pc[r] \in {"accepted", "refused", "declined"} => handler[r] \in Server

Typed == TypeOK /\ Handled

LEMMA TypedOrdered ==
    ASSUME TypeOK, NEW s \in Server
    PROVE  now \in Nat /\ Ordered(values[s], now)
BY DEF TypeOK, Ordered, Past, Time

LEMMA GenerateTyped ==
    ASSUME TypeOK, NEW s \in Server, Generate(s), UNCHANGED now
    PROVE  /\ values' \in [Server -> Seq({WindowAt(t) : t \in 0..now'})]
           /\ \A x \in Server :
                /\ Len(values'[x]) \in 1..Count
                /\ \A i, j \in 1..Len(values'[x]) : i < j => values'[x][j] < values'[x][i]
<1>1. Ordered(Generated(s), now)
  BY TypedOrdered, GeneratedOrdered
<1>2. \A x \in Server : Ordered(values[x], now)
  BY TypedOrdered
<1>3. values' = [values EXCEPT ![s] = Generated(s)] /\ values \in [Server -> Seq(Past(now))]
  BY DEF Generate, TypeOK, Past
<1>4. \A x \in Server : Ordered(values'[x], now)
  BY <1>1, <1>2, <1>3
<1>5. values' \in [Server -> Seq(Past(now))]
  BY <1>1, <1>3 DEF Ordered
<1>. QED BY <1>4, <1>5 DEF Ordered, Past

LEMMA InitTyped == Init => Typed
<1>. SUFFICES ASSUME Init PROVE Typed
  OBVIOUS
<1>1. WindowAt(0) \in {WindowAt(t) : t \in 0..0}
  OBVIOUS
<1>2. <<WindowAt(0)>> \in Seq({WindowAt(t) : t \in 0..0})
  BY <1>1
<1>3. Len(<<WindowAt(0)>>) = 1
  OBVIOUS
<1>. QED BY <1>2, <1>3, NonceAssumption DEF Init, Typed, TypeOK, Handled, Time

LEMMA NextTyped == Typed /\ [Next]_vars => Typed'
<1>. SUFFICES ASSUME Typed, [Next]_vars PROVE Typed'
  OBVIOUS
<1>. USE NonceAssumption
<1>1. ASSUME NEW r \in Request, Send(r) PROVE Typed'
  BY <1>1 DEF Typed, TypeOK, Handled, Send
<1>2. ASSUME NEW r \in Request, NEW s \in Server, Check(r, s) PROVE Typed'
  BY <1>2, GenerateTyped DEF Typed, TypeOK, Handled, Check
<1>3. ASSUME NEW r \in Request, NEW s \in Server, Decline(r, s) PROVE Typed'
  BY <1>3, GenerateTyped DEF Typed, TypeOK, Handled, Decline
<1>4. ASSUME NEW r \in Request, Answer(r) PROVE Typed'
  <2>1. handler[r] \in Server
    BY <1>4 DEF Typed, Handled, Answer
  <2>2. Generated(handler[r])[1] = WindowAt(now)
    BY <2>1, TypedOrdered, GeneratedOrdered DEF Typed
  <2>3. [window |-> Generated(handler[r])[1], at |-> now, by |-> handler[r]] \in Nonce
    BY <2>1, <2>2 DEF Typed, TypeOK, Nonce
  <2>. QED BY <1>4, <2>1, <2>3, GenerateTyped DEF Typed, TypeOK, Handled, Answer
<1>5. ASSUME NEW r \in Request, Receive(r) PROVE Typed'
  BY <1>5 DEF Typed, TypeOK, Handled, Receive, End
<1>6. ASSUME NEW r \in Request, Lose(r) PROVE Typed'
  BY <1>6 DEF Typed, TypeOK, Handled, Lose, End
<1>7. ASSUME NEW s \in Server, Visit(s) PROVE Typed'
  BY <1>7, GenerateTyped DEF Typed, TypeOK, Handled, Visit
<1>8. ASSUME NEW s \in Server, Restart(s) PROVE Typed'
  <2>1. now \in Nat /\ WindowAt(now) \in {WindowAt(t) : t \in 0..now}
    BY DEF Typed, TypeOK, Time
  <2>2. <<WindowAt(now)>> \in Seq({WindowAt(t) : t \in 0..now}) /\ Len(<<WindowAt(now)>>) = 1
    BY <2>1
  <2>3. /\ values' = [values EXCEPT ![s] = <<WindowAt(now)>>]
        /\ started' = [started EXCEPT ![s] = now]
        /\ now' = now /\ latest' = latest
    BY <1>8 DEF Restart
  <2>4. values' \in [Server -> Seq({WindowAt(t) : t \in 0..now'})]
    BY <2>2, <2>3 DEF Typed, TypeOK
  <2>5. \A x \in Server :
          /\ Len(values'[x]) \in 1..Count
          /\ \A i, j \in 1..Len(values'[x]) : i < j => values'[x][j] < values'[x][i]
    <3>1. ASSUME NEW i \in 1..1, NEW j \in 1..1 PROVE ~(i < j)
      OBVIOUS
    <3>2. values'[s] = <<WindowAt(now)>> /\ \A x \in Server \ {s} : values'[x] = values[x]
      BY <2>3 DEF Typed, TypeOK
    <3>3. 1 \in 1..Count
      OBVIOUS
    <3>. QED BY <2>2, <3>1, <3>2, <3>3 DEF Typed, TypeOK
  <2>6. started' \in [Server -> 0..now']
    BY <2>1, <2>3 DEF Typed, TypeOK
  <2>7. End({r \in Request : handler[r] = s})
    BY <1>8 DEF Restart
  <2>8. /\ pc' \in [Request -> {"idle", "sent", "accepted", "refused", "declined", "answered"}]
        /\ handler' \in [Request -> Server \cup {None}]
        /\ nonce' \in [Request -> Nonce \cup {None}]
    BY <2>7 DEF Typed, TypeOK, End
  <2>9. Handled'
    BY <2>7 DEF Typed, TypeOK, Handled, End
  <2>10. TypeOK'
    BY <2>3, <2>4, <2>5, <2>6, <2>8 DEF Typed, TypeOK
  <2>. QED BY <2>9, <2>10 DEF Typed
<1>9. CASE Tick
  <2>1. now \in Nat /\ now' = now + 1 /\ now' \in Time
    BY <1>9 DEF Typed, TypeOK, Tick, Time
  <2>2. {WindowAt(t) : t \in 0..now} \subseteq {WindowAt(t) : t \in 0..now'}
    BY <2>1
  <2>3. values' \in [Server -> Seq({WindowAt(t) : t \in 0..now'})]
    BY <1>9, <2>2, SeqMonotonic DEF Typed, TypeOK, Tick
  <2>. QED BY <1>9, <2>1, <2>3 DEF Typed, TypeOK, Handled, Tick
<1>10. CASE UNCHANGED vars
  BY <1>10 DEF Typed, TypeOK, Handled, vars
<1>. QED BY <1>1, <1>2, <1>3, <1>4, <1>5, <1>6, <1>7, <1>8, <1>9, <1>10 DEF Next

\* A process keeps between one and Count windows, distinct, in order and none
\* in the future, for any lengths, processes and requests (generate_nonces).
THEOREM TypeCorrect == Spec => []TypeOK
<1>1. Typed => TypeOK
  BY DEF Typed
<1>. QED BY <1>1, InitTyped, NextTyped, PTL DEF Spec

-----------------------------------------------------------------------------
(* Nonces that clients and responses carry.                                 *)

\* A nonce was handed out in its window, and the process that did so has kept
\* the window Recent unless it was restarted since.
Fine(n, t, v, st) ==
    /\ n.window = WindowAt(n.at) /\ n.at <= t
    /\ st[n.by] < n.at => Recent(n.window, v[n.by])

AllFine ==
    /\ latest # None => Fine(latest, now, values, started)
    /\ \A r \in Request : nonce[r] # None => Fine(nonce[r], now, values, started)

Invariant == Typed /\ AllFine

LEMMA FineAfterGenerate ==
    ASSUME Count >= 2, TypeOK, NEW s \in Server, Generate(s), UNCHANGED <<now, started>>,
           NEW n \in Nonce, Fine(n, now, values, started)
    PROVE  Fine(n, now', values', started')
<1>1. n.by \in Server /\ n.window \in Nat
  BY WindowBounds, NonceAssumption DEF Nonce, Time
<1>2. CASE n.by = s
  <2>1. values'[s] = Generated(s)
    BY DEF Generate, TypeOK
  <2>2. Recent(n.window, values[s]) => Recent(n.window, Generated(s))
    BY <1>1, TypedOrdered, GeneratedRecent
  <2>. QED BY <1>2, <2>1, <2>2 DEF Fine
<1>3. CASE n.by # s
  BY <1>1, <1>3 DEF Fine, Generate, TypeOK
<1>. QED BY <1>2, <1>3

LEMMA FineAfterRestart ==
    ASSUME TypeOK, NEW s \in Server, Restart(s),
           NEW n \in Nonce, Fine(n, now, values, started)
    PROVE  Fine(n, now', values', started')
<1>1. n.by \in Server /\ n.at \in Nat /\ now \in Nat
  BY NonceAssumption DEF Nonce, Time, TypeOK
<1>2. CASE n.by = s
  <2>1. started'[s] = now /\ n.at <= now /\ now' = now
    BY DEF Restart, TypeOK, Fine
  <2>. QED BY <1>1, <1>2, <2>1 DEF Fine
<1>3. CASE n.by # s
  BY <1>1, <1>3 DEF Fine, Restart, TypeOK
<1>. QED BY <1>2, <1>3

LEMMA FineLater ==
    ASSUME TypeOK, Tick, NEW n \in Nonce, Fine(n, now, values, started)
    PROVE  Fine(n, now', values', started')
<1>1. n.at \in Nat /\ now \in Nat
  BY NonceAssumption DEF Nonce, Time, TypeOK
<1>. QED BY <1>1 DEF Tick, Fine

LEMMA NextInvariant ==
    ASSUME Count >= 2, Invariant, [Next]_vars
    PROVE  Invariant'
<1>. USE DEF Invariant
<1>1. Typed'
  BY NextTyped
<1>2. latest \in Nonce \cup {None} /\ \A r \in Request : nonce[r] \in Nonce \cup {None}
  BY DEF Typed, TypeOK
<1>3. ASSUME NEW s \in Server, Generate(s), UNCHANGED <<now, started>>
      PROVE  \A n \in Nonce : Fine(n, now, values, started) => Fine(n, now', values', started')
  BY <1>3, FineAfterGenerate DEF Typed
<1>4. ASSUME NEW r \in Request, Send(r) PROVE AllFine'
  BY <1>4 DEF AllFine, Send, Typed, TypeOK
<1>5. ASSUME NEW r \in Request, NEW s \in Server, Check(r, s) PROVE AllFine'
  BY <1>2, <1>3, <1>5 DEF AllFine, Check
<1>6. ASSUME NEW r \in Request, NEW s \in Server, Decline(r, s) PROVE AllFine'
  BY <1>2, <1>3, <1>6 DEF AllFine, Decline
<1>7. ASSUME NEW r \in Request, Answer(r) PROVE AllFine'
  <2>. DEFINE given == [window |-> Generated(handler[r])[1], at |-> now, by |-> handler[r]]
  <2>1. handler[r] \in Server /\ Generate(handler[r]) /\ UNCHANGED <<now, started, latest>>
    BY <1>7 DEF Typed, Handled, Answer
  <2>2. Generated(handler[r])[1] = WindowAt(now) /\ now \in Nat
    BY <2>1, TypedOrdered, GeneratedOrdered DEF Typed
  <2>3. values'[handler[r]] = Generated(handler[r])
    BY <2>1 DEF Generate, Typed, TypeOK
  <2>4. Fine(given, now', values', started')
    BY <2>1, <2>2, <2>3 DEF Fine, Recent
  <2>5. nonce' = [nonce EXCEPT ![r] = given]
    BY <1>7 DEF Answer
  <2>6. nonce'[r] = given /\ \A x \in Request \ {r} : nonce'[x] = nonce[x]
    BY <2>5 DEF Typed, TypeOK
  <2>7. latest # None => Fine(latest, now', values', started')
    BY <1>2, <1>3, <2>1 DEF AllFine
  <2>8. \A x \in Request : nonce[x] # None => Fine(nonce[x], now', values', started')
    BY <1>2, <1>3, <2>1 DEF AllFine
  <2>. HIDE DEF given
  <2>. QED BY <2>1, <2>4, <2>6, <2>7, <2>8 DEF AllFine
<1>8. ASSUME NEW r \in Request, Receive(r) PROVE AllFine'
  BY <1>8 DEF AllFine, Receive, End
<1>9. ASSUME NEW r \in Request, Lose(r) PROVE AllFine'
  BY <1>9 DEF AllFine, Lose, End
<1>10. ASSUME NEW s \in Server, Visit(s) PROVE AllFine'
  BY <1>2, <1>3, <1>10 DEF AllFine, Visit
<1>11. ASSUME NEW s \in Server, Restart(s) PROVE AllFine'
  <2>1. \A n \in Nonce : Fine(n, now, values, started) => Fine(n, now', values', started')
    BY <1>11, FineAfterRestart DEF Typed
  <2>. QED BY <1>2, <1>11, <2>1 DEF AllFine, Restart, End
<1>12. ASSUME Tick PROVE AllFine'
  <2>1. \A n \in Nonce : Fine(n, now, values, started) => Fine(n, now', values', started')
    BY <1>12, FineLater DEF Typed
  <2>2. latest' = latest /\ nonce' = nonce
    BY <1>12 DEF Tick
  <2>. QED BY <1>2, <2>1, <2>2 DEF AllFine
<1>13. ASSUME UNCHANGED vars PROVE AllFine'
  BY <1>13 DEF AllFine, vars
<1>14. AllFine'
  BY <1>4, <1>5, <1>6, <1>7, <1>8, <1>9, <1>10, <1>11, <1>12, <1>13 DEF Next
<1>. QED BY <1>1, <1>14

\* The step that refuses a nonce, under the invariant.
Explained(r) ==
    pc[r] = "sent" /\ pc'[r] = "refused" =>
        \/ nonce[r] = None
        \/ now > nonce[r].at + Window
        \/ /\ nonce[r].window < WindowAt(now)
           /\ \/ handler'[r] # nonce[r].by
              \/ started[handler'[r]] >= nonce[r].at

LEMMA CheckExplained ==
    ASSUME Count >= 2, Invariant, NEW r \in Request, NEW s \in Server, Check(r, s),
           pc'[r] = "refused", nonce[r] # None
    PROVE  \/ now > nonce[r].at + Window
           \/ /\ nonce[r].window < WindowAt(now)
              /\ handler'[r] # nonce[r].by \/ started[handler'[r]] >= nonce[r].at
<1>. DEFINE n == nonce[r]
<1>1. /\ n \in Nonce /\ n.at \in Nat /\ now \in Nat /\ n.at <= now
      /\ n.window = WindowAt(n.at) /\ handler'[r] = s
      /\ started[n.by] < n.at => Recent(n.window, values[n.by])
  BY NonceAssumption DEF Invariant, Typed, TypeOK, AllFine, Fine, Nonce, Time, Check
<1>2. ~Holds(Generated(s), n.window)
  BY DEF Check, Invariant, Typed, TypeOK
<1>3. Ordered(values[s], now)
  BY TypedOrdered DEF Invariant, Typed
<1>4. Ordered(Generated(s), now) /\ Generated(s)[1] = WindowAt(now)
  BY <1>1, <1>3, GeneratedOrdered
<1>5. n.window # WindowAt(now)
  <2>1. 1 \in 1..Len(Generated(s))
    BY <1>4, OrderedElements, <1>1
  <2>. QED BY <1>2, <1>4, <2>1 DEF Holds
<1>6. n.window < WindowAt(now)
  <2>1. WindowAt(n.at) \in Nat /\ WindowAt(now) \in Nat
    BY <1>1, WindowBounds
  <2>2. WindowAt(n.at) <= WindowAt(now)
    BY <1>1, WindowMonotonic
  <2>. QED BY <1>1, <1>5, <2>1, <2>2
<1>7. started[s] \in Nat
  BY <1>1 DEF Invariant, Typed, TypeOK
<1>8. CASE s = n.by /\ started[s] < n.at
  <2>1. Recent(n.window, Generated(s))
    <3>1. n.window \in Nat
      BY <1>1, WindowBounds
    <3>. QED BY <1>1, <1>3, <1>8, <3>1, GeneratedRecent
  <2>2. n.at + Window < now
    BY <1>1, <1>2, <1>4, <2>1, RecentGone
  <2>. QED BY <1>1, <2>2, NonceAssumption
<1>9. CASE ~(s = n.by /\ started[s] < n.at)
  BY <1>1, <1>6, <1>7, <1>9
<1>. QED BY <1>8, <1>9

LEMMA StepExplained ==
    ASSUME Count >= 2, Invariant, [Next]_vars, NEW r \in Request
    PROVE  Explained(r)
<1>. SUFFICES ASSUME pc[r] = "sent", pc'[r] = "refused", nonce[r] # None
              PROVE  Explained(r)
  BY DEF Explained
<1>1. ASSUME NEW s \in Server, Check(r, s) PROVE Explained(r)
  BY <1>1, CheckExplained DEF Explained
<1>2. ASSUME NEW x \in Request, NEW s \in Server, Check(x, s), x # r PROVE FALSE
  BY <1>2 DEF Check, Invariant, Typed, TypeOK
<1>3. ASSUME NEW x \in Request, NEW s \in Server, Decline(x, s) PROVE FALSE
  BY <1>3 DEF Decline, Invariant, Typed, TypeOK
<1>4. ASSUME NEW x \in Request, Send(x) \/ Answer(x) PROVE FALSE
  BY <1>4 DEF Send, Answer, Invariant, Typed, TypeOK
<1>5. ASSUME NEW x \in Request, Receive(x) \/ Lose(x) PROVE FALSE
  BY <1>5 DEF Receive, Lose, End
<1>6. ASSUME NEW s \in Server, Visit(s) \/ Restart(s) PROVE FALSE
  BY <1>6 DEF Visit, Restart, End
<1>7. CASE Tick \/ UNCHANGED vars
  BY <1>7 DEF Tick, vars
<1>. QED BY <1>1, <1>2, <1>3, <1>4, <1>5, <1>6, <1>7 DEF Next

\* For any processes, requests and length of a window, with two windows kept or
\* more: a nonce is refused for one of the four reasons of RefusedNonceExplained
\* only (generate_nonces, from_request_parts, set_dpop_headers).
THEOREM NoncesExplained ==
    ASSUME Count >= 2
    PROVE  Spec => RefusedNonceExplained
<1>1. Init => Invariant
  BY InitTyped DEF Init, Invariant, AllFine
<1>2. Invariant /\ [Next]_vars => Invariant'
  BY NextInvariant
<1>3. Invariant /\ [Next]_vars => [\A r \in Request : Explained(r)]_vars
  BY StepExplained
<1>4. Spec => [][\A r \in Request : Explained(r)]_vars
  BY <1>1, <1>2, <1>3, PTL DEF Spec
<1>. QED BY <1>4 DEF RefusedNonceExplained, Explained
=============================================================================
